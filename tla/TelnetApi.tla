----------------------------- MODULE TelnetApi ------------------------------
(***************************************************************************)
(* The calls of src/telnet_client/call_telnet_api.c, made by the program's *)
(* main thread, against the thread that runs telnet().  A command is       *)
(* written to a pipe, main sleeps, and one read of another pipe is taken   *)
(* for the answer.  Commands are numbered; the answer to command k comes   *)
(* from the switch in one piece or two, and a piece is <<k, "end">> or     *)
(* <<k, "part">>.  What is sent before the password is answer 0.           *)
(***************************************************************************)
EXTENDS Naturals, Sequences, SequencesExt, FiniteSetsExt

CONSTANT BUFSIZE        \* of main's buffers, in pieces

VARIABLES
    script, greeting, breaks,   \* rigid: the calls, the first text, may the switch close early
    pc, command,                \* main's place in script, and the commands it has written
    f2s, s2f,                   \* the pipes
    thread,                     \* telnet() runs or has ended
    request, socket,            \* the connection, to the switch and from it
    reply, closed,              \* what the switch is about to send; it has closed
    pdata,                      \* what the last read returned
    last,                       \* the last piece main has read
    punctual                    \* answers up to this one had come when they were read

api == <<script, greeting, breaks, pc, command, f2s, s2f, thread, request, socket,
         reply, closed, pdata, last, punctual>>
rigid == <<script, greeting, breaks>>

exchange == <<"write", "sleep", "read">>
init_telnet_without_read == <<"prompt", "write", "sleep">>
init_telnet == <<"prompt">> \o exchange
get_port_stat == exchange \o exchange
add_port_vlan_h3c == FlattenSeq([i \in 1..6 |-> exchange])
del_port_vlan_h3c == FlattenSeq([i \in 1..5 |-> exchange])
quit_telnet == <<"write", "join">>

(* a session with one call between the first and the last; main's has three *)
main(call) == init_telnet \o call \o quit_telnet

InitOf(s, g, b) ==
    /\ script = s /\ greeting = g /\ breaks = b
    /\ pc = 1 /\ command = 0
    /\ f2s = <<>> /\ s2f = <<>> /\ thread = "runs"
    /\ request = <<>> /\ socket = <<>> /\ closed = FALSE
    /\ reply = [i \in DOMAIN greeting |-> <<0, greeting[i]>>]
    /\ pdata = <<>> /\ last = <<>> /\ punctual = 0

Init ==
    \/ \E g \in {<<"end">>, <<"part", "end">>, <<"end", "option">>}, b \in BOOLEAN :
        InitOf(main(get_port_stat), g, b)
    \/ \E call \in {add_port_vlan_h3c, del_port_vlan_h3c} : InitOf(main(call), <<"end">>, FALSE)

AtStep(s) == pc <= Len(script) /\ script[pc] = s
-----------------------------------------------------------------------------
write ==
    /\ AtStep("write")
    /\ pc' = pc + 1 /\ command' = command + 1
    /\ f2s' = Append(f2s, command')
    /\ UNCHANGED <<rigid, s2f, thread, request, socket, reply, closed, pdata, last, punctual>>

(* The sleep is over, whether the answer has come or not. *)
mmsleep ==
    /\ AtStep("sleep")
    /\ pc' = pc + 1
    /\ punctual' = IF punctual = command - 1 /\ <<command, "end">> \in ToSet(s2f)
                   THEN command ELSE punctual
    /\ UNCHANGED <<rigid, command, f2s, s2f, thread, request, socket, reply, closed, pdata, last>>

(* read() waits until there is something, and takes what fits.  The second read  *)
(* of get_port_stat appends at pdata + cc but still allows BUFSIZE bytes, so two  *)
(* long answers run past the end of pdata; here every read has a buffer of its    *)
(* own, as nothing below depends on the first part.                               *)
Taken(s) == SubSeq(s, 1, Min({BUFSIZE, Len(s)}))
Kept(s) == SubSeq(s, BUFSIZE + 1, Len(s))

Reads ==
    /\ s2f # <<>>
    /\ pdata' = Taken(s2f) /\ s2f' = Kept(s2f) /\ last' = Last(Taken(s2f))
    /\ UNCHANGED <<rigid, command, f2s, thread, request, socket, reply, closed, punctual>>

read == AtStep("read") /\ Reads /\ pc' = pc + 1

(* init_telnet's loop ends when what was read ends with the colon of the prompt *)
read_prompt ==
    /\ AtStep("prompt") /\ Reads
    /\ pc' = IF last'[2] = "end" THEN pc + 1 ELSE pc

join ==
    /\ AtStep("join") /\ thread = "ended"
    /\ pc' = pc + 1
    /\ UNCHANGED <<rigid, command, f2s, s2f, thread, request, socket, reply, closed, pdata, last,
                   punctual>>
-----------------------------------------------------------------------------
(* The loop of telnet(): what comes from the switch goes into the pipe as it   *)
(* is, what comes from the pipe goes to the switch.                            *)
from_socket_unflushed ==
    /\ thread = "runs" /\ socket # <<>>
    /\ socket' = <<>>
    /\ UNCHANGED <<rigid, pc, command, f2s, s2f, thread, request, reply, closed, pdata, last, punctual>>
from_socket ==
    /\ thread = "runs" /\ socket # <<>>
    /\ socket' = <<>> /\ s2f' = s2f \o socket
    /\ UNCHANGED <<rigid, pc, command, f2s, thread, request, reply, closed, pdata, last, punctual>>

from_pipe ==
    /\ thread = "runs" /\ f2s # <<>>
    /\ f2s' = <<>> /\ request' = request \o f2s
    /\ UNCHANGED <<rigid, pc, command, s2f, thread, socket, reply, closed, pdata, last, punctual>>

(* read() returns 0.  The pipes stay open. *)
end_of_file ==
    /\ thread = "runs" /\ closed /\ socket = <<>>
    /\ thread' = "ended"
    /\ UNCHANGED <<rigid, pc, command, f2s, s2f, request, socket, reply, closed, pdata, last, punctual>>
-----------------------------------------------------------------------------
(* The switch (external) answers one command after the other and closes when   *)
(* it is told to, by the last.                                                 *)
Quits == Len(SelectSeq(script, LAMBDA s : s = "write"))

switch_sends ==
    /\ reply # <<>> /\ ~ closed
    /\ reply' = Tail(reply) /\ socket' = Append(socket, Head(reply))
    /\ UNCHANGED <<rigid, pc, command, f2s, s2f, thread, request, closed, pdata, last, punctual>>

switch_obeys ==
    /\ request # <<>> /\ reply = <<>> /\ ~ closed
    /\ LET c == Head(request) IN
       IF c = Quits THEN closed' = TRUE /\ UNCHANGED reply
       ELSE reply' \in {<< <<c, "end">> >>, << <<c, "part">>, <<c, "end">> >>} /\ UNCHANGED closed
    /\ request' = Tail(request)
    /\ UNCHANGED <<rigid, pc, command, f2s, s2f, thread, socket, pdata, last, punctual>>

switch_breaks ==
    /\ breaks /\ ~ closed /\ closed' = TRUE
    /\ UNCHANGED <<rigid, pc, command, f2s, s2f, thread, request, socket, reply, pdata, last, punctual>>

Caller == write \/ mmsleep \/ read \/ read_prompt \/ join
telnet == from_socket \/ from_pipe \/ end_of_file

Next == Caller \/ telnet \/ switch_sends \/ switch_obeys \/ switch_breaks

Spec ==
    /\ Init /\ [][Next]_api
    /\ WF_api(Caller) /\ WF_api(from_socket) /\ WF_api(from_pipe) /\ WF_api(end_of_file)
    /\ WF_api(switch_sends) /\ WF_api(switch_obeys)
-----------------------------------------------------------------------------
Follows(a, b) ==
    CASE a[2] = "part" -> b = <<a[1], "end">>
      [] a = <<0, "end">> -> b[1] = IF Len(greeting) = 2 /\ greeting[2] = "option" THEN 0 ELSE 1
      [] OTHER -> b[1] = a[1] + 1

(* Nothing the switch sends is lost, repeated or reordered on its way through  *)
(* the thread; and as long as no answer was later than the sleep, each read    *)
(* returns the whole answer to its own command and nothing else.               *)
AnswersMatched ==
    /\ LET way == (IF last = <<>> THEN <<>> ELSE <<last>>) \o s2f \o socket
       IN  \A i \in 1..(Len(way) - 1) : Follows(way[i], way[i + 1])
    /\ pc > 1 /\ script[pc - 1] = "read" /\ punctual = command
           /\ Last(greeting) = "end" =>
         pdata \in {<< <<command, "end">> >>, << <<command, "part">>, <<command, "end">> >>}

(* The calls return and the program ends: unless the switch closes before it   *)
(* is told to quit, or says more behind its prompt, where main waits for ever. *)
ApiReturns == <>(pc = Len(script) + 1 \/ (breaks /\ closed) \/ Last(greeting) # "end")
=============================================================================
