------------------------------ MODULE MCTelnet ------------------------------
(* The telnet client: its protocol against a negotiating server, or the calls
   of its API against the thread that runs it. *)
EXTENDS Telnet

CONSTANT BUFSIZE

VARIABLES part, script, greeting, breaks, pc, command, f2s, s2f, thread, request, socket,
          reply, closed, pdata, last, punctual

A == INSTANCE TelnetApi
api == <<script, greeting, breaks, pc, command, f2s, s2f, thread, request, socket,
         reply, closed, pdata, last, punctual>>

MCInit ==
    /\ part \in {"protocol", "api"}
    /\ IF part = "protocol"
       THEN Init /\ A!InitOf(A!main(A!get_port_stat), <<"end">>, FALSE)
       ELSE InitOf("options", FALSE) /\ A!Init

MCNext ==
    \/ part = "protocol" /\ Next /\ UNCHANGED <<part, api>>
    \/ part = "api" /\ A!Next /\ UNCHANGED <<part, vars>>

MCSpec ==
    /\ MCInit /\ [][MCNext]_<<part, vars, api>>
    /\ WF_vars(part = "protocol" /\ ttwrite /\ UNCHANGED <<part, api>>)
    /\ WF_vars(part = "protocol" /\ server_reads /\ UNCHANGED <<part, api>>)
    /\ WF_api(part = "api" /\ A!Caller /\ UNCHANGED <<part, vars>>)
    /\ WF_api(part = "api" /\ A!from_socket /\ UNCHANGED <<part, vars>>)
    /\ WF_api(part = "api" /\ A!from_pipe /\ UNCHANGED <<part, vars>>)
    /\ WF_api(part = "api" /\ A!end_of_file /\ UNCHANGED <<part, vars>>)
    /\ WF_api(part = "api" /\ A!switch_sends /\ UNCHANGED <<part, vars>>)
    /\ WF_api(part = "api" /\ A!switch_obeys /\ UNCHANGED <<part, vars>>)
-----------------------------------------------------------------------------
(* As long as no answer is later than the sleep of its exchange, each read of  *)
(* a pipe returns the whole answer to its own command and nothing else; late   *)
(* or not, nothing is lost, repeated or reordered between switch and caller.   *)
AnswersMatched == part = "api" => A!AnswersMatched

(* Negotiation ends, no answer being answered for ever; and the calls of the   *)
(* API return, unless the switch closes before it is told to or says more      *)
(* behind its prompt, where main waits for ever.                               *)
ComesToAnEnd == (part = "protocol" => NegotiationEnds) /\ (part = "api" => A!ApiReturns)
=============================================================================
