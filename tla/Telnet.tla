------------------------------- MODULE Telnet -------------------------------
(***************************************************************************)
(* The telnet client of src/telnet_client: its three finite-state          *)
(* machines, option negotiation and the network virtual terminal, against  *)
(* a server that negotiates as RFC 854 asks.  Bytes have names; TT_SEND    *)
(* and TOECHO are the same byte.                                           *)
(*                                                                         *)
(* telnet() prints to the file tmp.txt, so that tcgetattr in do_echo       *)
(* always fails: doecho is never set and scripting, which needs it, never  *)
(* begins.  Nothing calls fcntl(F_SETOWN), so SIGURG never comes and       *)
(* synching stays 0.                                                       *)
(***************************************************************************)
EXTENDS Integers, Sequences, SequencesExt, FiniteSets, FiniteSetsExt

CONSTANTS MaxUnits, MaxKeys     \* bounds on what the server starts and on what is typed

TT_SEND == "ECHO"
TT_IS == "BINARY"
Verb == {"WILL", "WONT", "DO", "DONT"}

VARIABLES
    focus,                          \* what is exercised: options, screen or keys
    input, output,                  \* the bytes between server and client
    ttstate, sostate, substate,
    option_cmd,
    on,                             \* which of rcvbinary, sndbinary, noga and termtype are set
    term, getenv,                   \* term is set; TERM is in the environment
    last_char, screen,
    aborted, quit,                  \* tnabort, or fputs(NULL); dcon
    does, asked,                    \* what the server does, and what it has the client do
    units, keys,                    \* counters
    data, modes,                    \* what the server sent to print; whether it met rcvbinary
    mixed,                          \* the mode changed between a CR or LF and its partner
    typed, got                      \* what was typed, and the server's understanding of it

options == <<on, term, option_cmd>>
machine == <<ttstate, substate, options, last_char, screen, aborted,
             modes, mixed>>
server == <<does, asked, units, data, got>>
vars == <<focus, input, output, machine, sostate, getenv, quit, server, keys, typed>>

(* What the server can be willing to do and ask for; "x" is not supported. *)
Will ==
    CASE focus = "options" -> {"ECHO", "NOGA", "BINARY", "x"}
      [] focus = "screen" -> {"BINARY"} [] focus = "keys" -> {}
Do ==
    CASE focus = "options" -> {"TERMTYPE", "BINARY", "x"}
      [] focus = "screen" -> {} [] focus = "keys" -> {"BINARY"}

InitOf(f, env) ==
    /\ focus = f
    /\ input = <<>> /\ output = <<>>
    /\ ttstate = "TSDATA" /\ sostate = "KSREMOTE" /\ substate = "SS_START"
    /\ option_cmd = "none" /\ on = {} /\ term = FALSE /\ getenv = env
    /\ last_char = "none" /\ screen = <<>>
    /\ aborted = FALSE /\ quit = FALSE
    /\ does = [o \in {"ECHO", "NOGA", "BINARY", "x"} |-> "no"]
    /\ asked = [o \in {"TERMTYPE", "BINARY", "x"} |-> "no"]
    /\ units = 0 /\ keys = 0 /\ data = <<>> /\ modes = <<>> /\ mixed = FALSE
    /\ typed = <<>> /\ got = <<>>

Init == \E f \in {"options", "screen", "keys"}, env \in BOOLEAN : InitOf(f, env)
-----------------------------------------------------------------------------
ttstab == <<
    <<"TSDATA",   "IAC",      "TSIAC",    "no_op">>,
    <<"TSDATA",   "ANY",      "TSDATA",   "ttputc">>,
    <<"TSIAC",    "IAC",      "TSDATA",   "ttputc">>,
    <<"TSIAC",    "SB",       "TSSUBNEG", "no_op">>,
    <<"TSIAC",    "NOP",      "TSDATA",   "no_op">>,
    <<"TSIAC",    "DM",       "TSDATA",   "tcdm">>,
    <<"TSIAC",    "WILL",     "TSWOPT",   "recopt">>,
    <<"TSIAC",    "WONT",     "TSWOPT",   "recopt">>,
    <<"TSIAC",    "DO",       "TSDOPT",   "recopt">>,
    <<"TSIAC",    "DONT",     "TSDOPT",   "recopt">>,
    <<"TSIAC",    "ANY",      "TSDATA",   "no_op">>,
    <<"TSSUBNEG", "IAC",      "TSSUBIAC", "no_op">>,
    <<"TSSUBNEG", "ANY",      "TSSUBNEG", "subopt">>,
    <<"TSSUBIAC", "SE",       "TSDATA",   "subend">>,
    <<"TSSUBIAC", "ANY",      "TSSUBNEG", "subopt">>,
    <<"TSWOPT",   "ECHO",     "TSDATA",   "do_echo">>,
    <<"TSWOPT",   "NOGA",     "TSDATA",   "do_noga">>,
    <<"TSWOPT",   "BINARY",   "TSDATA",   "do_txbinary">>,
    <<"TSWOPT",   "ANY",      "TSDATA",   "do_notsup">>,
    <<"TSDOPT",   "TERMTYPE", "TSDATA",   "will_termtype">>,
    <<"TSDOPT",   "BINARY",   "TSDATA",   "will_txbinary">>,
    <<"TSDOPT",   "ANY",      "TSDATA",   "will_notsup">>,
    <<"INVALID",  "ANY",      "INVALID",  "tnabort">> >>

substab == <<
    <<"SS_START",    "TERMTYPE", "SS_TERMTYPE", "no_op">>,
    <<"SS_START",    "ANY",      "SS_END",      "no_op">>,
    <<"SS_TERMTYPE", TT_SEND,    "SS_END",      "subtermtype">>,
    <<"SS_TERMTYPE", "ANY",      "SS_END",      "no_op">>,
    <<"SS_END",      "ANY",      "SS_END",      "no_op">>,
    <<"INVALID",     "ANY",      "INVALID",     "tnabort">> >>

sostab == <<
    <<"KSREMOTE", "ESCAPE", "KSLOCAL",  "no_op">>,
    <<"KSREMOTE", "ANY",    "KSREMOTE", "soputc">>,
    <<"KSLOCAL",  "s",      "KSCOLLECT", "scrinit">>,
    <<"KSLOCAL",  "u",      "KSREMOTE", "unscript">>,
    <<"KSLOCAL",  "ESCAPE", "KSREMOTE", "soputc">>,
    <<"KSLOCAL",  ".",      "KSREMOTE", "dcon">>,
    <<"KSLOCAL",  "^Z",     "KSREMOTE", "suspend">>,
    <<"KSLOCAL",  "^T",     "KSREMOTE", "status">>,
    <<"KSLOCAL",  "ANY",    "KSREMOTE", "sonotsup">>,
    <<"KSCOLLECT", "NL",    "KSREMOTE", "scrwrap">>,
    <<"KSCOLLECT", "ANY",   "KSCOLLECT", "scrgetc">>,
    <<"INVALID",  "ANY",    "INVALID",  "tnabort">> >>

(* fsminit: a row for the byte itself, wherever it is, else the first for any byte; *)
(* the last row if there is none.                                                   *)
fsminit_overwrites(tab, state, c) ==
    LET rows == {i \in DOMAIN tab : tab[i][1] = state /\ tab[i][2] \in {c, "ANY"}}
    IN  tab[IF rows # {} THEN Max(rows) ELSE Len(tab)]
fsminit(tab, state, c) ==
    LET exact == {i \in DOMAIN tab : tab[i][1] = state /\ tab[i][2] = c}
        any   == {i \in DOMAIN tab : tab[i][1] = state /\ tab[i][2] = "ANY"}
    IN  tab[IF exact # {} THEN Max(exact) ELSE IF any # {} THEN Min(any) ELSE Len(tab)]
-----------------------------------------------------------------------------
(* The handlers of an option: nothing is said unless the flag changes. *)
Flip(flag) == IF flag \in on THEN on \ {flag} ELSE on \cup {flag}
Changes(flag, cmd) == (flag \in on) # (option_cmd = cmd)

Toggle_answers_before(flag, cmd, yes, no, c) ==
    IF Changes(flag, cmd)
    THEN /\ on' = Flip(flag) /\ UNCHANGED <<term, option_cmd>>
         /\ output' = output \o <<"IAC", IF flag \in on THEN yes ELSE no, c>>
    ELSE UNCHANGED <<options, output>>
Toggle(flag, cmd, yes, no, c) ==
    IF Changes(flag, cmd)
    THEN /\ on' = Flip(flag) /\ UNCHANGED <<term, option_cmd>>
         /\ output' = output \o <<"IAC", IF flag \in on' THEN yes ELSE no, c>>
    ELSE UNCHANGED <<options, output>>

do_noga(c) == Toggle("noga", "WILL", "DO", "DONT", c)
do_txbinary(c) == Toggle("rcvbinary", "WILL", "DO", "DONT", c)
will_txbinary(c) == Toggle("sndbinary", "DO", "WILL", "WONT", c)

(* doecho is 0, and stays 0 because tcgetattr fails *)
do_echo(c) ==
    /\ output' = IF option_cmd = "WONT" THEN output ELSE output \o <<"IAC", "DONT", c>>
    /\ UNCHANGED options

do_notsup(c) == output' = output \o <<"IAC", "DONT", c>> /\ UNCHANGED options
will_notsup(c) == output' = output \o <<"IAC", "WONT", c>> /\ UNCHANGED options

recopt(c) == option_cmd' = c /\ UNCHANGED <<on, term, output>>

(* A terminal type comes with a binary path: DO and WILL BINARY are sent, and  *)
(* taken to be in effect, before the server has agreed.                        *)
will_termtype(c) ==
    IF ~ Changes("termtype", "DO") THEN UNCHANGED <<options, output>>
    ELSE IF "termtype" \in on \/ ~ (term \/ getenv)
    THEN /\ on' = on \ {"termtype"}
         /\ output' = output \o <<"IAC", "WONT", c>>
         /\ UNCHANGED <<term, option_cmd>>
    ELSE /\ on' = on \cup {"termtype", "rcvbinary", "sndbinary"}
         /\ output' = output \o <<"IAC", "WILL", c>>
                \o (IF "rcvbinary" \in on THEN <<>> ELSE <<"IAC", "DO", "BINARY">>)
                \o (IF "sndbinary" \in on THEN <<>> ELSE <<"IAC", "WILL", "BINARY">>)
         /\ term' = TRUE /\ option_cmd' = "DO"

(* Subnegotiation has a machine of its own; fputs(term) needs term. *)
subtermtype ==
    IF term THEN /\ output' = output \o <<"IAC", "SB", "TERMTYPE", TT_IS, "x", "IAC", "SE">>
                 /\ UNCHANGED aborted
    ELSE aborted' = TRUE /\ UNCHANGED output

subopt(c) ==
    LET row == fsminit(substab, substate, c) IN
    /\ substate' = row[3]
    /\ IF row[4] = "subtermtype" THEN subtermtype
       ELSE aborted' = (row[4] = "tnabort") /\ UNCHANGED output
    /\ UNCHANGED options

subend == substate' = "SS_START" /\ UNCHANGED <<options, output, aborted>>

(* The terminal: CR and LF wait for the next character; tcout knows the        *)
(* capabilities if TERM is set; the byte 255 is not printed.                   *)
tcout(cap) == IF getenv THEN <<cap>> ELSE <<>>
Paired_once(c) == last_char = "CR" /\ c = "LF"
Paired(c) == {last_char, c} = {"CR", "LF"}

ttputc(c) ==
    /\ modes' = Append(modes, "rcvbinary" \in on)
    /\ CASE "rcvbinary" \in on -> screen' = Append(screen, c) /\ UNCHANGED last_char
         [] "rcvbinary" \notin on /\ Paired(c) ->
              screen' = Append(screen, "LF") /\ last_char' = "none"
         [] OTHER ->
              /\ screen' = screen
                    \o (CASE last_char = "CR" -> tcout("cr") [] last_char = "LF" -> tcout("do")
                          [] OTHER -> <<>>)
                    \o (IF c = "x" THEN <<c>> ELSE <<>>)
              /\ last_char' = c

Handles(act, c) ==
    CASE act = "recopt" -> recopt(c)
      [] act = "do_echo" -> do_echo(c)
      [] act = "do_noga" -> do_noga(c)
      [] act = "do_txbinary" -> do_txbinary(c)
      [] act = "do_notsup" -> do_notsup(c)
      [] act = "will_termtype" -> will_termtype(c)
      [] act = "will_txbinary" -> will_txbinary(c)
      [] act = "will_notsup" -> will_notsup(c)
      [] OTHER -> UNCHANGED <<options, output>>

ttwrite ==
    LET c == Head(input)
        row == fsminit(ttstab, ttstate, c)
        act == row[4]
    IN  /\ input # <<>> /\ ~ quit /\ ~ aborted
        /\ input' = Tail(input)
        /\ ttstate' = row[3]
        /\ IF act = "ttputc" THEN ttputc(c) ELSE UNCHANGED <<screen, last_char, modes>>
        /\ CASE act = "subopt" -> subopt(c)
             [] act = "subend" -> subend
             [] OTHER -> /\ Handles(act, c)
                         /\ aborted' = (act = "tnabort") /\ UNCHANGED substate
        /\ mixed' = (mixed \/ (("rcvbinary" \in on') # ("rcvbinary" \in on)
                                /\ last_char \in {"CR", "LF"}))
        /\ UNCHANGED <<focus, sostate, getenv, quit, server, keys, typed>>
-----------------------------------------------------------------------------
(* c & 0x7f; the byte 255 becomes DEL, the usual erase character *)
Seven(c) == IF c = "IAC" THEN "DEL" ELSE c

soputc_unstuffed(c) ==
    IF "sndbinary" \in on THEN <<c>>
    ELSE CASE Seven(c) = "INTR" -> <<"IAC", "IP">> [] Seven(c) = "DEL" -> <<"IAC", "EC">>
           [] OTHER -> <<Seven(c)>>
soputc(c) ==
    IF "sndbinary" \in on THEN IF c = "IAC" THEN <<"IAC", "IAC">> ELSE <<c>>
    ELSE CASE Seven(c) = "INTR" -> <<"IAC", "IP">> [] Seven(c) = "DEL" -> <<"IAC", "EC">>
           [] OTHER -> <<Seven(c)>>

(* what the user means by a byte *)
Meaning(c) ==
    CASE "sndbinary" \in on -> <<c>> [] c = "INTR" -> <<"IAC", "IP">>
      [] c = "IAC" -> <<"IAC", "EC">> [] OTHER -> <<c>>

(* scrinit fails without remote echo, and an error leads back to KSREMOTE;     *)
(* unscript, suspend, status and sonotsup print or wait.                       *)
sowrite(c) ==
    LET row == fsminit(sostab, sostate, c) IN
    /\ ~ quit /\ ~ aborted /\ keys < MaxKeys /\ keys' = keys + 1
    /\ sostate' = IF row[4] = "scrinit" THEN "KSREMOTE" ELSE row[3]
    /\ IF row[4] = "soputc" THEN output' = output \o soputc(c) /\ typed' = Append(typed, Meaning(c))
       ELSE UNCHANGED <<output, typed>>
    /\ quit' = (row[4] = "dcon")
    /\ UNCHANGED <<focus, input, machine, getenv, server>>
-----------------------------------------------------------------------------
(* The server (external).  Each option is off, on, or requested and not        *)
(* answered; a request for what is in effect is not answered.                  *)
starts(request) ==
    /\ ~ quit /\ ~ aborted /\ units < MaxUnits /\ units' = units + 1
    /\ input' = input \o request
    /\ UNCHANGED <<focus, output, machine, sostate, getenv, quit, got, keys, typed>>

offers(o) ==
    /\ does[o] # "wanted"
    /\ starts(<<"IAC", IF does[o] = "no" THEN "WILL" ELSE "WONT", o>>)
    /\ does' = [does EXCEPT ![o] = IF @ = "no" THEN "wanted" ELSE "no"]
    /\ UNCHANGED <<asked, data>>

asks(o) ==
    /\ asked[o] # "wanted"
    /\ starts(<<"IAC", IF asked[o] = "no" THEN "DO" ELSE "DONT", o>>)
    /\ asked' = [asked EXCEPT ![o] = IF @ = "no" THEN "wanted" ELSE "no"]
    /\ UNCHANGED <<does, data>>

subnegotiates ==
    /\ asked["TERMTYPE"] = "yes"
    /\ starts(<<"IAC", "SB", "TERMTYPE", TT_SEND, "IAC", "SE">>)
    /\ UNCHANGED <<does, asked, data>>

prints(c) ==
    /\ focus = "screen"
    /\ starts(IF c = "IAC" THEN <<"IAC", "IAC">> ELSE <<c>>)
    /\ data' = Append(data, c)
    /\ UNCHANGED <<does, asked>>

UnitLength(s) ==
    CASE s[1] # "IAC" -> 1
      [] Len(s) < 2 -> 2
      [] s[2] = "SB" -> 7
      [] s[2] \in Verb -> 3
      [] OTHER -> 2

(* What the client says of an option: state is does[o] or asked[o], agrees and *)
(* refuses are the answers to a request the server had not made itself.        *)
Heard(state, positive, o, agrees, refuses, new, answer) ==
    CASE state = "wanted" -> new = (IF positive THEN "yes" ELSE "no") /\ answer = <<>>
      [] state = "yes" /\ positive -> new = "yes" /\ answer = <<>>
      [] state = "yes" /\ ~ positive -> new = "no" /\ answer = <<"IAC", refuses, o>>
      [] state = "no" /\ ~ positive -> new = "no" /\ answer = <<>>
      [] OTHER -> \/ new = "yes" /\ answer = <<"IAC", agrees, o>>
                  \/ new = "no" /\ answer = <<"IAC", refuses, o>>

server_reads ==
    /\ output # <<>> /\ Len(output) >= UnitLength(output) /\ ~ quit /\ ~ aborted
    /\ LET u == SubSeq(output, 1, UnitLength(output)) IN
       /\ output' = SubSeq(output, Len(u) + 1, Len(output))
       /\ IF Len(u) = 3 /\ u[2] \in {"DO", "DONT"}
          THEN \E new \in {"yes", "no"}, answer \in {<<>>, <<"IAC", "WILL", u[3]>>, <<"IAC", "WONT", u[3]>>} :
                /\ Heard(does[u[3]], u[2] = "DO", u[3], "WILL", "WONT", new, answer)
                /\ does' = [does EXCEPT ![u[3]] = new] /\ input' = input \o answer
                /\ UNCHANGED <<asked, got>>
          ELSE IF Len(u) = 3
          THEN \E new \in {"yes", "no"}, answer \in {<<>>, <<"IAC", "DO", u[3]>>, <<"IAC", "DONT", u[3]>>} :
                /\ Heard(asked[u[3]], u[2] = "WILL", u[3], "DO", "DONT", new, answer)
                /\ asked' = [asked EXCEPT ![u[3]] = new] /\ input' = input \o answer
                /\ UNCHANGED <<does, got>>
          ELSE /\ got' = IF Len(u) = 7 THEN got
                         ELSE Append(got, IF u = <<"IAC", "IAC">> THEN <<"IAC">> ELSE u)
               /\ UNCHANGED <<does, asked, input>>
    /\ UNCHANGED <<focus, machine, sostate, getenv, quit, units, data, keys, typed>>

Next ==
    \/ ttwrite \/ server_reads \/ subnegotiates
    \/ focus = "keys" /\ \E c \in {"x", "IAC", "INTR", "ESCAPE", "s", "."} : sowrite(c)
    \/ \E o \in Will : offers(o)
    \/ \E o \in Do : asks(o)
    \/ \E c \in {"x", "CR", "LF", "IAC"} : prints(c)

Spec == Init /\ [][Next]_vars /\ WF_vars(ttwrite) /\ WF_vars(server_reads)
-----------------------------------------------------------------------------
Quiet == input = <<>> /\ output = <<>>

(* Once nothing is under way, client and server agree on every option, and no  *)
(* request is left without an answer: also when both ask for BINARY at once,   *)
(* or the server changes its mind before the answer has come.                  *)
OptionsAgree ==
    Quiet /\ ~ quit =>
        /\ {o \in DOMAIN does : does[o] # "no"} =
              {o \in {"BINARY", "NOGA"} : (IF o = "BINARY" THEN "rcvbinary" ELSE "noga") \in on}
        /\ {o \in DOMAIN asked : asked[o] # "no"} =
              {o \in {"BINARY", "TERMTYPE"} : (IF o = "BINARY" THEN "sndbinary" ELSE "termtype") \in on}
        /\ \A o \in DOMAIN does : does[o] # "wanted"
        /\ \A o \in DOMAIN asked : asked[o] # "wanted"

(* Negotiation ends: no answer is answered for ever. *)
NegotiationEnds == <>[](Quiet \/ quit)

(* The screen of an NVT, for data[i], data[i+1], ...: CR LF and LF CR are one   *)
(* new line; a CR or LF at the end is still waiting for its partner.           *)
RECURSIVE Screen(_)
Screen(i) ==
    IF i > Len(data) THEN <<>>
    ELSE IF modes[i] THEN <<data[i]>> \o Screen(i + 1)
    ELSE IF data[i] \notin {"CR", "LF"} THEN SelectSeq(<<data[i]>>, LAMBDA c : c = "x") \o Screen(i + 1)
    ELSE IF i = Len(data) THEN <<>>
    ELSE IF {data[i], data[i + 1]} = {"CR", "LF"} THEN <<"LF">> \o Screen(i + 2)
    ELSE tcout(IF data[i] = "CR" THEN "cr" ELSE "do") \o Screen(i + 1)

(* Whatever commands are mixed in, each side understands the other: the client *)
(* shows exactly the data, is back between commands when everything is read,   *)
(* and the server takes each byte typed for what it means, 255 included.  The  *)
(* screen is not always right when the mode changes behind a CR or LF.         *)
StreamsDecoded ==
    /\ ~ aborted /\ sostate # "KSCOLLECT"
    /\ input = <<>> => /\ ttstate = "TSDATA" /\ substate = "SS_START"
                       /\ Len(modes) = Len(data)
                       /\ ~ mixed => screen = Screen(1)
    /\ IsPrefix(got, typed) /\ (output = <<>> => got = typed)
=============================================================================
