------------------------------ MODULE ConfFile ------------------------------
(***************************************************************************)
(* GetProfileString of conf_file/conf.c, line by line, called by main for  *)
(* one key after the other with one and the same KeyVal.                   *)
(*                                                                         *)
(* A line is <<"section", name>>, <<"key", name, what follows '='>>,       *)
(* <<"comment">> or <<"other">>, which is blank or has no '='.  l_trim     *)
(* makes leading space irrelevant, and whatever follows "[name]" is not    *)
(* compared.  A value is told from the others by the line it is on.        *)
(***************************************************************************)
EXTENDS Integers, Sequences, FiniteSetsExt

CONSTANTS
    Calls,              \* the sections main asks for, one after the other
    MaxLines            \* bound on the file

Line == {<<"section", n>> : n \in {"a", "b"}}
        \cup {<<"key", n, v>> : n \in {"x", "y"}, v \in {"text", "spaces", "nothing"}}
        \cup {<<"comment">>, <<"other">>}
KeyName == "x"

VARIABLES
    file, pos,          \* the lines, and the one that fgets returns next
    found,              \* 0, 1 in the section, 2 with the key
    KeyVal,             \* what the caller's buffer holds: a value and its line
    results             \* of the calls that have returned
cvars == <<file, pos, found, KeyVal, results>>

Init ==
    /\ \E m \in 0..MaxLines : file \in [1..m -> Line]
    /\ pos = 1 /\ found = 0 /\ KeyVal = <<"uninitialized", 0>> /\ results = <<>>

AppName == Calls[Len(results) + 1]
End == Len(file) + 1

(* break, at the next section *)
LeavesSection_never(line) == FALSE
LeavesSection(line) == found = 1 /\ line[1] = "section"

(* sscanf stores nothing when nothing follows, and a value of spaces only is   *)
(* not replaced by what a_trim has left of it.                                 *)
Scanned(line) == IF line[3] = "nothing" THEN KeyVal ELSE <<line[3], pos>>

GetProfileString ==
    LET line == file[pos] IN
    /\ Len(results) < Len(Calls) /\ pos < End
    /\ IF found = 1 /\ line[1] = "key" /\ line[2] = KeyName
       THEN found' = 2 /\ KeyVal' = Scanned(line) /\ pos' = End
       ELSE /\ found' = IF found = 0 /\ line = <<"section", AppName>> THEN 1 ELSE found
            /\ pos' = IF LeavesSection(line) THEN End ELSE pos + 1
            /\ UNCHANGED KeyVal
    /\ UNCHANGED <<file, results>>

return ==
    /\ Len(results) < Len(Calls) /\ pos = End
    /\ results' = Append(results, [ret |-> IF found = 2 THEN 0 ELSE -1, val |-> KeyVal])
    /\ pos' = 1 /\ found' = 0
    /\ UNCHANGED <<file, KeyVal>>

Next == GetProfileString \/ return
Spec == Init /\ [][Next]_cvars
-----------------------------------------------------------------------------
Sections(n) == {i \in DOMAIN file : file[i] = <<"section", n>>}

(* The lines of the first section of that name that set the key *)
Settings(n) ==
    {i \in DOMAIN file :
        /\ file[i][1] = "key" /\ file[i][2] = KeyName
        /\ Sections(n) # {} /\ Min(Sections(n)) < i
        /\ \A j \in (Min(Sections(n)) + 1)..i : file[j][1] # "section"}

Before(c) == IF c = 1 THEN <<"uninitialized", 0>> ELSE results[c - 1].val

(* A call succeeds exactly if the first section of that name sets the key, and *)
(* returns the first value it is set to.  If it fails, and also if nothing     *)
(* follows the '=', the caller is left with the value of the call before.      *)
ProfileRead ==
    \A c \in DOMAIN results :
        results[c] =
            IF Settings(Calls[c]) = {} THEN [ret |-> -1, val |-> Before(c)]
            ELSE LET i == Min(Settings(Calls[c]))
                 IN  [ret |-> 0, val |-> IF file[i][3] = "nothing" THEN Before(c) ELSE <<file[i][3], i>>]
=============================================================================
