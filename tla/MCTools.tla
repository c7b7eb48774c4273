------------------------------ MODULE MCTools ------------------------------
(***************************************************************************)
(* The command-line programs: the I/O commands that write, those that read *)
(* and both joined by the chain, subkey, and its vanity search.  They do   *)
(* not meet, so a behaviour is about one part, chosen at the start; the    *)
(* others rest in an initial state.                                        *)
(***************************************************************************)
EXTENDS LaunchPath, Subkey, Vanity

CONSTANTS
    Parts,     \* the parts looked at
    p1, p2,    \* the processes of the I/O commands
    on,        \* a line of the input
    MaxMixed   \* bound: commands in a session that mixes all of them

VARIABLE part

AllParts == {"chain", "streams", "read", "path", "keys", "subkey", "vanity"}

ASSUME PartsAssumption == Parts \subseteq AllParts

-----------------------------------------------------------------------------
(* Constants.                                                              *)

\* Whatever the commands of "path" may record: the launches of p1, and the record
\* of p2 so that one that is no launch could be shown.
MCPayloads == [by : {p1}, ix : 1 .. 2, val : {TRUE}] \cup [by : {p2}, ix : {1}, val : {on}]

MCPasswords == {None, "pw"}

MCNetworks == {"substrate", "robonomics"}

MCChains == {"ipci", "robonomics", "dev"}

MCTargets == {None, "ipci", "robonomics", "dev"}

\* spec_version and transaction_version of the runtimes in this repository;
\* dev is a chain started from node_runtime itself.
MCVersion == [c \in MCChains |-> IF c = "ipci" THEN <<15, 2>> ELSE <<1, 1>>]

MCNodeVersion == <<1, 1>>

MCBase58 == {"5", "a", "b", "umlaut"}

MCPatterns ==
    {<<>>, <<"a">>, <<"b">>, <<"a", "b">>, <<"b", "b">>, <<"b", "a", "b">>, <<"a", "0">>,
     <<"a", "umlaut">>}

\* Addresses of five characters or four that start alike, as those of one
\* network do.
MCAddress ==
    [s \in Seeds |->
        LET c(x) == IF x = 0 THEN "a" ELSE "b"
        IN  IF s[1] = 2 /\ s[2] = 2 THEN <<"5", "a", "a", "b">>
            ELSE IF s[1] = 2 THEN <<"5", "b", c(s[2]), "b", "b">>
            ELSE IF s[2] = 2 THEN <<"5", "a", "a", c(s[1]), "b">>
            ELSE <<"5", c(s[1]), c(s[2]), "a", c(s[1])>>]

-----------------------------------------------------------------------------
(* One part at a time.                                                     *)

\* In "chain" two commands send up to two lines each to the chain with one key;
\* in "streams" one command feeds a device or waits for a blocking one; in
\* "path" a launch and a datalog command send two lines between them, at least one
\* of them a launch, and a third command listens for launches.
Case(cmds, lines) == \A p \in Procs : io[p].cmd \in cmds /\ Len(io[p].stdin) <= lines

WritersOf ==
    /\ part = "chain" => Case({"datalog"}, 2) /\ \A p \in Procs : io[p].ending = "eof"
    /\ part = "streams" => /\ io[p1].cmd \notin OnChain
                           /\ io[p2].cmd = "pubsub" /\ io[p2].stdin = <<>>
                           /\ io[p2].ending = "eof"
    /\ part = "path" => /\ io[p1].cmd = "launch" /\ io[p1].stdin # <<>>
                        /\ io[p2].cmd = "datalog"
                        /\ Len(io[p1].stdin) + Len(io[p2].stdin) = 2
                        /\ \A p \in Procs : io[p].ending = "eof"
    /\ part \notin {"chain", "streams", "path"} =>
           Case({"datalog"}, 0) /\ \A p \in Procs : io[p].ending = "eof"

\* A launch command is looked at in "path", the others in "read".
ReaderOf ==
    /\ part = "path" => kind = "launch"
    /\ part = "read" => kind # "launch"
    /\ part \notin {"read", "path"} => kind = CHOOSE k \in Kinds : TRUE

ToolsInit ==
    /\ part \in Parts
    /\ WInit /\ WritersOf
    /\ RInit /\ ReaderOf
    /\ SInit /\ (part \notin {"keys", "subkey"} => scheme = CHOOSE s \in Schemes : TRUE)
    /\ VanityInit /\ (part # "vanity" => desired = <<>>)

\* In "keys" a session on the default network has time to make two keys, to sign
\* with one and to verify with the other.
KeysOnly ==
    /\ \A o \in outs' : o.network = Default
    /\ \A s \in sigs' : s.message = "m1"
    /\ UNCHANGED <<xts, applied, keystore, files, peers>>

\* In "subkey" a session mixes all commands and is shorter.
Mixed == ran < MaxMixed \/ UNCHANGED ran

ToolsNext ==
    /\ UNCHANGED part
    /\ \/ part \in {"chain", "streams"} /\ WNext /\ UNCHANGED <<rvars, svars, yvars>>
       \/ part = "read" /\ RNext /\ UNCHANGED <<wvars, svars, yvars>>
       \/ part = "path" /\ LaunchNext /\ UNCHANGED <<svars, yvars>>
       \/ part = "keys" /\ SNext /\ KeysOnly /\ UNCHANGED <<wvars, rvars, yvars>>
       \/ part = "subkey" /\ Mixed /\ SNext /\ UNCHANGED <<wvars, rvars, yvars>>
       \/ part = "vanity" /\ VanityNext /\ UNCHANGED <<wvars, rvars, svars>>

Writing == part \in {"chain", "streams", "path"}

Reading == part \in {"read", "path"}

\* WFair and RFair, each where its part moves.
ToolsFair ==
    /\ \A p \in Procs :
        /\ WF_wvars(Writing /\ (ReadLine(p) \/ StopReading(p)))
        /\ WF_wvars(Writing /\ (\/ Publish(p) \/ Connect(p) \/ Submit(p) \/ SubmitFails(p)
                                \/ Transfer(p) \/ Flush(p) \/ Finish(p)))
    /\ WF_rvars(Reading /\ (ROpen \/ Forward \/ FlushShown \/ PanicEnds))
    /\ WF_rvars(Reading /\ Listen)

ToolsSpec == /\ ToolsInit
             /\ [][ToolsNext]_<<part, wvars, rvars, svars, yvars>>
             /\ ToolsFair

=============================================================================
