--------------------------- MODULE IoWriteProofs ---------------------------
(***************************************************************************)
(* The recorded transactions follow the input, another command shows the   *)
(* recorded launches, and a command that succeeds has answered all of its  *)
(* input, for any number of commands, lines and inputs.  The first         *)
(* invariant follows a line on its way from the channel over the call and  *)
(* the pool to the log, the second one from the log to the other command's *)
(* output, the third one on its way to the command's own output.           *)
(***************************************************************************)
EXTENDS LaunchPath, TLAPS

\* A leaf is for Zenon unless it names another prover.
USE ZenonT(60)

\* A line that was read, as it travels.
Items == [by : Procs, ix : Nat, val : Lines \cup BOOLEAN]

\* A signed transaction of the account, or a call that will become one.
Txs == [item : Items, nonce : Nat]

Command == [cmd : Cmds, st : {"new", "running", "ok", "err"}, stdin : Seq(Lines),
            ending : {"eof", "error"}, reader : {"off", "reading", "done"},
            chan : Seq(Items), call : Txs \cup {NoCall},
            out : Seq(Nat), printed : Seq(Nat), read : Nat]

WTypes ==
    /\ io \in [Procs -> Command]
    /\ pool \subseteq Txs
    /\ log \in Seq(Items)

\* A call in flight, in a process that still runs.
Calling(p) == Running(p) /\ io[p].call # NoCall

\* Nobody reads a nonce ahead of the chain, so all that can wait in the pool is
\* one transaction, the next one to be recorded.
OneWaits ==
    /\ \A t, u \in pool : t = u
    /\ \A t \in pool : t.nonce = Len(log)
    /\ \A p \in Procs : Calling(p) => io[p].call.nonce <= Len(log)

\* Lines of p numbered upwards, none of them above n.
Sorted(p, n, lines) ==
    /\ \A i \in DOMAIN lines : lines[i].by = p /\ lines[i].ix <= n
    /\ \A i, j \in DOMAIN lines : i < j => lines[i].ix < lines[j].ix

Before(ix, lines) == \A i \in DOMAIN lines : ix < lines[i].ix

\* The lines of a process are numbered as they are read, and pass from the
\* channel to the call, from there to the pool and to the log without overtaking.
ChanOrdered(p) == Sorted(p, io[p].read, io[p].chan)

CallOrdered(p) ==
    Calling(p) => /\ io[p].call.item.by = p /\ io[p].call.item.ix <= io[p].read
                  /\ Before(io[p].call.item.ix, io[p].chan)

\* What a process has sent: item is in the pool or in the log.
Behind(p, item) ==
    /\ item.ix <= io[p].read
    /\ Running(p) => Before(item.ix, io[p].chan)
    /\ Calling(p) => item.ix < io[p].call.item.ix

SentOrdered(p) ==
    /\ \A t \in pool : t.item.by = p => Behind(p, t.item)
    /\ \A k \in DOMAIN log : log[k].by = p => Behind(p, log[k])
    /\ \A t \in pool : \A k \in DOMAIN log :
           t.item.by = p /\ log[k].by = p => log[k].ix < t.item.ix

\* Nothing was read before the set-up.
Fresh(p) == io[p].st = "new" => io[p].chan = <<>> /\ io[p].call = NoCall

\* The inductive invariant.
WInv ==
    /\ WTypes
    /\ OneWaits
    /\ \A p \in Procs : Fresh(p) /\ ChanOrdered(p) /\ CallOrdered(p) /\ SentOrdered(p)
    /\ RecordsFollowInput

-----------------------------------------------------------------------------
\* Lines of input are a sequence.
LEMMA InputsAreSequences == Inputs \subseteq Seq(Lines)
BY SMTT(60) DEF Inputs

\* What a step of p leaves alone: the records of the other processes.
Others(p) == \A q \in Procs : q # p => io'[q] = io[q]

\* The fields of p that say how its lines travel.
Same(p) == /\ io'[p].chan = io[p].chan /\ io'[p].call = io[p].call
           /\ io'[p].read = io[p].read

\* Numbers of lines and nonces are natural numbers.
LEMMA ItemTypes ==
    /\ \A x \in Items : x.ix \in Nat /\ x.by \in Procs
    /\ \A t \in Txs : t.item \in Items /\ t.nonce \in Nat
BY DEF Items, Txs

\* Facts about sequences, stated so that no type of their elements is needed.
LEMMA SeqFacts ==
    ASSUME NEW S, NEW s \in Seq(S)
    PROVE  /\ Len(s) \in Nat /\ DOMAIN s = 1 .. Len(s)
           /\ \A i \in DOMAIN s : s[i] \in S
           /\ s # <<>> => /\ Head(s) \in S /\ Head(s) = s[1] /\ 1 \in DOMAIN s
                          /\ Tail(s) \in Seq(S) /\ DOMAIN Tail(s) = 1 .. (Len(s) - 1)
                          /\ \A i \in DOMAIN Tail(s) : i + 1 \in DOMAIN s /\ Tail(s)[i] = s[i + 1]
           /\ \A e \in S : /\ Append(s, e) \in Seq(S) /\ Len(Append(s, e)) = Len(s) + 1
                           /\ DOMAIN Append(s, e) = 1 .. (Len(s) + 1)
                           /\ \A i \in DOMAIN s : Append(s, e)[i] = s[i]
                           /\ Append(s, e)[Len(s) + 1] = e
BY SMTT(60)

\* Reading adds the highest number at the end ...
LEMMA SortedAppend ==
    ASSUME NEW p, NEW n \in Nat, NEW s \in Seq(Items), Sorted(p, n, s),
           NEW e \in Items, e.by = p, e.ix = n + 1
    PROVE  /\ Sorted(p, n + 1, Append(s, e))
           /\ \A x \in Nat : x <= n /\ Before(x, s) => Before(x, Append(s, e))
<1> DEFINE t == Append(s, e)
<1>1. /\ Len(s) \in Nat /\ DOMAIN s = 1 .. Len(s) /\ DOMAIN t = 1 .. (Len(s) + 1)
      /\ \A i \in DOMAIN s : t[i] = s[i]
      /\ t[Len(s) + 1] = e
  BY SMTT(60), SeqFacts
<1>2. \A i \in DOMAIN s : s[i].ix \in Nat
  BY SeqFacts, ItemTypes
<1> HIDE DEF t
<1>3. \A i \in DOMAIN t : i \in DOMAIN s \/ i = Len(s) + 1
  BY SMTT(60), <1>1
<1>4. \A i \in DOMAIN t : t[i].by = p /\ t[i].ix <= n + 1
  BY SMTT(60), <1>1, <1>2, <1>3 DEF Sorted
<1>5. ASSUME NEW i \in DOMAIN t, NEW j \in DOMAIN t, i < j PROVE t[i].ix < t[j].ix
  <2>1. i \in DOMAIN s
    BY SMTT(60), <1>1, <1>5
  <2>2. CASE j \in DOMAIN s
    BY <1>1, <1>5, <2>1, <2>2 DEF Sorted
  <2>3. CASE j = Len(s) + 1
    <3>1. s[i].ix <= n /\ s[i].ix \in Nat
      BY <1>2, <2>1 DEF Sorted
    <3> QED
      BY SMTT(60), <1>1, <2>1, <2>3, <3>1
  <2> QED
    BY <1>3, <2>2, <2>3
<1>6. ASSUME NEW x \in Nat, x <= n, Before(x, s) PROVE Before(x, t)
  BY SMTT(60), <1>1, <1>3, <1>6 DEF Before
<1> QED
  BY <1>4, <1>5, <1>6 DEF Sorted, t

\* ... and taking a line takes the lowest.
LEMMA SortedTail ==
    ASSUME NEW p, NEW n \in Nat, NEW s \in Seq(Items), Sorted(p, n, s), s # <<>>
    PROVE  /\ Sorted(p, n, Tail(s))
           /\ Head(s) \in Items /\ Head(s).by = p /\ Head(s).ix <= n
           /\ Before(Head(s).ix, Tail(s))
           /\ \A x \in Nat : Before(x, s) => x < Head(s).ix /\ Before(x, Tail(s))
<1> DEFINE t == Tail(s)
<1>1. /\ Len(s) \in Nat /\ DOMAIN s = 1 .. Len(s) /\ DOMAIN t = 1 .. (Len(s) - 1)
      /\ \A i \in DOMAIN t : i + 1 \in DOMAIN s /\ t[i] = s[i + 1]
      /\ Head(s) = s[1] /\ 1 \in DOMAIN s /\ Head(s) \in Items
  BY SeqFacts
<1> HIDE DEF t
<1>2. \A i \in DOMAIN t : i \in Nat /\ i > 0
  BY SMTT(60), <1>1
<1>3. \A i \in DOMAIN t : t[i].by = p /\ t[i].ix <= n
  BY <1>1 DEF Sorted
<1>4. \A i, j \in DOMAIN t : i < j => t[i].ix < t[j].ix
  BY SMTT(60), <1>1, <1>2 DEF Sorted
<1>5. Before(s[1].ix, t)
  BY SMTT(60), <1>1, <1>2 DEF Sorted, Before
<1>6. \A x \in Nat : Before(x, s) => x < s[1].ix /\ Before(x, t)
  BY <1>1 DEF Before
<1> QED
  BY <1>1, <1>3, <1>4, <1>5, <1>6 DEF Sorted, t

\* The type of what one process holds.
LEMMA CommandTypes ==
    ASSUME WTypes, NEW p \in Procs
    PROVE  /\ io[p].chan \in Seq(Items) /\ io[p].read \in Nat
           /\ \A i \in DOMAIN io[p].chan : io[p].chan[i].ix \in Nat
           /\ Calling(p) => io[p].call \in Txs /\ io[p].call.item.ix \in Nat
<1>1. io[p].chan \in Seq(Items) /\ io[p].read \in Nat /\ io[p].call \in Txs \cup {NoCall}
  BY DEF WTypes, Command
<1>2. \A i \in DOMAIN io[p].chan : io[p].chan[i].ix \in Nat
  BY <1>1, ItemTypes, SeqFacts
<1>3. Calling(p) => io[p].call \in Txs /\ io[p].call.item.ix \in Nat
  BY <1>1, ItemTypes DEF Calling
<1> QED
  BY <1>1, <1>2, <1>3

\* The type of what was sent.
LEMMA SentTypes ==
    ASSUME WTypes
    PROVE  /\ Len(log) \in Nat /\ DOMAIN log = 1 .. Len(log)
           /\ \A t \in pool : t.item \in Items /\ t.item.ix \in Nat /\ t.nonce \in Nat
           /\ \A k \in DOMAIN log : log[k] \in Items /\ log[k].ix \in Nat
BY ItemTypes, SeqFacts DEF WTypes

\* A step of p that leaves pool and log alone preserves the invariant when it
\* keeps the channel and the call of p in order, behind what p has sent.
LEMMA LinesMove ==
    ASSUME WInv, WTypes', NEW p \in Procs, Others(p), UNCHANGED <<pool, log>>,
           (Fresh(p) /\ ChanOrdered(p) /\ CallOrdered(p))',
           Calling(p)' => io'[p].call.nonce <= Len(log),
           \A item \in Items : Behind(p, item) => Behind(p, item)'
    PROVE  WInv'
<1>0. ASSUME NEW q \in Procs, q # p
      PROVE  /\ io'[q] = io[q] /\ (Calling(q)' <=> Calling(q)) /\ (Running(q)' <=> Running(q))
  BY <1>0 DEF Others, Calling, Running
<1>1. OneWaits'
  BY <1>0 DEF WInv, OneWaits
<1>2. ASSUME NEW q \in Procs PROVE (Fresh(q) /\ ChanOrdered(q) /\ CallOrdered(q))'
  BY <1>0 DEF WInv, Fresh, ChanOrdered, CallOrdered
<1>3. ASSUME NEW q \in Procs PROVE SentOrdered(q)'
  <2>1. ASSUME NEW item \in Items, Behind(q, item) PROVE Behind(q, item)'
    BY <1>0, <2>1 DEF Behind
  <2>2. (\A t \in pool : t.item \in Items) /\ (\A k \in DOMAIN log : log[k] \in Items)
    BY SentTypes DEF WInv
  <2> QED
    BY <2>1, <2>2 DEF WInv, SentOrdered
<1>4. RecordsFollowInput'
  BY DEF WInv, RecordsFollowInput
<1> QED
  BY <1>1, <1>2, <1>3, <1>4 DEF WInv

\* Starting, stopping and ending (Setup, StopReading, Flush, Finish, and every
\* failure) move no line.
LEMMA NothingMoves ==
    ASSUME WInv, WTypes', NEW p \in Procs, Others(p), Same(p), UNCHANGED <<pool, log>>,
           io'[p].st # "new",
           io'[p].st = "running" => io[p].st \in {"new", "running"}
    PROVE  WInv'
<1>1. /\ Fresh(p)' /\ (Calling(p)' => Calling(p))
      /\ (Running(p)' => Running(p) \/ io[p].chan = <<>>)
  BY DEF WInv, Fresh, Same, Running, Calling
<1>2. ChanOrdered(p)' /\ CallOrdered(p)'
  BY <1>1 DEF WInv, Same, ChanOrdered, CallOrdered
<1>3. Calling(p)' => io'[p].call.nonce <= Len(log)
  BY <1>1 DEF WInv, OneWaits, Same
<1>4. \A item \in Items : Behind(p, item) => Behind(p, item)'
  BY SMTT(60), <1>1 DEF Same, Behind, Before
<1> QED
  BY <1>1, <1>2, <1>3, <1>4, LinesMove

\* ReadLine: a line enters the channel with the next number.
LEMMA LineIsRead ==
    ASSUME WInv, WTypes', NEW p \in Procs, Others(p), UNCHANGED <<pool, log>>,
           Running(p), io'[p].st = io[p].st, io'[p].call = io[p].call,
           NEW new \in Items, new.by = p, new.ix = io[p].read + 1,
           io'[p].read = io[p].read + 1, io'[p].chan = Append(io[p].chan, new)
    PROVE  WInv'
<1>1. /\ io[p].chan \in Seq(Items) /\ io[p].read \in Nat
      /\ Calling(p) => io[p].call.item.ix \in Nat
  BY CommandTypes DEF WInv
<1>2. Running(p)' /\ Fresh(p)' /\ (Calling(p)' <=> Calling(p))
  BY DEF Fresh, Running, Calling
<1>3. Sorted(p, io[p].read, io[p].chan)
  BY DEF WInv, ChanOrdered
<1>4. /\ ChanOrdered(p)'
      /\ \A x \in Nat : x <= io[p].read /\ Before(x, io[p].chan) => Before(x, io'[p].chan)
  BY <1>1, <1>3, SortedAppend DEF ChanOrdered
<1>5. \A x \in Nat : x <= io[p].read => x <= io'[p].read
  BY SMTT(60), <1>1
<1>6. CallOrdered(p)'
  BY <1>1, <1>2, <1>4, <1>5 DEF WInv, CallOrdered
<1>7. Calling(p)' => io'[p].call.nonce <= Len(log)
  BY <1>2 DEF WInv, OneWaits
<1>8. \A item \in Items : Behind(p, item) => Behind(p, item)'
  BY <1>2, <1>4, <1>5, ItemTypes DEF Behind
<1> QED
  BY <1>2, <1>4, <1>6, <1>7, <1>8, LinesMove

\* Publish, Transfer and Connect: the oldest line leaves the channel, and Connect
\* makes it the line of the call, with the nonce of the moment.
LEMMA LineLeaves ==
    ASSUME WInv, WTypes', NEW p \in Procs, Others(p), UNCHANGED <<pool, log>>,
           Running(p), io'[p].st = io[p].st, io'[p].read = io[p].read,
           io[p].chan # <<>>, io'[p].chan = Tail(io[p].chan),
           \/ io'[p].call = io[p].call
           \/ io'[p].call = [item |-> Head(io[p].chan), nonce |-> Len(log)]
    PROVE  WInv'
<1>1. /\ io[p].chan \in Seq(Items) /\ io[p].read \in Nat
      /\ Calling(p) => io[p].call.item.ix \in Nat
  BY CommandTypes DEF WInv
<1>2. Running(p)' /\ Fresh(p)'
  BY DEF Fresh, Running
<1>3. Sorted(p, io[p].read, io[p].chan)
  BY DEF WInv, ChanOrdered
<1>4. /\ ChanOrdered(p)'
      /\ Head(io[p].chan).by = p /\ Head(io[p].chan).ix <= io[p].read
      /\ Before(Head(io[p].chan).ix, io'[p].chan)
      /\ \A x \in Nat : Before(x, io[p].chan) => x < Head(io[p].chan).ix /\ Before(x, io'[p].chan)
  <2>1. /\ Sorted(p, io[p].read, Tail(io[p].chan))
        /\ Head(io[p].chan).by = p /\ Head(io[p].chan).ix <= io[p].read
        /\ Before(Head(io[p].chan).ix, Tail(io[p].chan))
        /\ \A x \in Nat : Before(x, io[p].chan) =>
                              x < Head(io[p].chan).ix /\ Before(x, Tail(io[p].chan))
    BY <1>1, <1>3, SortedTail
  <2> QED
    BY <2>1 DEF ChanOrdered
<1>5. \/ (Calling(p)' <=> Calling(p)) /\ io'[p].call = io[p].call
      \/ io'[p].call.item = Head(io[p].chan) /\ io'[p].call.nonce = Len(log)
  BY SMTT(60), <1>2 DEF Calling
<1>6. CallOrdered(p)'
  BY <1>1, <1>2, <1>4, <1>5 DEF WInv, CallOrdered
<1>7. Calling(p)' => io'[p].call.nonce <= Len(log)
  BY SMTT(60), <1>5, SentTypes DEF WInv, OneWaits
<1>8. \A item \in Items : Behind(p, item) => Behind(p, item)'
  BY <1>2, <1>4, <1>5, ItemTypes DEF Behind
<1> QED
  BY <1>2, <1>4, <1>6, <1>7, <1>8, LinesMove

\* Submit and SubmitFails: the nonce is still that of the chain, or the pool would
\* refuse the call, so the transaction replaces whatever waits in the pool.
LEMMA LineIsSent ==
    ASSUME WInv, WTypes', NEW p \in Procs, Others(p), UNCHANGED log, Calling(p),
           Pooled([item |-> io[p].call.item, nonce |-> io[p].call.nonce]),
           io'[p].chan = io[p].chan, io'[p].read = io[p].read,
           io'[p].st # "new", ~Calling(p)'
    PROVE  WInv'
<1> PICK tx : tx = [item |-> io[p].call.item, nonce |-> io[p].call.nonce]
  OBVIOUS
<1>0. /\ tx.item = io[p].call.item /\ tx.nonce = io[p].call.nonce
      /\ tx.nonce \in Nat /\ Len(log) \in Nat
  BY CommandTypes, SentTypes, ItemTypes DEF WInv
<1>1. tx.nonce = Len(log)
  BY SMTT(60), <1>0 DEF WInv, OneWaits, Pooled
<1>2. pool' = {tx}
  BY <1>0, <1>1 DEF WInv, OneWaits, Pooled
<1>3. ASSUME NEW q \in Procs, q # p
      PROVE  /\ io'[q] = io[q] /\ (Calling(q)' <=> Calling(q)) /\ (Running(q)' <=> Running(q))
  BY <1>3 DEF Others, Calling, Running
<1>4. OneWaits'
  BY <1>1, <1>2, <1>3 DEF WInv, OneWaits
<1>5. ASSUME NEW q \in Procs PROVE (Fresh(q) /\ ChanOrdered(q) /\ CallOrdered(q))'
  BY SMTT(60), <1>3 DEF WInv, Fresh, ChanOrdered, CallOrdered
<1>6. /\ tx.item.by = p /\ Behind(p, tx.item)'
      /\ \A k \in DOMAIN log : log[k].by = p => Behind(p, log[k])' /\ log[k].ix < tx.item.ix
  <2>1. /\ tx.item.by = p /\ tx.item.ix <= io[p].read /\ Before(tx.item.ix, io[p].chan)
    BY <1>0 DEF WInv, CallOrdered
  <2>2. Behind(p, tx.item)'
    BY <2>1 DEF Behind
  <2>3. ASSUME NEW k \in DOMAIN log, log[k].by = p
        PROVE  Behind(p, log[k])' /\ log[k].ix < tx.item.ix
    <3>1. Behind(p, log[k])
      BY <2>3 DEF WInv, SentOrdered
    <3> QED
      BY <3>1, <1>0 DEF Behind, Calling
  <2> QED
    BY <2>1, <2>2, <2>3
<1>7. ASSUME NEW q \in Procs PROVE SentOrdered(q)'
  <2>1. CASE q = p
    BY <1>2, <1>6, <2>1 DEF SentOrdered
  <2>2. CASE q # p
    <3>1. \A k \in DOMAIN log : log[k].by = q => Behind(q, log[k])'
      BY <1>3, <2>2 DEF WInv, SentOrdered, Behind
    <3> QED
      BY <1>2, <1>6, <2>2, <3>1 DEF SentOrdered
  <2> QED
    BY <2>1, <2>2
<1>8. RecordsFollowInput'
  BY DEF WInv, RecordsFollowInput
<1> QED
  BY <1>4, <1>5, <1>7, <1>8 DEF WInv

\* MakeBlock: the only waiting transaction is recorded behind all of its process.
LEMMA LineIsRecorded ==
    ASSUME WInv, WTypes', MakeBlock
    PROVE  WInv'
<1>0. PICK tx \in pool : /\ tx.nonce = Len(log) /\ log' = Append(log, tx.item)
                         /\ pool' = pool \ {tx} /\ UNCHANGED io
  BY DEF MakeBlock
<1>1. pool' = {}
  BY <1>0 DEF WInv, OneWaits
<1>2. /\ Len(log) \in Nat /\ DOMAIN log = 1 .. Len(log) /\ Len(log') = Len(log) + 1
      /\ DOMAIN log' = 1 .. (Len(log) + 1) /\ tx.item.by \in Procs
      /\ \A k \in DOMAIN log : log'[k] = log[k]
      /\ log'[Len(log) + 1] = tx.item
  <2>1. tx.item \in Items /\ log \in Seq(Items) /\ tx.item.by \in Procs
    BY ItemTypes DEF WInv, WTypes
  <2> QED
    BY SMTT(60), <1>0, <2>1, SeqFacts
<1>3. \A k \in DOMAIN log' : k \in DOMAIN log \/ k = Len(log) + 1
  BY SMTT(60), <1>2
<1>4. ASSUME NEW q \in Procs
      PROVE  /\ io'[q] = io[q] /\ (Calling(q)' <=> Calling(q)) /\ (Running(q)' <=> Running(q))
             /\ (Calling(q) => io[q].call.nonce \in Nat)
  BY <1>0, CommandTypes, ItemTypes DEF Calling, Running, WInv
<1>5. OneWaits'
  BY SMTT(60), <1>1, <1>2, <1>4 DEF WInv, OneWaits
<1>6. ASSUME NEW q \in Procs PROVE (Fresh(q) /\ ChanOrdered(q) /\ CallOrdered(q))'
  BY <1>4 DEF WInv, Fresh, ChanOrdered, CallOrdered
<1>7. ASSUME NEW q \in Procs PROVE SentOrdered(q)'
  <2>1. ASSUME NEW item, Behind(q, item) PROVE Behind(q, item)'
    BY <1>4, <2>1 DEF Behind
  <2>2. ASSUME NEW k \in DOMAIN log', log'[k].by = q PROVE Behind(q, log'[k])
    BY <1>2, <1>3, <2>2 DEF WInv, SentOrdered
  <2>3. ASSUME NEW k \in DOMAIN log', log'[k].by = q PROVE Behind(q, log[k])'
    BY <1>4, <2>2, <2>3 DEF Behind
  <2> QED
    BY <1>1, <2>3 DEF SentOrdered
<1>8. RecordsFollowInput'
  <2>1. ASSUME NEW i \in DOMAIN log', NEW j \in DOMAIN log', i < j, log'[i].by = log'[j].by
        PROVE  log'[i].ix < log'[j].ix
    <3>1. i \in DOMAIN log
      BY SMTT(60), <1>2, <2>1
    <3>2. CASE j \in DOMAIN log
      BY <1>2, <2>1, <3>1, <3>2 DEF WInv, RecordsFollowInput
    <3>3. CASE j = Len(log) + 1
      BY <1>2, <2>1, <3>1, <3>3 DEF WInv, SentOrdered
    <3> QED
      BY <1>3, <3>2, <3>3
  <2> QED
    BY <2>1 DEF RecordsFollowInput
<1> QED
  BY <1>5, <1>6, <1>7, <1>8 DEF WInv

-----------------------------------------------------------------------------
\* The fields of one command have their types.
LEMMA Fields ==
    ASSUME WTypes, NEW p \in Procs
    PROVE  /\ io[p] \in Command /\ io[p].stdin \in Seq(Lines) /\ io[p].chan \in Seq(Items)
           /\ io[p].call \in Txs \cup {NoCall} /\ io[p].out \in Seq(Nat)
           /\ io[p].printed \in Seq(Nat) /\ io[p].read \in Nat
           /\ io[p].st \in {"new", "running", "ok", "err"}
BY DEF WTypes, Command

\* A step of p replaces the record of p.
LEMMA Replaced ==
    ASSUME WTypes, NEW p \in Procs, NEW r \in Command, io' = [io EXCEPT ![p] = r]
    PROVE  io' \in [Procs -> Command] /\ io'[p] = r /\ Others(p)
BY DEF WTypes, Others

\* What a step of p leaves in the record of p: the parts that say how its lines
\* travel and how they are answered.
Becomes(p, chan, call, read, out, printed, st) ==
    /\ io' \in [Procs -> Command] /\ Others(p) /\ io'[p].cmd = io[p].cmd
    /\ io'[p].chan = chan /\ io'[p].call = call /\ io'[p].read = read
    /\ io'[p].out = out /\ io'[p].printed = printed /\ io'[p].st = st

\* The end of a command changes its state and nothing else.
LEMMA ExitDoes ==
    ASSUME WTypes, NEW p \in Procs, NEW result \in {"ok", "err"}, Exit(p, result)
    PROVE  Becomes(p, io[p].chan, io[p].call, io[p].read, io[p].out, io[p].printed, result)
<1>0. PICK r : r = [io[p] EXCEPT !.st = result]
  OBVIOUS
<1>1. r \in Command
  BY <1>0, Fields DEF Command
<1>2. /\ r.cmd = io[p].cmd /\ r.chan = io[p].chan /\ r.call = io[p].call /\ r.read = io[p].read
      /\ r.out = io[p].out /\ r.printed = io[p].printed /\ r.st = result
  BY <1>0, Fields DEF Command
<1>3. io' = [io EXCEPT ![p] = r]
  BY <1>0 DEF Exit
<1> QED
  BY <1>1, <1>2, <1>3, Replaced DEF Becomes

\* Setting up starts the command and its reader.
LEMMA SetupDoes ==
    ASSUME WTypes, NEW p \in Procs,
           io' = [io EXCEPT ![p].st = "running", ![p].reader = "reading"]
    PROVE  Becomes(p, io[p].chan, io[p].call, io[p].read, io[p].out, io[p].printed, "running")
<1>0. PICK r : r = [io[p] EXCEPT !.st = "running", !.reader = "reading"]
  OBVIOUS
<1>1. r \in Command
  BY <1>0, Fields DEF Command
<1>2. /\ r.cmd = io[p].cmd /\ r.chan = io[p].chan /\ r.call = io[p].call /\ r.read = io[p].read
      /\ r.out = io[p].out /\ r.printed = io[p].printed /\ r.st = "running"
  BY <1>0, Fields DEF Command
<1>3. io' = [io EXCEPT ![p] = r]
  BY <1>0
<1> QED
  BY <1>1, <1>2, <1>3, Replaced DEF Becomes

\* The update of ReadLine yields a command record again.
LEMMA ReadUpdate ==
    ASSUME NEW c \in Command, NEW n \in Nat, NEW lines \in Seq(Lines), NEW items \in Seq(Items)
    PROVE  [c EXCEPT !.read = n, !.stdin = lines, !.chan = items] \in Command
BY DEF Command

\* The updates of the steps that take a line or answer one.
LEMMA TakeUpdate ==
    ASSUME NEW c \in Command, NEW items \in Seq(Items), NEW call \in Txs \cup {NoCall},
           NEW out \in Seq(Nat)
    PROVE  /\ [c EXCEPT !.chan = items] \in Command
           /\ [c EXCEPT !.chan = items, !.call = call] \in Command
           /\ [c EXCEPT !.chan = items, !.out = out] \in Command
           /\ [c EXCEPT !.call = call, !.out = out] \in Command
BY DEF Command

\* The updates of the steps that print.
LEMMA FlushUpdate ==
    ASSUME NEW c \in Command, NEW out \in Seq(Nat), NEW rest \in Seq(Nat), NEW st \in {"ok", "err"}
    PROVE  /\ [c EXCEPT !.printed = out, !.out = rest] \in Command
           /\ [c EXCEPT !.printed = out, !.out = rest, !.st = st] \in Command
BY DEF Command

\* stdin(): the line that was read gets the next number and goes to the end.
LEMMA ReadLineDoes ==
    ASSUME WTypes, NEW p \in Procs, ReadLine(p)
    PROVE  \E new \in Items :
               /\ new.by = p /\ new.ix = io[p].read + 1
               /\ Becomes(p, Append(io[p].chan, new), io[p].call, io[p].read + 1,
                          io[p].out, io[p].printed, io[p].st)
<1>0. PICK new : new = [by |-> p, ix |-> io[p].read + 1, val |-> Item(p, Head(io[p].stdin))]
  OBVIOUS
<1>1. /\ new \in Items /\ new.by = p /\ new.ix = io[p].read + 1 /\ io[p].read + 1 \in Nat
      /\ Tail(io[p].stdin) \in Seq(Lines) /\ Append(io[p].chan, new) \in Seq(Items)
  <2>1. io[p].stdin # <<>> /\ io[p].stdin \in Seq(Lines) /\ io[p].read + 1 \in Nat
    BY SMTT(60), Fields DEF ReadLine
  <2>2. Head(io[p].stdin) \in Lines /\ Tail(io[p].stdin) \in Seq(Lines)
    BY <2>1, SeqFacts
  <2>3. new \in Items /\ new.by = p /\ new.ix = io[p].read + 1
    BY <1>0, <2>1, <2>2 DEF Item, Items
  <2> QED
    BY <2>1, <2>2, <2>3, Fields, SeqFacts
<1>2. PICK r : r = [io[p] EXCEPT !.read = io[p].read + 1, !.stdin = Tail(io[p].stdin),
                                 !.chan = Append(io[p].chan, new)]
  OBVIOUS
<1>3. r \in Command
  BY <1>1, <1>2, Fields, ReadUpdate
<1>4. /\ r.cmd = io[p].cmd /\ r.chan = Append(io[p].chan, new) /\ r.call = io[p].call
      /\ r.read = io[p].read + 1 /\ r.out = io[p].out /\ r.printed = io[p].printed
      /\ r.st = io[p].st
  BY <1>2, Fields DEF Command
<1>5. io' = [io EXCEPT ![p] = r]
  BY <1>0, <1>2 DEF ReadLine
<1> QED
  BY <1>1, <1>3, <1>4, <1>5, Replaced DEF Becomes

\* The end of the input closes the channel or ends the command.
LEMMA StopReadingDoes ==
    ASSUME WTypes, NEW p \in Procs, StopReading(p)
    PROVE  \E st \in {"running", "ok", "err"} :
               /\ io[p].cmd \notin Feeding => st = io[p].st
               /\ Becomes(p, io[p].chan, io[p].call, io[p].read, io[p].out, io[p].printed, st)
<1>0. PICK st : st = IF io[p].cmd \notin Feeding THEN io[p].st
                     ELSE IF io[p].ending = "eof" THEN "ok" ELSE "err"
  OBVIOUS
<1>1. st \in {"running", "ok", "err"} /\ (io[p].cmd \notin Feeding => st = io[p].st)
  BY <1>0 DEF StopReading, Running
<1>2. PICK r : r = [io[p] EXCEPT !.reader = "done", !.st = st]
  OBVIOUS
<1>3. r \in Command
  BY <1>1, <1>2, Fields DEF Command
<1>4. /\ r.cmd = io[p].cmd /\ r.chan = io[p].chan /\ r.call = io[p].call /\ r.read = io[p].read
      /\ r.out = io[p].out /\ r.printed = io[p].printed /\ r.st = st
  BY <1>2, Fields DEF Command
<1>5. io' = [io EXCEPT ![p] = r]
  BY <1>0, <1>2 DEF StopReading
<1> QED
  BY <1>1, <1>3, <1>4, <1>5, Replaced DEF Becomes

\* Handing a line to the swarm or to the ROS topic takes it from the channel.
LEMMA PublishDoes ==
    ASSUME WTypes, NEW p \in Procs, Publish(p)
    PROVE  Becomes(p, Tail(io[p].chan), io[p].call, io[p].read, io[p].out, io[p].printed,
                   io[p].st)
<1>1. Tail(io[p].chan) \in Seq(Items)
  BY Fields, SeqFacts DEF Publish
<1>2. PICK r : r = [io[p] EXCEPT !.chan = Tail(io[p].chan)]
  OBVIOUS
<1>3. r \in Command
  BY <1>1, <1>2, Fields, TakeUpdate
<1>4. /\ r.cmd = io[p].cmd /\ r.chan = Tail(io[p].chan) /\ r.call = io[p].call
      /\ r.read = io[p].read /\ r.out = io[p].out /\ r.printed = io[p].printed
      /\ r.st = io[p].st
  BY <1>2, Fields DEF Command
<1>5. io' = [io EXCEPT ![p] = r]
  BY <1>2 DEF Publish
<1> QED
  BY <1>3, <1>4, <1>5, Replaced DEF Becomes

\* Connecting takes a line from the channel and the nonce from the chain.
LEMMA ConnectDoes ==
    ASSUME WTypes, NEW p \in Procs, Connect(p)
    PROVE  \E call \in Txs :
               /\ call = [item |-> Head(io[p].chan), nonce |-> Len(log)]
               /\ call.item = Head(io[p].chan)
               /\ Becomes(p, Tail(io[p].chan), call, io[p].read, io[p].out, io[p].printed,
                          io[p].st)
<1>0. PICK call : call = [item |-> Head(io[p].chan), nonce |-> Len(log)]
  OBVIOUS
<1>1. /\ Tail(io[p].chan) \in Seq(Items) /\ call \in Txs /\ call.item = Head(io[p].chan)
  <2>1. Tail(io[p].chan) \in Seq(Items) /\ Head(io[p].chan) \in Items
    BY Fields, SeqFacts DEF Connect
  <2>2. Len(log) \in Nat
    BY SentTypes
  <2> QED
    BY <1>0, <2>1, <2>2 DEF Txs
<1>2. PICK r : r = [io[p] EXCEPT !.chan = Tail(io[p].chan), !.call = call]
  OBVIOUS
<1>3. r \in Command
  BY <1>1, <1>2, Fields, TakeUpdate
<1>4. /\ r.cmd = io[p].cmd /\ r.chan = Tail(io[p].chan) /\ r.call = call
      /\ r.read = io[p].read /\ r.out = io[p].out /\ r.printed = io[p].printed
      /\ r.st = io[p].st
  BY <1>2, Fields DEF Command
<1>5. io' = [io EXCEPT ![p] = r]
  BY <1>0, <1>2 DEF Connect
<1> QED
  BY <1>0, <1>1, <1>3, <1>4, <1>5, Replaced DEF Becomes

\* An IPFS transfer takes a line from the channel and buffers its answer.
LEMMA TransferDoes ==
    ASSUME WTypes, NEW p \in Procs, io[p].chan # <<>>,
           io' = [io EXCEPT ![p].chan = Tail(@), ![p].out = Append(@, Head(io[p].chan).ix)]
    PROVE  Becomes(p, Tail(io[p].chan), io[p].call, io[p].read,
                   Append(io[p].out, Head(io[p].chan).ix), io[p].printed, io[p].st)
<1>0. PICK out : out = Append(io[p].out, Head(io[p].chan).ix)
  OBVIOUS
<1>1. Tail(io[p].chan) \in Seq(Items) /\ out \in Seq(Nat)
  <2>1. Tail(io[p].chan) \in Seq(Items) /\ Head(io[p].chan) \in Items
    BY Fields, SeqFacts
  <2> QED
    BY <1>0, <2>1, Fields, ItemTypes, SeqFacts
<1>2. PICK r : r = [io[p] EXCEPT !.chan = Tail(io[p].chan), !.out = out]
  OBVIOUS
<1>3. r \in Command
  BY <1>1, <1>2, Fields, TakeUpdate
<1>4. /\ r.cmd = io[p].cmd /\ r.chan = Tail(io[p].chan) /\ r.call = io[p].call
      /\ r.read = io[p].read /\ r.out = out /\ r.printed = io[p].printed /\ r.st = io[p].st
  BY <1>2, Fields DEF Command
<1>5. io' = [io EXCEPT ![p] = r]
  BY <1>0, <1>2
<1> QED
  BY <1>0, <1>3, <1>4, <1>5, Replaced DEF Becomes

\* A submission that is answered ends the call and buffers the answer.
LEMMA SubmitDoes ==
    ASSUME WTypes, NEW p \in Procs, Submit(p)
    PROVE  Becomes(p, io[p].chan, NoCall, io[p].read,
                   Append(io[p].out, io[p].call.item.ix), io[p].printed, io[p].st)
<1>0. PICK out : out = Append(io[p].out, io[p].call.item.ix)
  OBVIOUS
<1>1. out \in Seq(Nat)
  <2>1. io[p].call.item.ix \in Nat
    BY CommandTypes DEF Submit, Calling
  <2> QED
    BY <1>0, <2>1, Fields, SeqFacts
<1>2. PICK r : r = [io[p] EXCEPT !.call = NoCall, !.out = out]
  OBVIOUS
<1>3. r \in Command
  BY <1>1, <1>2, Fields, TakeUpdate
<1>4. /\ r.cmd = io[p].cmd /\ r.chan = io[p].chan /\ r.call = NoCall
      /\ r.read = io[p].read /\ r.out = out /\ r.printed = io[p].printed /\ r.st = io[p].st
  BY <1>2, Fields DEF Command
<1>5. io' = [io EXCEPT ![p] = r]
  BY <1>0, <1>2 DEF Submit, Answered
<1> QED
  BY <1>0, <1>3, <1>4, <1>5, Replaced DEF Becomes

\* Flushing moves the buffered answers to the output.
LEMMA FlushDoes ==
    ASSUME WTypes, NEW p \in Procs,
           io' = [io EXCEPT ![p].printed = @ \o io[p].out, ![p].out = <<>>]
    PROVE  Becomes(p, io[p].chan, io[p].call, io[p].read, <<>>, io[p].printed \o io[p].out,
                   io[p].st)
<1>0. PICK all : all = io[p].printed \o io[p].out
  OBVIOUS
<1>1. all \in Seq(Nat) /\ <<>> \in Seq(Nat)
  BY SMTT(60), <1>0, Fields
<1>2. PICK r : r = [io[p] EXCEPT !.printed = all, !.out = <<>>]
  OBVIOUS
<1>3. r \in Command
  BY <1>1, <1>2, Fields, FlushUpdate
<1>4. /\ r.cmd = io[p].cmd /\ r.chan = io[p].chan /\ r.call = io[p].call
      /\ r.read = io[p].read /\ r.out = <<>> /\ r.printed = all /\ r.st = io[p].st
  BY <1>2, Fields DEF Command
<1>5. io' = [io EXCEPT ![p] = r]
  BY <1>0, <1>2
<1> QED
  BY <1>0, <1>3, <1>4, <1>5, Replaced DEF Becomes

\* So does closing the output, which ends the command.
LEMMA FinishDoes ==
    ASSUME WTypes, NEW p \in Procs,
           io' = [io EXCEPT ![p].printed = @ \o io[p].out, ![p].out = <<>>, ![p].st = "ok"]
    PROVE  Becomes(p, io[p].chan, io[p].call, io[p].read, <<>>, io[p].printed \o io[p].out, "ok")
<1>0. PICK all : all = io[p].printed \o io[p].out
  OBVIOUS
<1>1. all \in Seq(Nat) /\ <<>> \in Seq(Nat)
  BY SMTT(60), <1>0, Fields
<1>2. PICK r : r = [io[p] EXCEPT !.printed = all, !.out = <<>>, !.st = "ok"]
  OBVIOUS
<1>3. r \in Command
  BY <1>1, <1>2, Fields, FlushUpdate
<1>4. /\ r.cmd = io[p].cmd /\ r.chan = io[p].chan /\ r.call = io[p].call
      /\ r.read = io[p].read /\ r.out = <<>> /\ r.printed = all /\ r.st = "ok"
  BY <1>2, Fields DEF Command
<1>5. io' = [io EXCEPT ![p] = r]
  BY <1>0, <1>2
<1> QED
  BY <1>0, <1>3, <1>4, <1>5, Replaced DEF Becomes

-----------------------------------------------------------------------------
\* The ends of a command: pool and log stay, and so do the lines.
LEMMA ExitKeeps ==
    ASSUME WInv, NEW p \in Procs, NEW result \in {"ok", "err"}, Exit(p, result),
           UNCHANGED <<pool, log>>
    PROVE  WInv'
<1>1. Becomes(p, io[p].chan, io[p].call, io[p].read, io[p].out, io[p].printed, result)
  BY ExitDoes DEF WInv
<1> QED
  BY <1>1, NothingMoves DEF Becomes, Same, WInv, WTypes

\* Setting up starts the reading, with nothing in the channel yet, or fails.
LEMMA SetupKeeps ==
    ASSUME WInv, NEW p \in Procs, Setup(p)
    PROVE  WInv'
<1>1. CASE Exit(p, "err")
  BY <1>1, ExitKeeps DEF Setup
<1>2. CASE io' = [io EXCEPT ![p].st = "running", ![p].reader = "reading"]
  <2>1. Becomes(p, io[p].chan, io[p].call, io[p].read, io[p].out, io[p].printed, "running")
    BY <1>2, SetupDoes DEF WInv
  <2> QED
    BY <2>1, NothingMoves DEF Becomes, Same, Setup, WInv, WTypes
<1> QED
  BY <1>1, <1>2 DEF Setup

\* The line that was read is the last one of the channel.
LEMMA ReadLineKeeps ==
    ASSUME WInv, NEW p \in Procs, ReadLine(p)
    PROVE  WInv'
<1>1. PICK new \in Items :
          /\ new.by = p /\ new.ix = io[p].read + 1
          /\ Becomes(p, Append(io[p].chan, new), io[p].call, io[p].read + 1,
                     io[p].out, io[p].printed, io[p].st)
  BY ReadLineDoes DEF WInv
<1>2. WTypes'
  BY <1>1 DEF Becomes, ReadLine, WInv, WTypes
<1> QED
  BY <1>1, <1>2, LineIsRead DEF Becomes, ReadLine

\* The end of the input moves no line.
LEMMA StopReadingKeeps ==
    ASSUME WInv, NEW p \in Procs, StopReading(p)
    PROVE  WInv'
<1>1. PICK st \in {"running", "ok", "err"} :
          Becomes(p, io[p].chan, io[p].call, io[p].read, io[p].out, io[p].printed, st)
  BY StopReadingDoes DEF WInv
<1> QED
  BY <1>1, NothingMoves DEF Becomes, Same, StopReading, Running, WInv, WTypes

\* A line that is handed on leaves the channel.
LEMMA PublishKeeps ==
    ASSUME WInv, NEW p \in Procs, Publish(p)
    PROVE  WInv'
<1>1. Becomes(p, Tail(io[p].chan), io[p].call, io[p].read, io[p].out, io[p].printed, io[p].st)
  BY PublishDoes DEF WInv
<1>2. WTypes'
  BY <1>1 DEF Becomes, Publish, WInv, WTypes
<1> QED
  BY <1>1, <1>2, LineLeaves DEF Becomes, Publish

\* The line that leaves the channel is the one of the call.
LEMMA ConnectKeeps ==
    ASSUME WInv, NEW p \in Procs, Connect(p)
    PROVE  WInv'
<1>1. PICK call \in Txs :
          /\ call = [item |-> Head(io[p].chan), nonce |-> Len(log)]
          /\ Becomes(p, Tail(io[p].chan), call, io[p].read, io[p].out, io[p].printed, io[p].st)
  BY ConnectDoes DEF WInv
<1>2. WTypes'
  BY <1>1 DEF Becomes, Connect, WInv, WTypes
<1> QED
  BY <1>1, <1>2, LineLeaves DEF Becomes, Connect

\* A transfer takes a line from the channel, or fails and ends the command.
LEMMA TransferKeeps ==
    ASSUME WInv, NEW p \in Procs, Transfer(p)
    PROVE  WInv'
<1>0. CASE Exit(p, "err")
  BY <1>0, ExitKeeps DEF Transfer
<1>1. CASE io' = [io EXCEPT ![p].chan = Tail(@), ![p].out = Append(@, Head(io[p].chan).ix)]
  <2>1. Becomes(p, Tail(io[p].chan), io[p].call, io[p].read,
                Append(io[p].out, Head(io[p].chan).ix), io[p].printed, io[p].st)
    BY <1>1, TransferDoes DEF Transfer, WInv
  <2>2. WTypes'
    BY <2>1 DEF Becomes, Transfer, WInv, WTypes
  <2> QED
    BY <2>1, <2>2, LineLeaves DEF Becomes, Transfer
<1> QED
  BY <1>0, <1>1 DEF Transfer

\* What the pool takes is well typed.
LEMMA PooledTypes ==
    ASSUME WInv, NEW p \in Procs, io[p].call # NoCall,
           Pooled([item |-> io[p].call.item, nonce |-> io[p].call.nonce])
    PROVE  pool' \subseteq Txs
<1>1. PICK tx : tx = [item |-> io[p].call.item, nonce |-> io[p].call.nonce]
  OBVIOUS
<1>2. io[p].call \in Txs
  BY Fields DEF WInv
<1>3. tx \in Txs
  BY <1>1, <1>2 DEF Txs
<1>4. pool' = {t \in pool : t.nonce # tx.nonce} \cup {tx}
  BY <1>1 DEF Pooled
<1> QED
  BY <1>3, <1>4 DEF WInv, WTypes

\* submit that is answered puts the line of the call into the pool.
LEMMA SubmitKeeps ==
    ASSUME WInv, NEW p \in Procs, Submit(p)
    PROVE  WInv'
<1>1. Becomes(p, io[p].chan, NoCall, io[p].read,
              Append(io[p].out, io[p].call.item.ix), io[p].printed, io[p].st)
  BY SubmitDoes DEF WInv
<1>2. WTypes'
  BY <1>1, PooledTypes DEF Becomes, Submit, WInv, WTypes
<1>3. Calling(p) /\ ~Calling(p)' /\ io'[p].st # "new"
  BY <1>1 DEF Becomes, Submit, Calling, Running
<1> QED
  BY <1>1, <1>2, <1>3, LineIsSent DEF Becomes, Submit

\* submit that fails ends the command, whether the pool took the line or not.
LEMMA SubmitFailsKeeps ==
    ASSUME WInv, NEW p \in Procs, SubmitFails(p)
    PROVE  WInv'
<1>1. CASE UNCHANGED pool
  BY <1>1, ExitKeeps DEF SubmitFails
<1>2. CASE Pooled([item |-> io[p].call.item, nonce |-> io[p].call.nonce])
  <2>1. Becomes(p, io[p].chan, io[p].call, io[p].read, io[p].out, io[p].printed, "err")
    BY ExitDoes DEF SubmitFails, WInv
  <2>2. WTypes'
    BY <1>2, <2>1, PooledTypes DEF Becomes, SubmitFails, WInv, WTypes
  <2>3. Calling(p) /\ ~Calling(p)' /\ io'[p].st # "new"
    BY <2>1 DEF Becomes, SubmitFails, Calling, Running
  <2> QED
    BY <1>2, <2>1, <2>2, <2>3, LineIsSent DEF Becomes, SubmitFails
<1> QED
  BY <1>1, <1>2 DEF SubmitFails

\* Flushing the answers touches no line.
LEMMA FlushKeeps ==
    ASSUME WInv, NEW p \in Procs, Flush(p)
    PROVE  WInv'
<1>0. CASE Exit(p, "err")
  BY <1>0, ExitKeeps DEF Flush
<1>1. CASE io' = [io EXCEPT ![p].printed = @ \o io[p].out, ![p].out = <<>>]
  <2>1. Becomes(p, io[p].chan, io[p].call, io[p].read, <<>>, io[p].printed \o io[p].out,
                io[p].st)
    BY <1>1, FlushDoes DEF WInv
  <2> QED
    BY <2>1, NothingMoves DEF Becomes, Same, Flush, Running, WInv, WTypes
<1> QED
  BY <1>0, <1>1 DEF Flush

\* Nor does closing the output.
LEMMA FinishKeeps ==
    ASSUME WInv, NEW p \in Procs, Finish(p)
    PROVE  WInv'
<1>0. CASE Exit(p, "err")
  BY <1>0, ExitKeeps DEF Finish
<1>1. CASE io' = [io EXCEPT ![p].printed = @ \o io[p].out, ![p].out = <<>>, ![p].st = "ok"]
  <2>1. Becomes(p, io[p].chan, io[p].call, io[p].read, <<>>, io[p].printed \o io[p].out, "ok")
    BY <1>1, FinishDoes DEF WInv
  <2> QED
    BY <2>1, NothingMoves DEF Becomes, Same, Finish, WInv, WTypes
<1> QED
  BY <1>0, <1>1 DEF Finish

\* A block takes its transaction from the pool and keeps the types.
LEMMA MakeBlockKeeps ==
    ASSUME WInv, MakeBlock
    PROVE  WInv'
<1>1. PICK tx \in pool : log' = Append(log, tx.item) /\ pool' = pool \ {tx} /\ UNCHANGED io
  BY DEF MakeBlock
<1>2. tx.item \in Items /\ log \in Seq(Items)
  BY ItemTypes DEF WInv, WTypes
<1>3. WTypes'
  BY <1>1, <1>2, SeqFacts DEF WInv, WTypes
<1> QED
  BY <1>3, LineIsRecorded

-----------------------------------------------------------------------------
\* Freshly started commands are well typed.
LEMMA WInitTypes ==
    ASSUME WInit PROVE WTypes
<1>1. <<>> \in Seq(Items) /\ <<>> \in Seq(Nat) /\ 0 \in Nat
  BY SMTT(60)
<1>2. [cmd : Cmds, st : {"new"}, stdin : Inputs, ending : {"eof", "error"}, reader : {"off"},
       chan : {<<>>}, call : {NoCall}, out : {<<>>}, printed : {<<>>}, read : {0}]
      \subseteq Command
  BY <1>1, InputsAreSequences DEF Command
<1> QED
  BY <1>1, <1>2 DEF WInit, WTypes

\* The invariant of the records holds at the start.
LEMMA WInvInit == WInit => WInv
<1> SUFFICES ASSUME WInit PROVE WInv
  OBVIOUS
<1>1. /\ pool = {} /\ log = <<>> /\ DOMAIN log = {}
      /\ \A p \in Procs : io[p].st = "new" /\ io[p].chan = <<>> /\ io[p].call = NoCall
  BY SMTT(60) DEF WInit
<1>2. OneWaits /\ RecordsFollowInput
  BY <1>1 DEF OneWaits, RecordsFollowInput, Calling, Running
<1>3. ASSUME NEW p \in Procs
      PROVE  Fresh(p) /\ ChanOrdered(p) /\ CallOrdered(p) /\ SentOrdered(p)
  BY <1>1 DEF Fresh, ChanOrdered, Sorted, CallOrdered, SentOrdered, Calling, Running
<1> QED
  BY <1>2, <1>3, WInitTypes DEF WInv

\* Every step keeps the invariant of the records.
LEMMA WInvStep == WInv /\ [WNext]_wvars => WInv'
<1> SUFFICES ASSUME WInv, [WNext]_wvars PROVE WInv'
  OBVIOUS
<1>1. CASE MakeBlock
  BY <1>1, MakeBlockKeeps
<1>2. ASSUME NEW p \in Procs, Step(p) PROVE WInv'
  BY <1>2, SetupKeeps, ReadLineKeeps, StopReadingKeeps, PublishKeeps, ConnectKeeps,
     SubmitKeeps,
     SubmitFailsKeeps, TransferKeeps, FlushKeeps, FinishKeeps DEF Step
<1>3. CASE UNCHANGED wvars
  BY <1>3 DEF wvars, WInv, WTypes, OneWaits, Calling, Running, Fresh, ChanOrdered,
     CallOrdered,
              SentOrdered, Behind, RecordsFollowInput
<1> QED
  BY <1>1, <1>2, <1>3 DEF WNext

\* The commands may be any, and their number, their inputs and the order of all
\* steps too: a line becomes at most one recorded transaction, and the lines of a
\* process are recorded in the order in which it read them.
THEOREM RecordsInOrder == WSpec => []RecordsFollowInput
<1>1. WInit => WInv
  BY WInvInit
<1>2. WInv /\ [WNext]_wvars => WInv'
  BY WInvStep
<1>3. WInv => RecordsFollowInput
  BY DEF WInv
<1> QED
  BY <1>1, <1>2, <1>3, PTL DEF WSpec

-----------------------------------------------------------------------------
(* From the record to the output of a launch command.                      *)

\* All that a launch command has received and not lost, in the order of arrival.
Stream == (shown \o buffered) \o inbox

\* No launch since the first one of s is missing in s.
Complete(s, at) ==
    \A i \in LaunchPlaces : \A j \in DOMAIN s :
        at[j] < i => \E m \in DOMAIN s : at[m] = i

\* s is a piece of the recorded launches, up to the last one if full is TRUE.
Traced(s, full) ==
    \E at \in [DOMAIN s -> DOMAIN log] : AreAt(s, at) /\ (full => Complete(s, at))

\* While the task listens its stream is up to date with the record, and before
\* that it is empty.
ReaderOK ==
    /\ shown \in Seq(Payloads) /\ buffered \in Seq(Payloads) /\ inbox \in Seq(Payloads)
    /\ rst = "new" => task = "off"
    /\ task \in {"off", "connecting"} => Stream = <<>>
    /\ Traced(Stream, rst = "running" /\ task = "listening")

\* The inductive invariant of the path.
LaunchInv == WInv /\ (kind = "launch" => ReaderOK)

\* A step that leaves the record and its launches alone leaves the places.
LEMMA TraceStays ==
    ASSUME log' = log, LaunchPlaces' = LaunchPlaces,
           NEW s, NEW full \in BOOLEAN, NEW less \in BOOLEAN, less => full, Traced(s, full)
    PROVE  Traced(s, less)'
BY SMTT(60) DEF Traced, AreAt, Complete

\* The places of the launches when one more item is recorded.
LEMMA OneMorePlace ==
    ASSUME log \in Seq(Items), NEW e \in Items, log' = Append(log, e), io' = io
    PROVE  /\ Len(log) \in Nat /\ DOMAIN log = 1 .. Len(log)
           /\ DOMAIN log' = 1 .. (Len(log) + 1)
           /\ \A i \in DOMAIN log : log'[i] = log[i]
           /\ log'[Len(log) + 1] = e
           /\ LaunchPlaces \subseteq DOMAIN log
           /\ LaunchPlaces' = LaunchPlaces \cup (IF IsLaunch(e) THEN {Len(log) + 1} ELSE {})
<1>1. /\ Len(log) \in Nat /\ DOMAIN log = 1 .. Len(log)
      /\ DOMAIN log' = 1 .. (Len(log) + 1)
      /\ \A i \in DOMAIN log : log'[i] = log[i]
      /\ log'[Len(log) + 1] = e
  BY SMTT(60), SeqFacts
<1>2. LaunchPlaces' = {i \in DOMAIN log' : io[log'[i].by].cmd = "launch"}
  BY DEF LaunchPlaces, IsLaunch
<1>3. \A i \in DOMAIN log' : i \in DOMAIN log \/ i = Len(log) + 1
  BY SMTT(60), <1>1
<1>4. DOMAIN log \subseteq DOMAIN log' /\ Len(log) + 1 \in DOMAIN log'
  BY SMTT(60), <1>1
<1>5. LaunchPlaces' = LaunchPlaces \cup (IF IsLaunch(e) THEN {Len(log) + 1} ELSE {})
  BY <1>1, <1>2, <1>3, <1>4 DEF LaunchPlaces, IsLaunch
<1> QED
  BY <1>1, <1>5 DEF LaunchPlaces

\* A record that is not received leaves what was received in its places, and
\* completes it still if it is no launch.
LEMMA TraceSkips ==
    ASSUME log \in Seq(Items), NEW e \in Items, log' = Append(log, e), io' = io,
           NEW s, NEW full \in BOOLEAN, NEW less \in BOOLEAN, less => full /\ ~IsLaunch(e),
           Traced(s, full)
    PROVE  Traced(s, less)'
<1>1. PICK at \in [DOMAIN s -> DOMAIN log] : AreAt(s, at) /\ (full => Complete(s, at))
  BY DEF Traced
<1>2. at \in [DOMAIN s -> DOMAIN log']
  BY SMTT(60), OneMorePlace
<1>3. AreAt(s, at)'
  BY SMTT(60), <1>1, OneMorePlace DEF AreAt
<1>4. less => Complete(s, at)'
  BY <1>1, OneMorePlace DEF Complete
<1> QED
  BY <1>2, <1>3, <1>4 DEF Traced

\* A launch that is received when it is recorded continues the piece.
LEMMA TraceGrows ==
    ASSUME log \in Seq(Items), NEW e \in Items, log' = Append(log, e), io' = io, IsLaunch(e),
           NEW s \in Seq(Payloads), e \in Payloads, Traced(s, TRUE)
    PROVE  Traced(Append(s, e), TRUE)'
<1>1. PICK at \in [DOMAIN s -> DOMAIN log] : AreAt(s, at) /\ Complete(s, at)
  BY DEF Traced
<1>0. PICK t, n, last : t = Append(s, e) /\ n = Len(s) + 1 /\ last = Len(log) + 1
  OBVIOUS
<1>2. /\ n \in Nat \ {0} /\ DOMAIN s = 1 .. (n - 1) /\ DOMAIN t = 1 .. n
      /\ \A k \in DOMAIN s : t[k] = s[k]
      /\ t[n] = e
  BY SMTT(60), <1>0, SeqFacts
<1>3. /\ last \in Nat \ {0} /\ DOMAIN log = 1 .. (last - 1) /\ DOMAIN log' = 1 .. last
      /\ \A i \in DOMAIN log : log'[i] = log[i]
      /\ log'[last] = e
      /\ LaunchPlaces \subseteq DOMAIN log
      /\ LaunchPlaces' = LaunchPlaces \cup {last}
  BY SMTT(60), <1>0, OneMorePlace
<1>a. /\ \A k \in DOMAIN s : k \in DOMAIN t /\ k # n /\ at[k] \in DOMAIN log
      /\ \A k \in DOMAIN t : k \in DOMAIN s \/ k = n
      /\ n \in DOMAIN t /\ last \in DOMAIN log' /\ DOMAIN log \subseteq DOMAIN log'
  BY SMTT(60), <1>2, <1>3
<1>b. PICK new : new = [k \in DOMAIN t |-> IF k = n THEN last ELSE at[k]]
  OBVIOUS
<1>4. /\ new \in [DOMAIN t -> DOMAIN log']
      /\ new[n] = last
      /\ \A k \in DOMAIN s : k \in DOMAIN t /\ k # n /\ new[k] = at[k] /\ at[k] \in DOMAIN log
      /\ \A k \in DOMAIN t : k \in DOMAIN s \/ k = n
  BY <1>a, <1>b
<1>5. \A k \in DOMAIN t : new[k] \in LaunchPlaces' /\ t[k] = log'[new[k]]
  BY SMTT(60), <1>1, <1>2, <1>3, <1>4 DEF AreAt
<1>6. ASSUME NEW j \in DOMAIN t, NEW k \in DOMAIN t, j < k PROVE new[j] < new[k]
  <2>1. j \in DOMAIN s
    BY SMTT(60), <1>2, <1>6
  <2>2. CASE k \in DOMAIN s
    BY <1>1, <1>4, <1>6, <2>1, <2>2 DEF AreAt
  <2>3. CASE k = n
    BY SMTT(60), <1>3, <1>4, <2>1, <2>3
  <2> QED
    BY <1>4, <2>2, <2>3
<1>7. ASSUME NEW i \in LaunchPlaces', NEW j \in DOMAIN t, new[j] < i
      PROVE  \E m \in DOMAIN t : new[m] = i
  <2>1. CASE i = last
    BY <1>4, <1>a, <2>1
  <2>2. CASE i \in LaunchPlaces
    <3>1. j # n
      BY SMTT(60), <1>3, <1>4, <1>7, <2>2
    <3>2. j \in DOMAIN s /\ at[j] < i
      BY <1>4, <1>7, <3>1
    <3>3. PICK m \in DOMAIN s : at[m] = i
      BY <1>1, <2>2, <3>2 DEF Complete
    <3> QED  BY <1>4, <3>3
  <2> QED  BY <1>3, <1>7, <2>1, <2>2
<1>8. Complete(t, new)'
  BY <1>7 DEF Complete
<1>9. AreAt(t, new)'
  BY <1>5, <1>6, <1>7 DEF AreAt
<1> QED
  BY <1>0, <1>4, <1>8, <1>9 DEF Traced

\* The beginning of a piece is a piece.
LEMMA TracePrefix ==
    ASSUME log \in Seq(Items), NEW s \in Seq(Payloads), NEW u \in Seq(Payloads),
           NEW t, t = s \o u, NEW at \in [DOMAIN t -> DOMAIN log], AreAt(t, at)
    PROVE  \E old \in [DOMAIN s -> DOMAIN log] : AreAt(s, old)
<1>1. AreAt(t, at)
  OBVIOUS
<1>2. /\ DOMAIN s \subseteq DOMAIN t /\ DOMAIN s = 1 .. Len(s) /\ Len(s) \in Nat
      /\ DOMAIN t \subseteq Nat \ {0}
      /\ \A k \in DOMAIN s : t[k] = s[k]
  BY SMTT(60)
<1>3. DOMAIN log \subseteq Nat
  BY SMTT(60), SeqFacts
<1> DEFINE old == [k \in DOMAIN s |-> at[k]]
<1>4. old \in [DOMAIN s -> DOMAIN log] /\ \A k \in DOMAIN s : old[k] = at[k]
  BY <1>2
<1> HIDE DEF old
<1>5. \A k \in DOMAIN s : old[k] \in LaunchPlaces /\ s[k] = log[old[k]]
  BY <1>1, <1>2, <1>4 DEF AreAt
<1>6. \A j, k \in DOMAIN s : j < k => old[j] < old[k]
  BY <1>1, <1>2, <1>4 DEF AreAt
<1>7. ASSUME NEW i \in LaunchPlaces, NEW j \in DOMAIN s, NEW k \in DOMAIN s, old[j] < i, i < old[k]
      PROVE  \E m \in DOMAIN s : old[m] = i
  <2>1. PICK m \in DOMAIN t : at[m] = i
    BY <1>1, <1>2, <1>4, <1>7 DEF AreAt
  <2>2. i \in Nat /\ at[k] \in Nat /\ i < at[k] /\ (k < m => at[k] < i)
    BY <1>1, <1>2, <1>3, <1>4, <1>7, <2>1 DEF AreAt
  <2>3. ~(k < m) /\ k # m
    BY SMTT(60), <2>1, <2>2
  <2>4. m \in DOMAIN s
    BY SMTT(60), <1>2, <2>3
  <2> QED
    BY <1>4, <2>1, <2>4
<1>8. AreAt(s, old)
  BY <1>5, <1>6, <1>7 DEF AreAt
<1> QED
  BY <1>4, <1>8

\* Where a stream is cut into shown, buffered and received does not matter.
LEMMA StreamMoves ==
    ASSUME NEW S, NEW a \in Seq(S), NEW b \in Seq(S), NEW c \in Seq(S)
    PROVE  /\ a \o b \in Seq(S) /\ (a \o b) \o c \in Seq(S)
           /\ ((a \o b) \o <<>>) \o c = (a \o b) \o c
           /\ \A e \in S : /\ Append(c, e) \in Seq(S)
                           /\ (a \o b) \o Append(c, e) = Append((a \o b) \o c, e)
<1>1. a \o b \in Seq(S) /\ (a \o b) \o c \in Seq(S) /\ (a \o b) \o <<>> = a \o b
  BY SMTT(60)
<1>2. \A e \in S : Append(c, e) \in Seq(S) /\ (a \o b) \o Append(c, e) = Append((a \o b) \o c, e)
  BY SMTT(60)
<1> QED
  BY <1>1, <1>2

\* A command stays what it is, and only a block changes the record.
LEMMA CmdStays ==
    ASSUME WTypes, NEW p \in Procs, Step(p)
    PROVE  log' = log /\ \A q \in Procs : io'[q].cmd = io[q].cmd
<1> DEFINE Stays == Others(p) /\ io'[p].cmd = io[p].cmd
<1>0. log' = log
  BY DEF Step, Setup, ReadLine, StopReading, Publish, Connect, Submit, SubmitFails,
                    Transfer, Flush, Finish
<1>1. Exit(p, "err") => Stays
  BY ExitDoes DEF Becomes
<1>2. Setup(p) \/ SubmitFails(p) => Stays
  BY <1>1, SetupDoes DEF Setup, SubmitFails, Becomes
<1>3. ReadLine(p) \/ StopReading(p) => Stays
  BY ReadLineDoes, StopReadingDoes DEF Becomes
<1>4. Publish(p) \/ Connect(p) \/ Submit(p) => Stays
  BY PublishDoes, ConnectDoes, SubmitDoes DEF Becomes
<1>5. Transfer(p) => Stays
  BY <1>1, TransferDoes DEF Transfer, Becomes
<1>6. Flush(p) \/ Finish(p) => Stays
  BY <1>1, FlushDoes, FinishDoes DEF Flush, Finish, Becomes
<1>7. Stays
  BY <1>2, <1>3, <1>4, <1>5, <1>6 DEF Step
<1> QED
  BY <1>0, <1>7 DEF Others

\* A step of the writers changes nothing that the places depend on.
LEMMA WrittenPlaces ==
    ASSUME WTypes, Written
    PROVE  log' = log /\ LaunchPlaces' = LaunchPlaces
<1>1. PICK p \in Procs : Step(p)
  BY DEF Written
<1>2. log' = log /\ \A q \in Procs : io'[q].cmd = io[q].cmd
  BY <1>1, CmdStays
<1>3. \A i \in DOMAIN log : log[i].by \in Procs
  BY SeqFacts, ItemTypes DEF WTypes
<1> QED
  BY <1>2, <1>3 DEF LaunchPlaces, IsLaunch

\* Nothing received is a piece, and complete.
LEMMA NothingTraced == Traced(<<>>, TRUE) /\ Traced(<<>>, TRUE)'
<1>1. ASSUME NEW S PROVE [k \in {} |-> 0] \in [DOMAIN <<>> -> S]
  BY SMTT(60)
<1>2. DOMAIN <<>> = {}
  BY SMTT(60)
<1> QED
  BY <1>1, <1>2 DEF Traced, AreAt, Complete

\* The reader after a step, from what its stream has become.
LEMMA ReaderMoves ==
    ASSUME NEW s, NEW l \in BOOLEAN, Traced(s, l)', Stream' = s,
           rst' = "running" /\ task' = "listening" => l,
           shown' \in Seq(Payloads), buffered' \in Seq(Payloads), inbox' \in Seq(Payloads),
           rst' = "new" => task' = "off", task' \in {"off", "connecting"} => s = <<>>
    PROVE  ReaderOK'
<1>1. Traced(Stream, rst = "running" /\ task = "listening")'
  BY SMTT(60) DEF Traced, AreAt, Complete
<1> QED
  BY <1>1 DEF ReaderOK

\* The steps of the launch command that leave the chain alone.
LEMMA ShownKeeps ==
    ASSUME WTypes, kind = "launch", ReaderOK, Shown
    PROVE  ReaderOK'
<1>1. log' = log /\ LaunchPlaces' = LaunchPlaces
  BY DEF Shown, wvars, LaunchPlaces, IsLaunch
<1>2. /\ shown \in Seq(Payloads) /\ buffered \in Seq(Payloads) /\ inbox \in Seq(Payloads)
      /\ rst = "new" => task = "off"
      /\ task \in {"off", "connecting"} => Stream = <<>>
      /\ Traced(Stream, rst = "running" /\ task = "listening")
  BY DEF ReaderOK
<1>3. PICK s, l : s = Stream /\ l = (rst = "running" /\ task = "listening")
  OBVIOUS
<1>4. l \in BOOLEAN /\ Traced(s, l)
  BY <1>2, <1>3
<1>5. Traced(s, l)'
  BY <1>1, <1>4, TraceStays
<1>6. CASE ROpen
  <2>1. /\ rst' = "running" /\ task' = "connecting" /\ s = <<>>
        /\ shown' = shown /\ buffered' = buffered /\ inbox' = inbox
    BY <1>2, <1>3, <1>6 DEF ROpen
  <2>2. Stream' = s
    BY <1>3, <2>1 DEF Stream
  <2> QED
    BY <1>2, <1>4, <1>5, <2>1, <2>2, ReaderMoves
<1>7. CASE Listen
  <2>1. /\ rst' = rst /\ rst # "new" /\ task' \in {"listening", "dead"} /\ s = <<>>
        /\ shown' = shown /\ buffered' = buffered /\ inbox' = inbox
    BY <1>2, <1>3, <1>7 DEF Listen
  <2>2. Stream' = s
    BY <1>3, <2>1 DEF Stream
  <2>3. Traced(s, TRUE)'
    BY <2>1, NothingTraced
  <2>4. rst' # "new" /\ TRUE \in BOOLEAN
    BY <2>1
  <2> QED
    BY <1>2, <2>1, <2>2, <2>3, <2>4, ReaderMoves
<1>8. ASSUME shown' \in Seq(Payloads), buffered' \in Seq(Payloads), inbox' \in Seq(Payloads),
             Stream' = Stream, task' = task, rst = "running", rst' \in {"running", "ok", "err"}
      PROVE  ReaderOK'
  <2>1. Stream' = s /\ rst' # "new" /\ (task' \in {"off", "connecting"} => s = <<>>)
    BY <1>2, <1>3, <1>8
  <2>2. rst' = "running" /\ task' = "listening" => l
    BY <1>3, <1>8
  <2> QED
    BY <1>4, <1>5, <1>8, <2>1, <2>2, ReaderMoves
<1>9. CASE Forward
  <2>1. Head(inbox) \in Payloads /\ inbox # <<>> /\ inbox' = Tail(inbox)
    BY SMTT(60), <1>2, <1>9 DEF Forward
  <2>2. Head(inbox) # Broken /\ Head(inbox) # Garbage
    BY <2>1, IoReadAssumption
  <2>3. /\ buffered' = Append(buffered, Head(inbox)) /\ rst' = rst /\ rst = "running"
        /\ task' = task /\ shown' = shown
    BY <1>9, <2>2 DEF Forward, Rendered
  <2>5. /\ Tail(inbox) \in Seq(Payloads) /\ Append(buffered, Head(inbox)) \in Seq(Payloads)
        /\ (shown \o Append(buffered, Head(inbox))) \o Tail(inbox) = (shown \o buffered) \o inbox
    <3>1. PICK a, b, c : a = shown /\ b = buffered /\ c = inbox
      OBVIOUS
    <3>2. a \in Seq(Payloads) /\ b \in Seq(Payloads) /\ c \in Seq(Payloads) /\ c # <<>>
      BY <1>2, <2>1, <3>1
    <3>3. Tail(c) \in Seq(Payloads) /\ Append(b, Head(c)) \in Seq(Payloads)
      BY SMTT(60), <3>2
    <3>4. PICK x, y : x = (a \o Append(b, Head(c))) \o Tail(c) /\ y = (a \o b) \o c
      OBVIOUS
    <3>5. x \in Seq(Payloads) /\ y \in Seq(Payloads) /\ Len(x) = Len(y)
      BY SMTT(60), <3>2, <3>3, <3>4
    <3>6. \A k \in 1 .. Len(x) : x[k] = y[k]
      BY SMTT(60), <3>2, <3>3, <3>4
    <3>7. x = y
      BY SMTT(60), <3>5, <3>6
    <3> QED
      BY <3>1, <3>3, <3>4, <3>7
  <2>4. /\ buffered' \in Seq(Payloads) /\ inbox' \in Seq(Payloads) /\ shown' \in Seq(Payloads)
        /\ Stream' = Stream
    BY <1>2, <2>1, <2>3, <2>5 DEF Stream
  <2> QED
    BY <1>8, <2>3, <2>4
<1>10. CASE FlushShown \/ PanicEnds
  <2>1. /\ \/ shown' = shown /\ buffered' = buffered
           \/ shown' = shown \o buffered /\ buffered' = <<>>
        /\ inbox' = inbox /\ task' = task /\ rst = "running" /\ rst' \in {"running", "ok", "err"}
    BY <1>10 DEF FlushShown, PanicEnds
  <2>4. /\ shown \o buffered \in Seq(Payloads) /\ <<>> \in Seq(Payloads)
        /\ ((shown \o buffered) \o <<>>) \o inbox = (shown \o buffered) \o inbox
    BY SMTT(60), <1>2, StreamMoves
  <2>2. shown' \in Seq(Payloads) /\ buffered' \in Seq(Payloads) /\ inbox' \in Seq(Payloads)
    BY <1>2, <2>1, <2>4
  <2>3. Stream' = Stream
    BY <2>1, <2>4 DEF Stream
  <2> QED
    BY <1>8, <2>1, <2>2, <2>3
<1> QED
  BY <1>6, <1>7, <1>9, <1>10 DEF Shown, RStep

\* What arrives from elsewhere is not kept, and at most ends the listening.
LEMMA DisturbedKeeps ==
    ASSUME WTypes, kind = "launch", ReaderOK, Disturbed
    PROVE  ReaderOK'
<1>1. log' = log /\ LaunchPlaces' = LaunchPlaces
  BY DEF Disturbed, wvars, LaunchPlaces, IsLaunch
<1>2. PICK s, l : s = Stream /\ l = (rst = "running" /\ task = "listening")
  OBVIOUS
<1>3. l \in BOOLEAN /\ Traced(s, l)
  BY <1>2 DEF ReaderOK
<1>4. Traced(s, l)'
  BY <1>1, <1>3, TraceStays
<1>5. /\ shown' = shown /\ buffered' = buffered /\ inbox' = inbox
      /\ rst = "running" /\ rst' = rst /\ task = "listening" /\ task' \in {"listening", "dead"}
  BY IoReadAssumption DEF Disturbed, Arrive, Queued
<1>6. Stream' = s /\ (rst' = "running" /\ task' = "listening" => l)
  BY <1>2, <1>5 DEF Stream
<1>7. rst' # "new" /\ task' \notin {"off", "connecting"}
  BY <1>5
<1> QED
  BY <1>3, <1>4, <1>5, <1>6, <1>7, ReaderMoves DEF ReaderOK

\* A block with one more transaction: the listening command gets the launch, and
\* nothing else.
LEMMA ExecutedKeeps ==
    ASSUME WTypes, kind = "launch", ReaderOK, Executed
    PROVE  ReaderOK'
<1>1. PICK e \in Items : log' = Append(log, e) /\ io' = io /\ Notify(log'[Len(log')])
  BY ItemTypes DEF Executed, MakeBlock, WTypes
<1>2. log \in Seq(Items) /\ log'[Len(log')] = e
  BY SMTT(60), <1>1 DEF WTypes
<1>3. Notify(e)
  BY <1>1, <1>2
<1>4. PICK s, l : s = Stream /\ l = (rst = "running" /\ task = "listening")
  OBVIOUS
<1>5. l \in BOOLEAN /\ Traced(s, l)
  BY <1>4 DEF ReaderOK
<1>6. CASE ~(l /\ IsLaunch(e))
  <2>1. UNCHANGED rvars
    BY <1>3, <1>4, <1>6 DEF Notify
  <2>2. Traced(s, l)'
    BY <1>1, <1>2, <1>5, <1>6, TraceSkips
  <2>3. Stream' = s /\ (rst' = "running" /\ task' = "listening" => l)
    BY <1>4, <2>1 DEF Stream, rvars
  <2> QED
    BY <1>4, <1>5, <2>1, <2>2, <2>3, ReaderMoves DEF ReaderOK, rvars
<1>7. CASE l /\ IsLaunch(e)
  <2>1. Arrive(e) /\ rst = "running" /\ task = "listening"
    BY <1>3, <1>4, <1>7 DEF Notify
  <2>2. e # Garbage
    BY LaunchPathAssumption DEF Items
  <2>3. /\ e \in Payloads \/ e = Broken
        /\ shown' = shown /\ buffered' = buffered /\ rst' = rst
        /\ inbox' = IF e \in Payloads THEN Append(inbox, e) ELSE inbox
        /\ task' = IF e = Broken THEN "dead" ELSE task
    BY <2>1, <2>2 DEF Arrive, Arrivals, Queued
  <2>4. CASE e \in Payloads
    <3>1. e # Broken /\ inbox' = Append(inbox, e) /\ task' = task
      BY <2>3, <2>4, IoReadAssumption
    <3>2. /\ s \in Seq(Payloads) /\ inbox' \in Seq(Payloads)
          /\ (shown \o buffered) \o Append(inbox, e) = Append(s, e)
      BY SMTT(60), <1>4, <2>4, <3>1, StreamMoves DEF ReaderOK, Stream
    <3>6. l = TRUE
      BY <1>5, <1>7
    <3>7. Traced(s, TRUE)
      BY <1>5, <3>6
    <3>3. Traced(Append(s, e), TRUE)'
      BY <1>1, <1>2, <1>7, <2>4, <3>2, <3>7, TraceGrows
    <3>4. Stream' = Append(s, e)
      BY <2>3, <3>1, <3>2 DEF Stream
    <3>5. rst' # "new" /\ task' \notin {"off", "connecting"} /\ TRUE \in BOOLEAN
      BY <2>1, <2>3, <3>1
    <3> QED
      BY <2>3, <3>2, <3>3, <3>4, <3>5, ReaderMoves DEF ReaderOK
  <2>5. CASE e = Broken
    <3>1. e \notin Payloads /\ inbox' = inbox /\ task' = "dead"
      BY <2>3, <2>5, IoReadAssumption
    <3>2. Traced(s, FALSE)'
      BY <1>1, <1>2, <1>5, TraceSkips
    <3>3. Stream' = s
      BY <1>4, <2>3, <3>1 DEF Stream
    <3>4. /\ rst' # "new" /\ task' \notin {"off", "connecting"} /\ task' # "listening"
          /\ FALSE \in BOOLEAN
      BY <2>1, <2>3, <3>1
    <3> QED
      BY <2>3, <3>1, <3>2, <3>3, <3>4, ReaderMoves DEF ReaderOK
  <2> QED
    BY <2>3, <2>4, <2>5
<1> QED
  BY <1>6, <1>7

\* A launch command stays one, and its reader stays in order in every step.
LEMMA LaunchInvStep == LaunchInv /\ [LaunchNext]_lpvars => LaunchInv'
<1> SUFFICES ASSUME LaunchInv, [LaunchNext]_lpvars PROVE LaunchInv'
  OBVIOUS
<1>1. WInv /\ WTypes
  BY DEF LaunchInv, WInv
<1>2. [WNext]_wvars
  BY DEF LaunchNext, lpvars, Written, Shown, Executed, Disturbed, WNext
<1>3. WInv'
  BY <1>1, <1>2, WInvStep
<1>4. kind' = kind
  <2>1. CASE Shown
    BY <2>1 DEF Shown, RStep, ROpen, Listen, Forward, FlushShown, PanicEnds
  <2>2. CASE Executed
    BY <2>2 DEF Executed, Notify, Arrive, rvars
  <2>3. CASE Disturbed
    BY <2>3 DEF Disturbed, Arrive
  <2> QED
    BY <2>1, <2>2, <2>3 DEF LaunchNext, Written, lpvars, rvars
<1>5. ASSUME kind = "launch" PROVE ReaderOK'
  <2>1. ReaderOK
    BY <1>5 DEF LaunchInv
  <2>2. ASSUME log' = log, LaunchPlaces' = LaunchPlaces, UNCHANGED rvars PROVE ReaderOK'
    <3>1. PICK s, l : s = Stream /\ l = (rst = "running" /\ task = "listening")
      OBVIOUS
    <3>2. l \in BOOLEAN /\ Traced(s, l)
      BY <2>1, <3>1 DEF ReaderOK
    <3>3. Traced(s, l)'
      BY <2>2, <3>2, TraceStays
    <3>4. Stream' = s /\ (rst' = "running" /\ task' = "listening" => l)
      BY <2>2, <3>1 DEF Stream, rvars
    <3> QED
      BY <2>1, <2>2, <3>1, <3>2, <3>3, <3>4, ReaderMoves DEF ReaderOK, rvars
  <2>3. CASE Written
    BY <1>1, <2>2, <2>3, WrittenPlaces DEF Written
  <2>4. CASE UNCHANGED lpvars
    BY <2>2, <2>4 DEF lpvars, wvars, LaunchPlaces, IsLaunch
  <2> QED
    BY <1>1, <1>5, <2>1, <2>3, <2>4, ShownKeeps, ExecutedKeeps, DisturbedKeeps
       DEF LaunchNext
<1> QED
  BY <1>3, <1>4, <1>5 DEF LaunchInv

\* LaunchesShownAsRecorded in every state: what a launch command prints is a
\* contiguous piece of the launches that were recorded, whatever is submitted,
\* recorded or lost meanwhile.
THEOREM LaunchesShown == LaunchSpec => []LaunchesShownAsRecorded
<1>1. WInit /\ RInit => LaunchInv
  <2> SUFFICES ASSUME WInit, RInit PROVE LaunchInv
    OBVIOUS
  <2>1. WInv
    BY WInvInit
  <2>2. /\ rst = "new" /\ task = "off"
        /\ shown = <<>> /\ buffered = <<>> /\ inbox = <<>> /\ <<>> \in Seq(Payloads)
    BY SMTT(60) DEF RInit
  <2>3. Stream = <<>>
    BY SMTT(60), <2>2 DEF Stream
  <2>4. Traced(<<>>, TRUE)
    BY NothingTraced
  <2>5. Traced(Stream, rst = "running" /\ task = "listening")
    BY <2>3, <2>4 DEF Traced
  <2> QED
    BY <2>1, <2>2, <2>3, <2>5 DEF LaunchInv, ReaderOK
<1>2. LaunchInv /\ [LaunchNext]_lpvars => LaunchInv'
  BY LaunchInvStep
<1>3. LaunchInv => LaunchesShownAsRecorded
  <2> SUFFICES ASSUME LaunchInv, kind = "launch"
               PROVE  LET lines == shown \o buffered
                      IN  \E at \in [DOMAIN lines -> DOMAIN log] : AreAt(lines, at)
    BY DEF LaunchesShownAsRecorded
  <2>1. /\ log \in Seq(Items)
        /\ shown \in Seq(Payloads) /\ buffered \in Seq(Payloads) /\ inbox \in Seq(Payloads)
        /\ Traced(Stream, rst = "running" /\ task = "listening")
    BY DEF LaunchInv, ReaderOK, WInv, WTypes
  <2>2. PICK lines, u, t : lines = shown \o buffered /\ u = inbox /\ t = lines \o u
    OBVIOUS
  <2>3. lines \in Seq(Payloads) /\ u \in Seq(Payloads)
    BY SMTT(60), <2>1, <2>2
  <2>4. PICK at \in [DOMAIN t -> DOMAIN log] : AreAt(t, at)
    BY <2>1, <2>2 DEF Traced, Stream
  <2>5. \E old \in [DOMAIN lines -> DOMAIN log] : AreAt(lines, old)
    BY <2>1, <2>2, <2>3, <2>4, TracePrefix
  <2> QED
    BY <2>2, <2>5
<1> QED
  BY <1>1, <1>2, <1>3, PTL DEF LaunchSpec

-----------------------------------------------------------------------------
(* The answers of a command.                                               *)

\* Lines that are answered, and one more while a call is in flight.
Told(printed, out) == Len(printed) + Len(out)
Flight(call) == IF call = NoCall THEN 0 ELSE 1

\* Output, buffered output, call and channel hold the lines read, each one once
\* and in order.
Numbered(cmd, printed, out, call, chan, read) ==
    /\ \A i \in 1 .. Len(printed) : printed[i] = i
    /\ \A i \in 1 .. Len(out) : out[i] = Len(printed) + i
    /\ call # NoCall => cmd \in OnChain /\ call.item.ix = Told(printed, out) + 1
    /\ \A i \in 1 .. Len(chan) : chan[i].ix = Told(printed, out) + Flight(call) + i
    /\ read = Told(printed, out) + Flight(call) + Len(chan)

AnswersOK(p) ==
    io[p].cmd \notin Feeding =>
        /\ io[p].st \in {"new", "running"} =>
               Numbered(io[p].cmd, io[p].printed, io[p].out, io[p].call, io[p].chan, io[p].read)
        /\ io[p].st = "ok" => io[p].printed = [i \in 1 .. io[p].read |-> i]

\* The numbers of answers given and of calls in flight are natural numbers.
LEMMA ToldTypes ==
    ASSUME NEW printed \in Seq(Nat), NEW out \in Seq(Nat), NEW call
    PROVE  /\ Len(printed) \in Nat /\ Len(out) \in Nat
           /\ Told(printed, out) \in Nat /\ Flight(call) \in {0, 1}
BY SMTT(60) DEF Told, Flight

\* ReadLine: the new line has the next number.
LEMMA NumberedRead ==
    ASSUME NEW cmd, NEW printed \in Seq(Nat), NEW out \in Seq(Nat), NEW call,
           NEW chan \in Seq(Items), NEW read \in Nat, NEW e \in Items, e.ix = read + 1,
           Numbered(cmd, printed, out, call, chan, read)
    PROVE  Numbered(cmd, printed, out, call, Append(chan, e), read + 1)
<1> DEFINE t == Told(printed, out) + Flight(call)
           c == Append(chan, e)
<1>1. t \in Nat
  <2>1. Told(printed, out) \in Nat /\ Flight(call) \in {0, 1}
    BY ToldTypes
  <2> QED
    BY SMTT(60), <2>1
<1>2. read = t + Len(chan) /\ \A i \in 1 .. Len(chan) : chan[i].ix = t + i
  BY DEF Numbered
<1>3. /\ Len(c) = Len(chan) + 1 /\ c[Len(chan) + 1] = e /\ Len(chan) \in Nat
      /\ \A i \in 1 .. Len(chan) : c[i] = chan[i]
  BY SMTT(60)
<1> HIDE DEF t, c
<1>4. \A i \in 1 .. Len(c) : i \in 1 .. Len(chan) \/ i = Len(chan) + 1
  BY SMTT(60), <1>3
<1>5. read + 1 = t + (Len(chan) + 1)
  BY SMTT(60), <1>1, <1>2, <1>3
<1>6. \A i \in 1 .. Len(c) : c[i].ix = t + i
  BY <1>2, <1>3, <1>4, <1>5
<1> QED
  BY <1>3, <1>5, <1>6 DEF Numbered, t, c

\* Connect: the first line of the channel becomes the line of the call.
LEMMA NumberedConnect ==
    ASSUME NEW cmd \in OnChain, NEW printed \in Seq(Nat), NEW out \in Seq(Nat), NEW call,
           NEW chan \in Seq(Items), NEW read \in Nat, chan # <<>>,
           Numbered(cmd, printed, out, NoCall, chan, read),
           call # NoCall, call.item = Head(chan)
    PROVE  Numbered(cmd, printed, out, call, Tail(chan), read)
<1> DEFINE t == Told(printed, out)
           c == Tail(chan)
<1>1. t \in Nat /\ Flight(NoCall) = 0 /\ Flight(call) = 1
  BY ToldTypes DEF Flight
<1>2. read = t + Len(chan) /\ \A i \in 1 .. Len(chan) : chan[i].ix = t + i
  BY SMTT(60), <1>1 DEF Numbered
<1>3. /\ Len(c) = Len(chan) - 1 /\ Head(chan) = chan[1] /\ 1 \in 1 .. Len(chan)
      /\ \A i \in 1 .. Len(c) : i + 1 \in 1 .. Len(chan) /\ c[i] = chan[i + 1]
      /\ Len(chan) \in Nat
  BY SMTT(60)
<1> HIDE DEF t, c
<1>4. call.item.ix = t + 1
  BY <1>2, <1>3
<1>5. \A i \in 1 .. Len(c) : c[i].ix = t + 1 + i
  <2> TAKE i \in 1 .. Len(c)
  <2>1. c[i].ix = t + (i + 1)
    BY <1>2, <1>3
  <2> QED
    BY SMTT(60), <1>1, <2>1
<1>6. read = t + 1 + Len(c)
  BY SMTT(60), <1>1, <1>2, <1>3
<1> QED
  BY <1>1, <1>4, <1>5, <1>6 DEF Numbered, t, c

\* A line more is answered.
LEMMA OneMoreTold ==
    ASSUME NEW printed \in Seq(Nat), NEW out \in Seq(Nat), NEW n, n = Told(printed, out) + 1,
           \A i \in 1 .. Len(out) : out[i] = Len(printed) + i
    PROVE  /\ Told(printed, Append(out, n)) = Told(printed, out) + 1
           /\ \A i \in 1 .. Len(Append(out, n)) : Append(out, n)[i] = Len(printed) + i
<1> DEFINE o == Append(out, n)
<1>1. n \in Nat /\ Len(printed) \in Nat /\ Len(out) \in Nat
  BY SMTT(60), ToldTypes
<1>2. /\ Len(o) = Len(out) + 1 /\ o[Len(out) + 1] = n
      /\ \A i \in 1 .. Len(out) : o[i] = out[i]
  BY SMTT(60), <1>1
<1> HIDE DEF o
<1>3. n = Len(printed) + (Len(out) + 1)
  BY SMTT(60), <1>1 DEF Told
<1>4. \A i \in 1 .. Len(o) : i \in 1 .. Len(out) \/ i = Len(out) + 1
  BY SMTT(60), <1>1, <1>2
<1>5. \A i \in 1 .. Len(o) : o[i] = Len(printed) + i
  BY <1>2, <1>3, <1>4
<1>6. Told(printed, o) = Told(printed, out) + 1
  BY SMTT(60), <1>1, <1>2 DEF Told
<1> QED
  BY <1>5, <1>6 DEF o

\* Submit: the line of the call is answered.
LEMMA NumberedAnswer ==
    ASSUME NEW cmd, NEW printed \in Seq(Nat), NEW out \in Seq(Nat), NEW call,
           NEW chan \in Seq(Items), NEW read \in Nat, call # NoCall,
           Numbered(cmd, printed, out, call, chan, read)
    PROVE  Numbered(cmd, printed, Append(out, call.item.ix), NoCall, chan, read)
<1> DEFINE t == Told(printed, out)
           o == Append(out, call.item.ix)
<1>1. t \in Nat /\ Flight(NoCall) = 0 /\ Flight(call) = 1 /\ Len(chan) \in Nat
  BY SMTT(60), ToldTypes DEF Flight
<1>2. call.item.ix = t + 1 /\ \A i \in 1 .. Len(out) : out[i] = Len(printed) + i
  BY DEF Numbered
<1>3. Told(printed, o) = t + 1 /\ \A i \in 1 .. Len(o) : o[i] = Len(printed) + i
  BY SMTT(60), <1>2, OneMoreTold
<1> HIDE DEF t, o
<1>4. \A i \in 1 .. Len(chan) : chan[i].ix = t + 1 + i
  BY <1>1 DEF Numbered, t
<1>5. read = t + 1 + Len(chan)
  BY <1>1 DEF Numbered, t
<1>6. (t + 1) + 0 = t + 1
  BY SMTT(60), <1>1
<1> QED
  BY <1>1, <1>3, <1>4, <1>5, <1>6 DEF Numbered, o

\* Transfer: the first line of the channel is answered.
LEMMA NumberedTransfer ==
    ASSUME NEW cmd, NEW printed \in Seq(Nat), NEW out \in Seq(Nat),
           NEW chan \in Seq(Items), NEW read \in Nat, chan # <<>>,
           Numbered(cmd, printed, out, NoCall, chan, read)
    PROVE  Numbered(cmd, printed, Append(out, Head(chan).ix), NoCall, Tail(chan), read)
<1> DEFINE t == Told(printed, out)
           o == Append(out, Head(chan).ix)
           c == Tail(chan)
<1>1. t \in Nat /\ Flight(NoCall) = 0
  BY ToldTypes DEF Flight
<1>2. read = t + Len(chan) /\ \A i \in 1 .. Len(chan) : chan[i].ix = t + i
  BY SMTT(60), <1>1 DEF Numbered
<1>3. /\ Len(c) = Len(chan) - 1 /\ Head(chan) = chan[1] /\ 1 \in 1 .. Len(chan)
      /\ \A i \in 1 .. Len(c) : i + 1 \in 1 .. Len(chan) /\ c[i] = chan[i + 1]
      /\ Len(chan) \in Nat
  BY SMTT(60)
<1>4. Head(chan).ix = t + 1
  BY <1>2, <1>3
<1>5. Told(printed, o) = t + 1 /\ \A i \in 1 .. Len(o) : o[i] = Len(printed) + i
  <2>1. \A i \in 1 .. Len(out) : out[i] = Len(printed) + i
    BY DEF Numbered
  <2> QED
    BY SMTT(60), <1>4, <2>1, OneMoreTold
<1> HIDE DEF t, c, o
<1>6. \A i \in 1 .. Len(c) : c[i].ix = t + 1 + 0 + i
  <2> TAKE i \in 1 .. Len(c)
  <2>1. c[i].ix = t + (i + 1)
    BY <1>2, <1>3
  <2> QED
    BY SMTT(60), <1>1, <2>1
<1>7. read = t + 1 + 0 + Len(c)
  BY SMTT(60), <1>1, <1>2, <1>3
<1> QED
  BY <1>1, <1>5, <1>6, <1>7 DEF Numbered, o, c

\* Flush and Finish: what is printed follows what was.
LEMMA NumberedPrinted ==
    ASSUME NEW cmd, NEW printed \in Seq(Nat), NEW out \in Seq(Nat), NEW call,
           NEW chan, NEW read, Numbered(cmd, printed, out, call, chan, read)
    PROVE  /\ printed \o out \in Seq(Nat) /\ Len(printed \o out) = Told(printed, out)
           /\ \A i \in 1 .. Told(printed, out) : (printed \o out)[i] = i
<1>1. Len(printed) \in Nat /\ Len(out) \in Nat
  BY ToldTypes
<1>2. /\ printed \o out \in Seq(Nat) /\ Len(printed \o out) = Len(printed) + Len(out)
      /\ \A i \in 1 .. Len(printed) + Len(out) : (printed \o out)[i] =
             IF i <= Len(printed) THEN printed[i] ELSE out[i - Len(printed)]
  BY SMTT(60)
<1>3. ASSUME NEW i \in 1 .. Len(printed) + Len(out)
      PROVE  (printed \o out)[i] = i
  <2>1. CASE i <= Len(printed)
    BY SMTT(60), <1>1, <1>2, <2>1 DEF Numbered
  <2>2. CASE ~(i <= Len(printed))
    <3>1. i - Len(printed) \in 1 .. Len(out) /\ Len(printed) + (i - Len(printed)) = i
      BY SMTT(60), <1>1, <2>2
    <3>2. out[i - Len(printed)] = Len(printed) + (i - Len(printed))
      BY <3>1 DEF Numbered
    <3> QED
      BY <1>2, <2>2, <3>1, <3>2
  <2> QED
    BY <2>1, <2>2
<1> QED
  BY <1>2, <1>3 DEF Told

\* Moving the buffered answers to the output keeps their numbering.
LEMMA NumberedFlush ==
    ASSUME NEW cmd, NEW printed \in Seq(Nat), NEW out \in Seq(Nat), NEW call,
           NEW chan, NEW read, Numbered(cmd, printed, out, call, chan, read)
    PROVE  Numbered(cmd, printed \o out, <<>>, call, chan, read)
<1> DEFINE t == Told(printed, out)
           o == printed \o out
<1>1. Len(o) = t /\ \A i \in 1 .. t : o[i] = i
  BY NumberedPrinted
<1>2. t \in Nat /\ Len(<<>>) = 0
  BY ToldTypes
<1> HIDE DEF t, o
<1>3. Told(o, <<>>) = t
  BY SMTT(60), <1>1, <1>2 DEF Told
<1>4. /\ call # NoCall => cmd \in OnChain /\ call.item.ix = t + 1
      /\ \A i \in 1 .. Len(chan) : chan[i].ix = t + Flight(call) + i
      /\ read = t + Flight(call) + Len(chan)
  BY DEF Numbered, t
<1>5. \A i \in 1 .. Len(<<>>) : <<>>[i] = Len(o) + i
  BY SMTT(60), <1>2
<1> QED
  BY <1>1, <1>3, <1>4, <1>5 DEF Numbered, o

\* With nothing left to answer, the output is the answers to all lines read.
LEMMA NumberedFinish ==
    ASSUME NEW cmd, NEW printed \in Seq(Nat), NEW out \in Seq(Nat), NEW read \in Nat,
           Numbered(cmd, printed, out, NoCall, <<>>, read)
    PROVE  printed \o out = [i \in 1 .. read |-> i]
<1> DEFINE o == printed \o out
<1>1. /\ o \in Seq(Nat) /\ Len(o) = Told(printed, out)
      /\ \A i \in 1 .. Told(printed, out) : o[i] = i
  BY NumberedPrinted
<1>2. Told(printed, out) \in Nat /\ Flight(NoCall) = 0 /\ Len(<<>>) = 0
  BY ToldTypes DEF Flight
<1>3. read = Told(printed, out)
  BY SMTT(60), <1>2 DEF Numbered
<1> HIDE DEF o
<1>4. o = [i \in 1 .. Len(o) |-> o[i]]
  BY SMTT(60), <1>1
<1>5. o = [i \in 1 .. read |-> i]
  BY <1>1, <1>3, <1>4
<1> QED
  BY <1>5 DEF o

\* Commands that do not move keep what they hold.
LEMMA OthersAnswer ==
    ASSUME NEW p \in Procs, Others(p), \A q \in Procs : AnswersOK(q), AnswersOK(p)'
    PROVE  \A q \in Procs : AnswersOK(q)'
BY DEF Others, AnswersOK

\* A command that ends with an error promises nothing more.
LEMMA ExitAnswers ==
    ASSUME WTypes, NEW p \in Procs, Exit(p, "err")
    PROVE  AnswersOK(p)' /\ Others(p)
<1>1. Becomes(p, io[p].chan, io[p].call, io[p].read, io[p].out, io[p].printed, "err")
  BY ExitDoes
<1> QED
  BY <1>1 DEF Becomes, AnswersOK

\* What the steps of a command do to its answers, one step after the other.
LEMMA SetupAnswers ==
    ASSUME WTypes, NEW p \in Procs, AnswersOK(p), Setup(p)
    PROVE  AnswersOK(p)' /\ Others(p)
<1>1. CASE Exit(p, "err")
  BY <1>1, ExitAnswers
<1>2. CASE io' = [io EXCEPT ![p].st = "running", ![p].reader = "reading"]
  <2>1. Becomes(p, io[p].chan, io[p].call, io[p].read, io[p].out, io[p].printed, "running")
    BY <1>2, SetupDoes
  <2> QED
    BY <2>1 DEF Becomes, AnswersOK, Setup
<1> QED
  BY <1>1, <1>2 DEF Setup

\* A line read is the next one to answer.
LEMMA ReadLineAnswers ==
    ASSUME WTypes, NEW p \in Procs, AnswersOK(p), ReadLine(p)
    PROVE  AnswersOK(p)' /\ Others(p)
<1>1. PICK new \in Items :
          /\ new.ix = io[p].read + 1
          /\ Becomes(p, Append(io[p].chan, new), io[p].call, io[p].read + 1,
                     io[p].out, io[p].printed, io[p].st)
  BY ReadLineDoes
<1>2. /\ io[p].printed \in Seq(Nat) /\ io[p].out \in Seq(Nat) /\ io[p].chan \in Seq(Items)
      /\ io[p].read \in Nat /\ io[p].st = "running"
  BY Fields DEF ReadLine, Running
<1>3. ASSUME io[p].cmd \notin Feeding
      PROVE  Numbered(io[p].cmd, io[p].printed, io[p].out, io[p].call,
                      Append(io[p].chan, new), io[p].read + 1)
  <2>1. Numbered(io[p].cmd, io[p].printed, io[p].out, io[p].call, io[p].chan, io[p].read)
    BY <1>2, <1>3 DEF AnswersOK
  <2> QED
    BY <1>1, <1>2, <2>1, NumberedRead
<1> QED
  BY <1>1, <1>2, <1>3 DEF Becomes, AnswersOK

\* The end of the input leaves the answers as they are.
LEMMA StopReadingAnswers ==
    ASSUME WTypes, NEW p \in Procs, AnswersOK(p), StopReading(p)
    PROVE  AnswersOK(p)' /\ Others(p)
<1>1. PICK st :
          /\ io[p].cmd \notin Feeding => st = io[p].st
          /\ Becomes(p, io[p].chan, io[p].call, io[p].read, io[p].out, io[p].printed, st)
  BY StopReadingDoes
<1> QED
  BY <1>1 DEF Becomes, AnswersOK

\* A feeding command answers nothing.
LEMMA PublishAnswers ==
    ASSUME WTypes, NEW p \in Procs, Publish(p)
    PROVE  AnswersOK(p)' /\ Others(p)
<1>1. Becomes(p, Tail(io[p].chan), io[p].call, io[p].read, io[p].out, io[p].printed, io[p].st)
  BY PublishDoes
<1> QED
  BY <1>1 DEF Becomes, AnswersOK, Publish

\* The call takes the oldest unanswered line.
LEMMA ConnectAnswers ==
    ASSUME WTypes, NEW p \in Procs, AnswersOK(p), Connect(p)
    PROVE  AnswersOK(p)' /\ Others(p)
<1>1. PICK call \in Txs :
          /\ call.item = Head(io[p].chan)
          /\ Becomes(p, Tail(io[p].chan), call, io[p].read, io[p].out, io[p].printed, io[p].st)
  BY ConnectDoes
<1>2. call # NoCall
  BY IoWriteAssumption DEF Txs, Items
<1>3. /\ io[p].printed \in Seq(Nat) /\ io[p].out \in Seq(Nat) /\ io[p].chan \in Seq(Items)
      /\ io[p].read \in Nat
  BY Fields
<1>4. /\ io[p].st = "running" /\ io[p].cmd \in OnChain /\ io[p].call = NoCall
      /\ io[p].chan # <<>> /\ io[p].cmd \notin Feeding
  BY DEF Connect, Running, OnChain, Feeding
<1>5. Numbered(io[p].cmd, io[p].printed, io[p].out, NoCall, io[p].chan, io[p].read)
  BY <1>4 DEF AnswersOK
<1>6. Numbered(io[p].cmd, io[p].printed, io[p].out, call, Tail(io[p].chan), io[p].read)
  BY <1>1, <1>2, <1>3, <1>4, <1>5, NumberedConnect
<1> QED
  BY <1>1, <1>4, <1>6 DEF Becomes, AnswersOK

\* The answer of a submission is the next one.
LEMMA SubmitAnswers ==
    ASSUME WTypes, NEW p \in Procs, AnswersOK(p), Submit(p)
    PROVE  AnswersOK(p)' /\ Others(p)
<1>1. Becomes(p, io[p].chan, NoCall, io[p].read,
              Append(io[p].out, io[p].call.item.ix), io[p].printed, io[p].st)
  BY SubmitDoes
<1>2. /\ io[p].printed \in Seq(Nat) /\ io[p].out \in Seq(Nat) /\ io[p].chan \in Seq(Items)
      /\ io[p].read \in Nat /\ io[p].st = "running" /\ io[p].call # NoCall
  BY Fields DEF Submit, Running
<1>3. ASSUME io[p].cmd \notin Feeding
      PROVE  Numbered(io[p].cmd, io[p].printed, Append(io[p].out, io[p].call.item.ix), NoCall,
                      io[p].chan, io[p].read)
  <2>1. Numbered(io[p].cmd, io[p].printed, io[p].out, io[p].call, io[p].chan, io[p].read)
    BY <1>2, <1>3 DEF AnswersOK
  <2> QED
    BY <1>2, <2>1, NumberedAnswer
<1> QED
  BY <1>1, <1>2, <1>3 DEF Becomes, AnswersOK

\* So is the answer of a transfer to or from IPFS.
LEMMA TransferAnswers ==
    ASSUME WTypes, NEW p \in Procs, AnswersOK(p), Transfer(p)
    PROVE  AnswersOK(p)' /\ Others(p)
<1>0. CASE Exit(p, "err")
  BY <1>0, ExitAnswers
<1>1. CASE io' = [io EXCEPT ![p].chan = Tail(@), ![p].out = Append(@, Head(io[p].chan).ix)]
  <2>1. Becomes(p, Tail(io[p].chan), io[p].call, io[p].read,
                Append(io[p].out, Head(io[p].chan).ix), io[p].printed, io[p].st)
    BY <1>1, TransferDoes DEF Transfer
  <2>2. /\ io[p].printed \in Seq(Nat) /\ io[p].out \in Seq(Nat) /\ io[p].chan \in Seq(Items)
        /\ io[p].read \in Nat
    BY Fields
  <2>3. /\ io[p].st = "running" /\ io[p].cmd \notin OnChain
        /\ io[p].chan # <<>> /\ io[p].cmd \notin Feeding
    BY DEF Transfer, Running, OnChain, Feeding, Blocking
  <2>4. Numbered(io[p].cmd, io[p].printed, io[p].out, io[p].call, io[p].chan, io[p].read)
    BY <2>3 DEF AnswersOK
  <2>5. io[p].call = NoCall
    BY <2>3, <2>4 DEF Numbered
  <2>6. Numbered(io[p].cmd, io[p].printed, Append(io[p].out, Head(io[p].chan).ix), NoCall,
                 Tail(io[p].chan), io[p].read)
    BY <2>2, <2>3, <2>4, <2>5, NumberedTransfer
  <2> QED
    BY <2>1, <2>3, <2>5, <2>6 DEF Becomes, AnswersOK
<1> QED
  BY <1>0, <1>1 DEF Transfer

\* Flushing keeps the answers of the process in order.
LEMMA FlushAnswers ==
    ASSUME WTypes, NEW p \in Procs, AnswersOK(p), Flush(p)
    PROVE  AnswersOK(p)' /\ Others(p)
<1>0. CASE Exit(p, "err")
  BY <1>0, ExitAnswers
<1>1. CASE io' = [io EXCEPT ![p].printed = @ \o io[p].out, ![p].out = <<>>]
  <2>1. Becomes(p, io[p].chan, io[p].call, io[p].read, <<>>, io[p].printed \o io[p].out,
                io[p].st)
    BY <1>1, FlushDoes
  <2>2. io[p].printed \in Seq(Nat) /\ io[p].out \in Seq(Nat) /\ io[p].st = "running"
    BY Fields DEF Flush, Running
  <2>3. ASSUME io[p].cmd \notin Feeding
        PROVE  Numbered(io[p].cmd, io[p].printed \o io[p].out, <<>>, io[p].call, io[p].chan,
                        io[p].read)
    <3>1. Numbered(io[p].cmd, io[p].printed, io[p].out, io[p].call, io[p].chan, io[p].read)
      BY <2>2, <2>3 DEF AnswersOK
    <3> QED
      BY <2>2, <3>1, NumberedFlush
  <2> QED
    BY <2>1, <2>2, <2>3 DEF Becomes, AnswersOK
<1> QED
  BY <1>0, <1>1 DEF Flush

\* The command that ends with success has printed every answer.
LEMMA FinishAnswers ==
    ASSUME WTypes, NEW p \in Procs, AnswersOK(p), Finish(p)
    PROVE  AnswersOK(p)' /\ Others(p)
<1>0. CASE Exit(p, "err")
  BY <1>0, ExitAnswers
<1>1. CASE io' = [io EXCEPT ![p].printed = @ \o io[p].out, ![p].out = <<>>, ![p].st = "ok"]
  <2>1. Becomes(p, io[p].chan, io[p].call, io[p].read, <<>>, io[p].printed \o io[p].out, "ok")
    BY <1>1, FinishDoes
  <2>2. PICK printed \in Seq(Nat), out \in Seq(Nat), read \in Nat :
            printed = io[p].printed /\ out = io[p].out /\ read = io[p].read
    BY Fields
  <2>3. /\ io[p].st = "running" /\ io[p].cmd \notin Feeding /\ io[p].chan = <<>>
        /\ io[p].call = NoCall
    BY DEF Finish, Running
  <2>4. Numbered(io[p].cmd, printed, out, NoCall, <<>>, read)
    BY <2>2, <2>3 DEF AnswersOK
  <2>5. printed \o out = [i \in 1 .. read |-> i]
    BY <2>4, NumberedFinish
  <2> QED
    BY <2>1, <2>2, <2>5 DEF Becomes, AnswersOK
<1> QED
  BY <1>0, <1>1 DEF Finish

\* A command that ends with success has printed one answer for every line it read,
\* in the order of the lines: whatever is in flight or buffered belongs to the lines
\* after those printed, and forward ends only when nothing is.
THEOREM SuccessAnswered == WSpec => []SuccessAnswersAll
<1> DEFINE Inv == WInv /\ \A p \in Procs : AnswersOK(p)
<1>1. WInit => Inv
  <2> SUFFICES ASSUME WInit, NEW p \in Procs PROVE AnswersOK(p)
    BY WInvInit
  <2>1. /\ io[p].st = "new" /\ io[p].chan = <<>> /\ io[p].call = NoCall
        /\ io[p].out = <<>> /\ io[p].printed = <<>> /\ io[p].read = 0
    BY DEF WInit
  <2>2. Len(<<>>) = 0 /\ Flight(NoCall) = 0 /\ Told(<<>>, <<>>) = 0
    BY SMTT(60) DEF Flight, Told
  <2>3. Numbered(io[p].cmd, <<>>, <<>>, NoCall, <<>>, 0)
    BY SMTT(60), <2>2 DEF Numbered
  <2> QED
    BY <2>1, <2>3 DEF AnswersOK
<1>2. Inv /\ [WNext]_wvars => Inv'
  <2> SUFFICES ASSUME Inv, [WNext]_wvars PROVE \A p \in Procs : AnswersOK(p)'
    BY WInvStep
  <2>1. CASE UNCHANGED io
    BY <2>1 DEF AnswersOK
  <2>2. ASSUME NEW p \in Procs, Step(p) PROVE \A q \in Procs : AnswersOK(q)'
    <3>0. WTypes
      BY DEF WInv
    <3>1. AnswersOK(p)' /\ Others(p)
      <4>1. CASE SubmitFails(p)
        BY <3>0, <4>1, ExitAnswers DEF SubmitFails
      <4> QED
        BY <2>2, <3>0, <4>1, SetupAnswers, ReadLineAnswers, StopReadingAnswers,
           PublishAnswers,
           ConnectAnswers, SubmitAnswers, TransferAnswers, FlushAnswers, FinishAnswers DEF Step
    <3> QED
      BY <3>1, OthersAnswer
  <2> QED
    BY <2>1, <2>2 DEF WNext, MakeBlock, wvars
<1>3. Inv => SuccessAnswersAll
  BY DEF AnswersOK, SuccessAnswersAll
<1> QED
  BY <1>1, <1>2, <1>3, PTL DEF WSpec

=============================================================================
