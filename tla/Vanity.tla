------------------------------- MODULE Vanity -------------------------------
(***************************************************************************)
(* The vanity generator of subkey (bin/subkey/src/vanity.rs): seeds are    *)
(* tried until the address of one shows the desired pattern near its       *)
(* start.  Texts are sequences of characters; a seed is its bytes, least   *)
(* significant first; the derivation of an address from a seed (external)  *)
(* is an arbitrary function.                                               *)
(***************************************************************************)
EXTENDS Naturals, Sequences, FiniteSetsExt

CONSTANTS
    Patterns,   \* the patterns asked for
    Base58,     \* the characters validate_base58 allows: letters and digits
    Wide,       \* those of them outside ASCII, which take several bytes
    Digits,     \* values of a byte of the seed (256)
    SeedLen,    \* bytes of a seed (32)
    Address,    \* [seeds -> addresses]
    AddressLen, \* the length of an address (48); some are one shorter
    Batch,      \* seeds counted up before the next random one (100000)
    MaxDone     \* bound: seeds tried

Seeds == [1 .. SeedLen -> 0 .. Digits - 1]

\* A text has a length and a character at each of its places.
IsText(t) == Len(t) \in Nat /\ t = [i \in 1 .. Len(t) |-> t[i]]

ASSUME VanityAssumption ==
    /\ AddressLen \in Nat /\ AddressLen >= 3
    /\ \A p \in Patterns : IsText(p)
    /\ \A s \in Seeds : IsText(Address[s]) /\ \A i \in DOMAIN Address[s] : Address[s][i] \notin Wide

VARIABLES desired, state, seed, done, best, tried

yvars == <<desired, state, seed, done, best, tried>>

VanityInit ==
    /\ desired \in Patterns
    /\ state = "start"
    /\ seed = [i \in 1 .. SeedLen |-> 0]
    /\ done = 0
    /\ best = 0
    /\ tried = <<>>  \* the seeds tried since the last random one

-----------------------------------------------------------------------------
\* key.find: the positions, from 0, at which the pattern occurs.
Occurrences(pattern, key) ==
    {i \in 0 .. Len(key) - Len(pattern) :
        SubSeq(key, i + 1, i + Len(pattern)) = pattern}

\* The lengths to which the pattern may be truncated so that it occurs.
Matched(pattern, key) ==
    {n \in 1 .. Len(pattern) : Occurrences(SubSeq(pattern, 1, n), key) # {}}

\* calculate_score: the longest truncation that occurs, and where it does so
\* first.
CalculateScore(pattern, key) ==
    IF Matched(pattern, key) = {} THEN 0
    ELSE LET n == Max(Matched(pattern, key))
         IN  (AddressLen - 1 - Min(Occurrences(SubSeq(pattern, 1, n), key)))
                 + n * AddressLen

\* next_seed: full bytes are cleared up to the first that is not full.
NextSeed(s) ==
    [i \in 1 .. SeedLen |->
        IF \A j \in 1 .. i - 1 : s[j] = Digits - 1 THEN (s[i] + 1) % Digits ELSE s[i]]

\* Mutant: the pattern may begin anywhere.
TopLow == Len(desired) * AddressLen

\* The score at which the search ends.
Top == (AddressLen - 3) + Len(desired) * AddressLen

-----------------------------------------------------------------------------
\* An empty pattern, or a character no address has, is refused.
Refuse ==
    /\ state = "start"
    /\ desired = <<>> \/ \E i \in 1 .. Len(desired) : desired[i] \notin Base58
    /\ state' = "error"
    /\ UNCHANGED <<desired, seed, done, best, tried>>

Accept ==
    /\ state = "start"
    /\ desired # <<>> /\ \A i \in 1 .. Len(desired) : desired[i] \in Base58
    /\ state' = "search"
    /\ UNCHANGED <<desired, seed, done, best, tried>>

HasWide == \E i \in 1 .. Len(desired) : desired[i] \in Wide

\* is_alphanumeric lets the letters of any script pass, and no address has such
\* a letter: calculate_score, which truncates by the byte, cuts one in two and
\* panics on the first key.
SplitWide ==
    /\ state = "search" /\ HasWide
    /\ state' = "panic"
    /\ UNCHANGED <<desired, seed, done, best, tried>>

\* One turn of the loop: a random seed at the start of a batch, the next one
\* otherwise.  A pattern of one character takes every score for the best.
Try(s) ==
    /\ state = "search" /\ ~HasWide
    /\ done < MaxDone
    /\ IF done % Batch = 0
       THEN tried' = <<s>>
       ELSE s = NextSeed(seed) /\ tried' = Append(tried, s)
    /\ seed' = s
    /\ LET score == CalculateScore(desired, Address[s])
           taken == score > best \/ Len(desired) < 2
       IN  /\ best' = IF taken THEN score ELSE best
           /\ state' = IF taken /\ score >= Top THEN "found" ELSE "search"
    /\ done' = IF state' = "found" THEN done ELSE done + 1
    /\ UNCHANGED desired

VanityNext == Refuse \/ Accept \/ SplitWide \/ \E s \in Seeds : Try(s)

VanitySpec == VanityInit /\ [][VanityNext]_yvars

-----------------------------------------------------------------------------
\* The pattern begins at one of the first three characters of the address.
Shows(s) == \E i \in 0 .. 2 : i \in Occurrences(desired, Address[s])

\* The search ends at the first seed tried whose address shows the whole
\* pattern at its start, and at no other (generate_key compares one number
\* with `top`; README: "an address which includes the desired pattern").
FoundShowsPattern ==
    /\ state = "found" => Shows(seed)
    /\ state = "search" => \A i \in 1 .. Len(tried) : ~Shows(tried[i])

=============================================================================
