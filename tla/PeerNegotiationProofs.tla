------------------------ MODULE PeerNegotiationProofs ------------------------
(***************************************************************************)
(* What the two ends of a session keep while they negotiate, for any       *)
(* number of candidates and any end in a browser.                          *)
(*                                                                         *)
(* StoreInv follows what an end announces through its queue, the post that *)
(* is under way and the store; TakenInv follows it from there to the other *)
(* end; PeerAt says what a peer connection holds once it was given the     *)
(* first k payloads of the other end.  A batch is accepted payload by      *)
(* payload, so PeerAt needs an induction over the batch.                   *)
(***************************************************************************)
EXTENDS PeerNegotiation, Integers, SequenceTheorems, WellFoundedInduction, TLAPS

n == Len(Candidates)
Payloads == Range(Candidates) \cup {"offer", "answer", "end-of-candidates"}

Operations == {"create", "set", "remote", "flush"}

PeerRecords ==
    [ops : Seq(Operations), pending : Seq(Payloads),
     local : BOOLEAN, remote : BOOLEAN, said : Nat, applied : Seq(Payloads), up : BOOLEAN]

Signals == [seq : Nat, payload : Payloads]

Early == {"idle", "creating", "waiting", "preparing"}

Shape ==
    /\ session \in [Ends -> {"none", "open", "closed"}]
    /\ attempt \in [Ends -> Early \cup {"negotiating", "handshaking", "resolved",
                                        "rejected"}]
    /\ armed \subseteq Ends
    /\ queue \in [Ends -> Seq(Payloads)]
    /\ posting \in [Ends -> Seq(Signals)]
    /\ sequence \in [Ends -> Nat]
    /\ store \in [Ends -> Seq(Signals)]
    /\ cursor \in [Ends -> Nat]
    /\ batch \in [Ends -> Nat]
    /\ taken \in [Ends -> Seq(Payloads)]
    /\ peer \in [Ends -> PeerRecords]
    /\ channels \in [Ends -> SUBSET Labels]
    /\ opened \in [Ends -> SUBSET Labels]
    /\ handed \in [Ends -> Nat]

\* A session starts once, with a connection nobody used; a deadline is an open one's.
SessionInv(e) ==
    /\ attempt[e] \in Early => session[e] = "none"
    /\ session[e] = "none" =>
          /\ peer[e] = NewPeer /\ queue[e] = <<>> /\ posting[e] = <<>>
          /\ sequence[e] = 0 /\ store[e] = <<>>
          /\ cursor[e] = 0 /\ batch[e] = 0 /\ taken[e] = <<>>
    /\ e \in armed => Open(e)

\* How many of the first k payloads of an end are candidates.
CandidatesOf(k) == IF k =< 1 THEN 0 ELSE IF k =< n + 1 THEN k - 1 ELSE n

\* What the connection of an end holds that was given k payloads of the other: the
\* candidates of them, applied or waiting, and nothing of them before its description.
Counted(applied, pending, k) == Len(applied) + Len(pending) = CandidatesOf(k)
InOrder(applied) == \A i \in 1..Len(applied) : applied[i] = Candidates[i]
NextInOrder(applied, pending) ==
    \A i \in 1..Len(pending) : pending[i] = Candidates[Len(applied) + i]
Described(p) == p.applied # <<>> => p.remote = TRUE
AtOnce(p, k) == p.pending = <<>> /\ p.ops = <<>> /\ (k >= 1 => p.remote = TRUE)

\* Only the first operation may create the description; nothing is said before.
BehindCreation(ops) == \A i \in 2..Len(ops) : ops[i] \in {"remote", "flush"}
Creating(ops, local) == ops # <<>> /\ ops[1] \in {"create", "set"} => local = FALSE
Said(p) == p.said =< n + 2 /\ (p.local = FALSE => p.said = 0)

PeerAt(e, p, k) ==
    /\ Counted(p.applied, p.pending, k)
    /\ InOrder(p.applied) /\ NextInOrder(p.applied, p.pending)
    /\ Described(p) /\ (e \notin BrowserEnds => AtOnce(p, k))
    /\ BehindCreation(p.ops) /\ Creating(p.ops, p.local) /\ Said(p)

\* What is left of it when the session is closed.
PeerInv(e) ==
    /\ session[e] # "closed" => PeerAt(e, peer[e], Len(taken[e]))
    /\ Len(peer[e].applied) =< n
    /\ InOrder(peer[e].applied) /\ Described(peer[e])

Stored(e, i) == [seq |-> i, payload |-> Script(e)[i]]

\* From the announcement to the store.
StoreInv(e) ==
    /\ \A i \in 1..Len(store[e]) : store[e][i] = Stored(e, i)
    /\ sequence[e] =< n + 2
    /\ \/ posting[e] = <<>> /\ Len(store[e]) =< sequence[e]
       \/ /\ posting[e] = <<Stored(e, sequence[e])>>
          /\ Len(store[e]) + 1 = sequence[e]
    /\ session[e] # "closed" =>
          /\ posting[e] = <<>> => Len(store[e]) = sequence[e]
          /\ sequence[e] + Len(queue[e]) = peer[e].said
          /\ \A i \in 1..Len(queue[e]) : queue[e][i] = Script(e)[sequence[e] + i]

\* From the store to the other end.
TakenInv(e) ==
    /\ cursor[e] =< Len(store[Other(e)])
    /\ batch[e] # 0 => cursor[e] < batch[e] /\ batch[e] =< Len(store[Other(e)])
    /\ Len(taken[e]) =< cursor[e]
    /\ session[e] # "closed" => Len(taken[e]) = cursor[e]
    /\ \A i \in 1..Len(taken[e]) : taken[e][i] = Script(Other(e))[i]

EndInv(e) == SessionInv(e) /\ PeerInv(e) /\ StoreInv(e) /\ TakenInv(e)

IInv == Shape /\ \A e \in Ends : EndInv(e)

-----------------------------------------------------------------------------
(* What an end announces.                                                  *)

LEMMA CandidateIs ==
  /\ n \in Nat \ {0} /\ Candidates \in Seq(Payloads)
  /\ \A i \in 1..n : Candidates[i] \in Payloads /\ IsCandidate(Candidates[i])
  /\ ~IsCandidate("offer") /\ ~IsCandidate("answer") /\ ~IsCandidate("end-of-candidates")
  <1>1. Candidates \in Seq(STRING) /\ Candidates # <<>>
    BY NegotiationAssumption DEF NegotiationAssumption
  <1>2. n \in Nat \ {0} /\ DOMAIN Candidates = 1..n
    BY <1>1 DEF n
  <1>3. \A i \in 1..n : Candidates[i] \in Range(Candidates)
    BY <1>2 DEF Range
  <1>4. Candidates \in Seq(Payloads)
    <2>1. Candidates = [i \in 1..n |-> Candidates[i]]
      BY <1>1, <1>2
    <2> QED BY <1>2, <1>3, <2>1 DEF Payloads
  <1>5. ~IsCandidate("offer") /\ ~IsCandidate("answer") /\ ~IsCandidate("end-of-candidates")
    BY NegotiationAssumption DEF NegotiationAssumption, IsCandidate
  <1> QED BY <1>2, <1>3, <1>4, <1>5 DEF Payloads, IsCandidate

LEMMA SingleIs ==
  ASSUME NEW S, NEW x \in S
  PROVE  <<x>> \in Seq(S) /\ Len(<<x>>) = 1 /\ <<x>>[1] = x
  OBVIOUS

LEMMA ScriptIs ==
  ASSUME NEW e \in Ends
  PROVE  /\ Script(e) \in Seq(Payloads) /\ Len(Script(e)) = n + 2
         /\ Script(e)[1] = Description(e) /\ Script(e)[n + 2] = "end-of-candidates"
         /\ \A i \in 1..n : Script(e)[i + 1] = Candidates[i]
         /\ \A i \in 1..n + 2 : Script(e)[i] \in Payloads
  <1> DEFINE d == <<Description(e)>>
             c == <<"end-of-candidates">>
             dc == d \o Candidates
             s == dc \o c
  <1>1. Candidates \in Seq(Payloads) /\ Len(Candidates) = n /\ n \in Nat
    BY CandidateIs DEF n
  <1>2. d \in Seq(Payloads) /\ Len(d) = 1 /\ d[1] = Description(e)
    BY SingleIs DEF Description, Payloads
  <1>3. c \in Seq(Payloads) /\ Len(c) = 1 /\ c[1] = "end-of-candidates"
    BY SingleIs DEF Payloads
  <1>4. Script(e) = s
    BY DEF Script
  <1> HIDE DEF d, c, n
  <1>5. /\ dc \in Seq(Payloads) /\ Len(dc) = Len(d) + Len(Candidates)
        /\ \A i \in 1..Len(d) + Len(Candidates) :
              dc[i] = IF i =< Len(d) THEN d[i] ELSE Candidates[i - Len(d)]
    BY <1>1, <1>2, ConcatProperties
  <1> HIDE DEF dc
  <1>6. /\ s \in Seq(Payloads) /\ Len(s) = Len(dc) + Len(c)
        /\ \A i \in 1..Len(dc) + Len(c) :
              s[i] = IF i =< Len(dc) THEN dc[i] ELSE c[i - Len(dc)]
    <2>1. dc \in Seq(Payloads)
      BY <1>5
    <2>2. c \in Seq(Payloads)
      BY <1>3
    <2> QED BY <2>1, <2>2, ConcatProperties
  <1> HIDE DEF s
  <1>7. Len(dc) = n + 1 /\ Len(s) = n + 2
    BY <1>1, <1>2, <1>3, <1>5, <1>6
  <1>8. \A i \in 1..n + 1 : dc[i] = IF i =< 1 THEN d[i] ELSE Candidates[i - 1]
    BY <1>1, <1>2, <1>5
  <1>9. \A i \in 1..n + 2 : s[i] = IF i =< n + 1 THEN dc[i] ELSE c[i - (n + 1)]
    BY <1>1, <1>3, <1>6, <1>7
  <1>10. s[1] = Description(e) /\ s[n + 2] = "end-of-candidates"
    BY <1>1, <1>2, <1>3, <1>8, <1>9
  <1>11. ASSUME NEW i \in 1..n
         PROVE  s[i + 1] = Candidates[i]
    <2>1. /\ i + 1 \in 1..n + 1 /\ i + 1 \in 1..n + 2
          /\ ~(i + 1 =< 1) /\ i + 1 =< n + 1 /\ (i + 1) - 1 = i
      BY <1>1
    <2>2. s[i + 1] = dc[i + 1]
      BY <1>9, <2>1
    <2>3. dc[i + 1] = Candidates[(i + 1) - 1]
      BY <1>8, <2>1
    <2> QED BY <2>1, <2>2, <2>3
  <1>12. \A i \in 1..n + 2 : s[i] \in Payloads
    BY <1>6, <1>7, ElementOfSeq
  <1> QED BY <1>4, <1>6, <1>7, <1>10, <1>11, <1>12

-----------------------------------------------------------------------------
(* Candidates that wait and candidates that are applied.                   *)

LEMMA AppendIs ==
  ASSUME NEW S, NEW s \in Seq(S), NEW x \in S
  PROVE  /\ Append(s, x) \in Seq(S) /\ Len(Append(s, x)) = Len(s) + 1
         /\ Append(s, x)[Len(s) + 1] = x /\ Append(s, x) # <<>>
         /\ \A i \in 1..Len(s) : Append(s, x)[i] = s[i]
         /\ Len(s) \in Nat
  BY AppendProperties

LEMMA NoneYet ==
  ASSUME NEW a \in Seq(Payloads), NEW w \in Seq(Payloads), Counted(a, w, 0)
  PROVE  a = <<>> /\ w = <<>> /\ Counted(a, w, 1)
  <1>1. Len(a) \in Nat /\ Len(w) \in Nat
    OBVIOUS
  <1>2. CandidatesOf(0) = 0 /\ CandidatesOf(1) = 0
    BY DEF CandidatesOf
  <1>3. Len(a) + Len(w) = 0
    BY <1>2 DEF Counted
  <1>4. Len(a) = 0 /\ Len(w) = 0
    BY <1>1, <1>3
  <1> QED BY <1>2, <1>4 DEF Counted

LEMMA AtMostAll ==
  ASSUME NEW a \in Seq(Payloads), NEW w \in Seq(Payloads), NEW k \in Nat, Counted(a, w, k)
  PROVE  Len(a) =< n
  <1>1. n \in Nat /\ Len(a) \in Nat /\ Len(w) \in Nat
    BY CandidateIs
  <1>2. CandidatesOf(k) \in Nat /\ CandidatesOf(k) =< n
    BY <1>1 DEF CandidatesOf
  <1> QED BY <1>1, <1>2 DEF Counted

\* The k-th candidate, behind those that wait.
LEMMA Waits ==
  ASSUME NEW a \in Seq(Payloads), NEW w \in Seq(Payloads), NEW k \in 1..n,
         Counted(a, w, k), NextInOrder(a, w)
  PROVE  /\ Append(w, Candidates[k]) \in Seq(Payloads)
         /\ Counted(a, Append(w, Candidates[k]), k + 1)
         /\ NextInOrder(a, Append(w, Candidates[k]))
  <1> DEFINE v == Append(w, Candidates[k])
  <1>1. /\ v \in Seq(Payloads) /\ Len(v) = Len(w) + 1 /\ v[Len(w) + 1] = Candidates[k]
        /\ \A i \in 1..Len(w) : v[i] = w[i]
    BY CandidateIs, AppendIs
  <1> HIDE DEF v
  <1>2. n \in Nat /\ Len(a) \in Nat /\ Len(w) \in Nat /\ Len(v) \in Nat
    BY <1>1, CandidateIs
  <1>3. CandidatesOf(k) = k - 1 /\ CandidatesOf(k + 1) = k
    BY <1>2 DEF CandidatesOf
  <1>4. Len(a) + Len(w) = k - 1
    BY <1>3 DEF Counted
  <1>5. Len(a) + (Len(w) + 1) = k
    BY <1>2, <1>4
  <1>6. Counted(a, v, k + 1)
    BY <1>1, <1>3, <1>5 DEF Counted
  <1>7. NextInOrder(a, v)
    <2> SUFFICES ASSUME NEW i \in 1..Len(v)
                 PROVE  v[i] = Candidates[Len(a) + i]
      BY DEF NextInOrder
    <2>1. CASE i = Len(w) + 1
      BY <1>1, <1>5, <2>1
    <2>2. CASE i # Len(w) + 1
      <3>1. i \in 1..Len(w)
        BY <1>1, <1>2, <2>2
      <3> QED BY <1>1, <3>1 DEF NextInOrder
    <2> QED BY <2>1, <2>2
  <1> QED BY <1>1, <1>6, <1>7 DEF v

\* The k-th candidate, when none waits.
LEMMA AppliesNext ==
  ASSUME NEW a \in Seq(Payloads), NEW k \in 1..n, Counted(a, <<>>, k), InOrder(a)
  PROVE  /\ Append(a, Candidates[k]) \in Seq(Payloads)
         /\ Counted(Append(a, Candidates[k]), <<>>, k + 1)
         /\ InOrder(Append(a, Candidates[k]))
  <1> DEFINE b == Append(a, Candidates[k])
  <1>1. /\ b \in Seq(Payloads) /\ Len(b) = Len(a) + 1 /\ b[Len(a) + 1] = Candidates[k]
        /\ \A i \in 1..Len(a) : b[i] = a[i]
    BY CandidateIs, AppendIs
  <1> HIDE DEF b
  <1>2. n \in Nat /\ Len(a) \in Nat /\ Len(b) \in Nat
    BY <1>1, CandidateIs
  <1>3. CandidatesOf(k) = k - 1 /\ CandidatesOf(k + 1) = k
    BY <1>2 DEF CandidatesOf
  <1>4. Len(a) + 1 = k
    <2>1. Len(a) + 0 = k - 1
      BY <1>3 DEF Counted
    <2> QED BY <1>2, <2>1
  <1>5. Counted(b, <<>>, k + 1)
    BY <1>1, <1>2, <1>3, <1>4 DEF Counted
  <1>6. InOrder(b)
    <2> SUFFICES ASSUME NEW i \in 1..Len(b)
                 PROVE  b[i] = Candidates[i]
      BY DEF InOrder
    <2>1. CASE i = Len(a) + 1
      BY <1>1, <1>4, <2>1
    <2>2. CASE i # Len(a) + 1
      <3>1. i \in 1..Len(a)
        BY <1>1, <1>2, <2>2
      <3> QED BY <1>1, <3>1 DEF InOrder
    <2> QED BY <2>1, <2>2
  <1> QED BY <1>1, <1>5, <1>6 DEF b

\* The first that waits is applied.
LEMMA Flushes ==
  ASSUME NEW a \in Seq(Payloads), NEW w \in Seq(Payloads), NEW k \in Nat, w # <<>>,
         Counted(a, w, k), InOrder(a), NextInOrder(a, w)
  PROVE  /\ Append(a, Head(w)) \in Seq(Payloads) /\ Tail(w) \in Seq(Payloads)
         /\ Counted(Append(a, Head(w)), Tail(w), k)
         /\ InOrder(Append(a, Head(w))) /\ NextInOrder(Append(a, Head(w)), Tail(w))
  <1> DEFINE b == Append(a, Head(w))
             v == Tail(w)
  <1>1. /\ v \in Seq(Payloads) /\ Len(v) = Len(w) - 1 /\ Head(w) \in Payloads
        /\ \A i \in 1..Len(v) : v[i] = w[i + 1]
    BY HeadTailProperties
  <1>2. Head(w) = w[1] /\ Len(w) \in Nat \ {0}
    OBVIOUS
  <1>3. /\ b \in Seq(Payloads) /\ Len(b) = Len(a) + 1 /\ b[Len(a) + 1] = Head(w)
        /\ \A i \in 1..Len(a) : b[i] = a[i]
    BY <1>1, AppendIs
  <1> HIDE DEF b, v
  <1>4. Len(a) \in Nat /\ Len(b) \in Nat /\ Len(v) \in Nat
    BY <1>1, <1>3
  <1>5. Len(b) + Len(v) = Len(a) + Len(w)
    BY <1>1, <1>2, <1>3, <1>4
  <1>6. Counted(b, v, k)
    BY <1>5 DEF Counted
  <1>7. InOrder(b)
    <2> SUFFICES ASSUME NEW i \in 1..Len(b)
                 PROVE  b[i] = Candidates[i]
      BY DEF InOrder
    <2>1. CASE i = Len(a) + 1
      <3>1. 1 \in 1..Len(w)
        BY <1>2
      <3> QED BY <1>2, <1>3, <2>1, <3>1 DEF NextInOrder
    <2>2. CASE i # Len(a) + 1
      <3>1. i \in 1..Len(a)
        BY <1>3, <1>4, <2>2
      <3> QED BY <1>3, <3>1 DEF InOrder
    <2> QED BY <2>1, <2>2
  <1>8. NextInOrder(b, v)
    <2> SUFFICES ASSUME NEW i \in 1..Len(v)
                 PROVE  v[i] = Candidates[Len(b) + i]
      BY DEF NextInOrder
    <2>1. i + 1 \in 1..Len(w) /\ Len(b) + i = Len(a) + (i + 1)
      BY <1>1, <1>2, <1>3, <1>4
    <2> QED BY <1>1, <2>1 DEF NextInOrder
  <1> QED BY <1>1, <1>3, <1>6, <1>7, <1>8 DEF b, v

-----------------------------------------------------------------------------
(* The operations of an adapter.                                           *)

\* An operation that is put behind the others does not create the description.
LEMMA PutBehind ==
  ASSUME NEW ops \in Seq(Operations), NEW local, BehindCreation(ops), Creating(ops, local),
         NEW op \in {"remote", "flush"}
  PROVE  /\ Append(ops, op) \in Seq(Operations) /\ BehindCreation(Append(ops, op))
         /\ Creating(Append(ops, op), local)
  <1> DEFINE r == Append(ops, op)
  <1>1. /\ r \in Seq(Operations) /\ Len(ops) \in Nat
        /\ Len(r) = Len(ops) + 1 /\ r[Len(ops) + 1] = op
        /\ \A i \in 1..Len(ops) : r[i] = ops[i]
    BY AppendIs DEF Operations
  <1> HIDE DEF r
  <1>2. BehindCreation(r)
    BY <1>1 DEF BehindCreation
  <1>3. Creating(r, local)
    <2>1. CASE ops = <<>>
      BY <1>1, <2>1 DEF Creating
    <2>2. CASE ops # <<>>
      <3>1. 1 \in 1..Len(ops)
        BY <2>2
      <3> QED BY <1>1, <2>2, <3>1 DEF Creating
    <2> QED BY <2>1, <2>2
  <1> QED BY <1>1, <1>2, <1>3 DEF r

\* The first operation is done, or goes on as a set or a flush.
LEMMA Drops ==
  ASSUME NEW ops \in Seq(Operations), ops # <<>>, BehindCreation(ops)
  PROVE  /\ Tail(ops) \in Seq(Operations) /\ BehindCreation(Tail(ops))
         /\ \A local : Creating(Tail(ops), local)
  <1>1. /\ Tail(ops) \in Seq(Operations) /\ Len(Tail(ops)) = Len(ops) - 1
        /\ \A i \in 1..Len(Tail(ops)) : Tail(ops)[i] = ops[i + 1]
        /\ Len(ops) \in Nat \ {0}
    BY HeadTailProperties
  <1> DEFINE r == Tail(ops)
  <1> HIDE DEF r
  <1>2. \A i \in 1..Len(r) : r[i] \in {"remote", "flush"}
    <2> SUFFICES ASSUME NEW i \in 1..Len(r)
                 PROVE  r[i] \in {"remote", "flush"}
      OBVIOUS
    <2>1. i + 1 \in 2..Len(ops)
      BY <1>1 DEF r
    <2> QED BY <1>1, <2>1 DEF r, BehindCreation
  <1>3. r \in Seq(Operations) /\ Len(r) \in Nat
    BY <1>1 DEF r
  <1>4. BehindCreation(r)
    BY <1>2, <1>3 DEF BehindCreation
  <1>5. r # <<>> => r[1] \in {"remote", "flush"}
    <2> SUFFICES ASSUME r # <<>>
                 PROVE  r[1] \in {"remote", "flush"}
      OBVIOUS
    <2>1. 1 \in 1..Len(r)
      BY <1>3
    <2> QED BY <1>2, <2>1
  <1> QED BY <1>3, <1>4, <1>5 DEF r, Creating

LEMMA GoesOn ==
  ASSUME NEW ops \in Seq(Operations), ops # <<>>, BehindCreation(ops),
         NEW op \in Operations
  PROVE  /\ <<op>> \o Tail(ops) \in Seq(Operations)
         /\ BehindCreation(<<op>> \o Tail(ops)) /\ (<<op>> \o Tail(ops))[1] = op
  <1> DEFINE t == Tail(ops)
             o == <<op>>
             r == o \o t
  <1>1. /\ t \in Seq(Operations) /\ Len(t) = Len(ops) - 1
        /\ \A i \in 1..Len(t) : t[i] = ops[i + 1]
        /\ Len(ops) \in Nat \ {0}
    BY HeadTailProperties
  <1>2. o \in Seq(Operations) /\ Len(o) = 1 /\ o[1] = op
    BY SingleIs
  <1> HIDE DEF t, o
  <1>3. /\ r \in Seq(Operations) /\ Len(r) = Len(o) + Len(t)
        /\ \A i \in 1..Len(o) + Len(t) : r[i] = IF i =< Len(o) THEN o[i] ELSE t[i - Len(o)]
    BY <1>1, <1>2, ConcatProperties
  <1> HIDE DEF r
  <1>4. Len(r) = Len(ops)
    BY <1>1, <1>2, <1>3
  <1>5. \A i \in 1..Len(ops) : r[i] = IF i =< 1 THEN o[i] ELSE t[i - 1]
    BY <1>2, <1>3, <1>4
  <1>6. r[1] = op
    BY <1>1, <1>2, <1>5
  <1>7. BehindCreation(r)
    <2> SUFFICES ASSUME NEW i \in 2..Len(r)
                 PROVE  r[i] \in {"remote", "flush"}
      BY DEF BehindCreation
    <2>1. /\ i \in 1..Len(ops) /\ ~(i =< 1) /\ i - 1 \in 1..Len(t) /\ (i - 1) + 1 = i
          /\ i \in 2..Len(ops)
      BY <1>1, <1>4
    <2>2. r[i] = t[i - 1] /\ t[i - 1] = ops[(i - 1) + 1]
      BY <1>1, <1>5, <2>1
    <2> QED BY <2>1, <2>2 DEF BehindCreation
  <1> QED BY <1>3, <1>6, <1>7 DEF r, o, t

-----------------------------------------------------------------------------
(* What a connection holds when it was given one payload more.             *)

\* The connection q is p, given the payload after the first k.
Given(e, p, q, k) == q \in PeerRecords /\ PeerAt(e, q, k + 1) /\ q.said = p.said

LEMMA AcceptDescription ==
  ASSUME NEW e \in Ends, NEW p \in PeerRecords, PeerAt(e, p, 0)
  PROVE  Given(e, p, Accepts(e, p, Description(Other(e))), 0)
  <1> DEFINE q == Accepts(e, p, Description(Other(e)))
  <1>1. p.applied \in Seq(Payloads) /\ p.pending \in Seq(Payloads)
    BY DEF PeerRecords
  <1>2. p.applied = <<>> /\ p.pending = <<>> /\ Counted(p.applied, p.pending, 1)
    BY <1>1, NoneYet DEF PeerAt
  <1>3. CASE e = "host"
    <2>1. e \notin BrowserEnds
      BY <1>3, NegotiationAssumption DEF NegotiationAssumption
    <2>2. q = [p EXCEPT !.remote = TRUE, !.local = TRUE]
      <3>1. q = SetLocalDescription(e, SetRemoteDescription(e, p))
        BY <1>3, CandidateIs DEF Accepts, Description, Other
      <3> QED BY <2>1, <3>1 DEF SetLocalDescription, SetRemoteDescription, PeerRecords
    <2> HIDE DEF q
    <2>3. /\ q \in PeerRecords /\ q.said = p.said /\ q.local = TRUE /\ q.remote = TRUE
          /\ q.applied = p.applied /\ q.pending = p.pending /\ q.ops = p.ops
      BY <2>2 DEF PeerRecords
    <2>4. AtOnce(q, 1)
      BY <2>1, <2>3 DEF PeerAt, AtOnce
    <2>5. Creating(q.ops, q.local)
      BY <2>4 DEF Creating, AtOnce
    <2>6. Said(q)
      BY <2>3 DEF PeerAt, Said
    <2>7. PeerAt(e, q, 1)
      BY <1>2, <2>3, <2>4, <2>5, <2>6 DEF PeerAt, Described
    <2> QED BY <2>3, <2>7 DEF Given, q
  <1>4. CASE e = "client" /\ e \in BrowserEnds
    <2>1. q = [p EXCEPT !.ops = Append(@, "remote")]
      BY <1>4, CandidateIs DEF Accepts, Description, Other, SetRemoteDescription
    <2> HIDE DEF q
    <2>2. /\ Append(p.ops, "remote") \in Seq(Operations)
          /\ BehindCreation(Append(p.ops, "remote"))
          /\ Creating(Append(p.ops, "remote"), p.local)
      BY PutBehind DEF PeerAt, PeerRecords
    <2>3. /\ q \in PeerRecords /\ q.said = p.said /\ q.local = p.local
          /\ q.remote = p.remote /\ q.applied = p.applied /\ q.pending = p.pending
          /\ q.ops = Append(p.ops, "remote")
      BY <2>1, <2>2 DEF PeerRecords
    <2>4. PeerAt(e, q, 1)
      BY <1>2, <1>4, <2>2, <2>3 DEF PeerAt, Described, Said
    <2> QED BY <2>3, <2>4 DEF Given, q
  <1>5. CASE e = "client" /\ e \notin BrowserEnds
    <2>1. q = [p EXCEPT !.remote = TRUE]
      BY <1>5, CandidateIs DEF Accepts, Description, Other, SetRemoteDescription
    <2> HIDE DEF q
    <2>2. /\ q \in PeerRecords /\ q.said = p.said /\ q.local = p.local /\ q.remote = TRUE
          /\ q.applied = p.applied /\ q.pending = p.pending /\ q.ops = p.ops
      BY <2>1 DEF PeerRecords
    <2>3. AtOnce(q, 1)
      BY <1>5, <2>2 DEF PeerAt, AtOnce
    <2>4. PeerAt(e, q, 1)
      BY <1>2, <2>2, <2>3 DEF PeerAt, Described, Said
    <2> QED BY <2>2, <2>4 DEF Given, q
  <1> QED BY <1>3, <1>4, <1>5 DEF Ends

LEMMA AcceptCandidate ==
  ASSUME NEW e \in Ends, NEW p \in PeerRecords, NEW k \in 1..n, PeerAt(e, p, k)
  PROVE  Given(e, p, Accepts(e, p, Candidates[k]), k)
  <1> DEFINE c == Candidates[k]
             q == Accepts(e, p, c)
  <1>1. p.applied \in Seq(Payloads) /\ p.pending \in Seq(Payloads)
    BY DEF PeerRecords
  <1>2. q = AddRemoteCandidate(e, p, c)
    <2>1. c # "offer" /\ c # "answer" /\ IsCandidate(c)
      BY CandidateIs
    <2> QED BY <2>1 DEF Accepts
  <1>3. k \in Nat /\ k >= 1 /\ k + 1 >= 1
    OBVIOUS
  <1>4. CASE e \in BrowserEnds
    <2> DEFINE v == Append(p.pending, c)
               r == Append(p.ops, "flush")
    <2>1. q = [p EXCEPT !.pending = v, !.ops = r]
      BY <1>2, <1>4 DEF AddRemoteCandidate
    <2>2. r \in Seq(Operations) /\ BehindCreation(r) /\ Creating(r, p.local)
      BY PutBehind DEF PeerAt, PeerRecords
    <2>3. v \in Seq(Payloads) /\ Counted(p.applied, v, k + 1) /\ NextInOrder(p.applied, v)
      BY <1>1, Waits DEF PeerAt
    <2> HIDE DEF q, v, r, c
    <2>4. /\ q \in PeerRecords /\ q.said = p.said /\ q.local = p.local
          /\ q.remote = p.remote /\ q.applied = p.applied /\ q.pending = v /\ q.ops = r
      BY <2>1, <2>2, <2>3 DEF PeerRecords
    <2>5. PeerAt(e, q, k + 1)
      BY <1>4, <2>2, <2>3, <2>4 DEF PeerAt, Described, Said
    <2> QED BY <2>4, <2>5 DEF Given, q, c
  <1>5. CASE e \notin BrowserEnds
    <2> DEFINE b == Append(p.applied, c)
    <2>1. q = [p EXCEPT !.applied = b]
      BY <1>2, <1>5 DEF AddRemoteCandidate
    <2>2. p.pending = <<>> /\ p.ops = <<>> /\ p.remote = TRUE
      BY <1>3, <1>5 DEF PeerAt, AtOnce
    <2>3. Counted(p.applied, <<>>, k) /\ InOrder(p.applied)
      BY <2>2 DEF PeerAt
    <2>4. b \in Seq(Payloads) /\ Counted(b, <<>>, k + 1) /\ InOrder(b)
      BY <1>1, <2>3, AppliesNext
    <2> HIDE DEF q, b, c
    <2>5. /\ q \in PeerRecords /\ q.said = p.said /\ q.local = p.local
          /\ q.remote = p.remote /\ q.applied = b /\ q.pending = <<>> /\ q.ops = <<>>
      BY <2>1, <2>2, <2>4 DEF PeerRecords
    <2>6. NextInOrder(b, <<>>)
      BY DEF NextInOrder
    <2>7. AtOnce(q, k + 1) /\ Described(q) /\ Said(q)
      BY <2>2, <2>5 DEF AtOnce, Described, Said, PeerAt
    <2>8. BehindCreation(<<>>) /\ Creating(<<>>, p.local)
      BY DEF BehindCreation, Creating
    <2>9. PeerAt(e, q, k + 1)
      BY <2>4, <2>5, <2>6, <2>7, <2>8 DEF PeerAt
    <2> QED BY <2>5, <2>9 DEF Given, q, c
  <1> QED BY <1>4, <1>5

LEMMA AcceptEnd ==
  ASSUME NEW e \in Ends, NEW p \in PeerRecords, PeerAt(e, p, n + 1)
  PROVE  Given(e, p, Accepts(e, p, "end-of-candidates"), n + 1)
  <1>1. Accepts(e, p, "end-of-candidates") = p
    BY CandidateIs DEF Accepts
  <1>2. n \in Nat /\ n >= 1
    BY CandidateIs
  <1>3. CandidatesOf(n + 1) = n /\ CandidatesOf((n + 1) + 1) = n
    BY <1>2 DEF CandidatesOf
  <1>4. n + 1 >= 1 /\ (n + 1) + 1 >= 1
    BY <1>2
  <1>5. PeerAt(e, p, (n + 1) + 1)
    BY <1>3, <1>4 DEF PeerAt, Counted, AtOnce
  <1> QED BY <1>1, <1>5 DEF Given

LEMMA AcceptStep ==
  ASSUME NEW e \in Ends, NEW p \in PeerRecords, NEW k \in 0..n + 1, PeerAt(e, p, k)
  PROVE  Given(e, p, Accepts(e, p, Script(Other(e))[k + 1]), k)
  <1>1. n \in Nat /\ Other(e) \in Ends
    BY CandidateIs DEF Other, Ends
  <1>2. CASE k = 0
    <2>1. Script(Other(e))[k + 1] = Description(Other(e))
      BY <1>1, <1>2, ScriptIs
    <2> QED BY <1>2, <2>1, AcceptDescription
  <1>3. CASE k \in 1..n
    <2>1. Script(Other(e))[k + 1] = Candidates[k]
      BY <1>1, <1>3, ScriptIs
    <2> QED BY <1>3, <2>1, AcceptCandidate
  <1>4. CASE k = n + 1
    <2>1. k + 1 = n + 2
      BY <1>1, <1>4
    <2>2. Script(Other(e))[k + 1] = "end-of-candidates"
      BY <1>1, <2>1, ScriptIs
    <2> QED BY <1>4, <2>2, AcceptEnd
  <1> QED BY <1>1, <1>2, <1>3, <1>4

-----------------------------------------------------------------------------
(* A batch, payload by payload: an induction as the least counterexample.  *)

LEMMA LeastIs ==
  ASSUME NEW T, T \subseteq Nat, T # {}
  PROVE  \E k \in T : \A m \in T : k =< m
  <1> DEFINE Less == {ss \in Nat \X Nat : ss[1] < ss[2]}
  <1>1. IsWellFoundedOn(Less, Nat)
    BY NatLessThanWellFounded DEF OpToRel
  <1>2. PICK x \in T : \A y \in T : ~(<<y, x>> \in Less)
    BY <1>1, WFMin
  <1>3. \A y \in T : ~(y < x)
    BY <1>2
  <1> QED BY <1>3

\* f is what is left of the connection p after each of the first m payloads of s.
After(f, e, p, s, m) ==
    f = [i \in 0..m |-> IF i = 0 THEN p ELSE Accepts(e, f[i - 1], s[i])]

LEMMA AfterExists ==
  ASSUME NEW e, NEW p, NEW s, NEW m \in Nat
  PROVE  \E f : After(f, e, p, s, m)
  <1> DEFINE Bad == {k \in Nat : ~\E f : After(f, e, p, s, k)}
  <1>1. SUFFICES ASSUME Bad # {} PROVE FALSE
    OBVIOUS
  <1>2. PICK k \in Bad : \A j \in Bad : k =< j
    BY <1>1, LeastIs
  <1>3. k \in Nat /\ ~\E f : After(f, e, p, s, k)
    BY <1>2
  <1>4. CASE k = 0
    <2> DEFINE f == [i \in 0..0 |-> p]
    <2>1. After(f, e, p, s, 0)
      BY DEF After
    <2> QED BY <1>3, <1>4, <2>1
  <1>5. CASE k # 0
    <2>1. k - 1 \in Nat /\ k - 1 \notin Bad
      BY <1>2, <1>3, <1>5
    <2>2. PICK f : After(f, e, p, s, k - 1)
      BY <2>1
    <2> DEFINE h == [i \in 0..k |-> IF i = k THEN Accepts(e, f[k - 1], s[k]) ELSE f[i]]
    <2>3. \A i \in 0..(k - 1) : h[i] = f[i]
      BY <1>3
    <2>4. ASSUME NEW i \in 0..k
          PROVE  h[i] = IF i = 0 THEN p ELSE Accepts(e, h[i - 1], s[i])
      <3>1. CASE i = k
        BY <1>3, <1>5, <2>3, <3>1
      <3>2. CASE i # k
        BY <1>3, <1>5, <2>2, <2>3, <3>2 DEF After
      <3> QED BY <3>1, <3>2
    <2>5. h = [i \in 0..k |-> h[i]]
      OBVIOUS
    <2> HIDE DEF h
    <2>6. After(h, e, p, s, k)
      BY <2>4, <2>5 DEF After
    <2> QED BY <1>3, <2>6
  <1> QED BY <1>4, <1>5

LEMMA AcceptsAllIs ==
  ASSUME NEW e, NEW p, NEW s, Len(s) \in Nat
  PROVE  \E f : After(f, e, p, s, Len(s)) /\ AcceptsAll(e, p, s) = f[Len(s)]
  <1> DEFINE after[i \in 0..Len(s)] == IF i = 0 THEN p ELSE Accepts(e, after[i - 1], s[i])
  <1>1. \E f : f = [i \in 0..Len(s) |-> IF i = 0 THEN p ELSE Accepts(e, f[i - 1], s[i])]
    <2>1. \E f : After(f, e, p, s, Len(s))
      BY AfterExists
    <2> QED BY <2>1 DEF After
  <1>2. after = [i \in 0..Len(s) |-> IF i = 0 THEN p ELSE Accepts(e, after[i - 1], s[i])]
    BY <1>1
  <1>3. AcceptsAll(e, p, s) = after[Len(s)]
    BY DEF AcceptsAll
  <1> HIDE DEF after
  <1> QED BY <1>2, <1>3 DEF After

\* The next payloads of the other end, in their order.
NextPayloads(e, s, k) == \A i \in 1..Len(s) : s[i] = Script(Other(e))[k + i]

LEMMA BatchAccepted ==
  ASSUME NEW e \in Ends, NEW p \in PeerRecords, NEW k \in Nat, NEW s \in Seq(Payloads),
         k + Len(s) =< n + 2, NextPayloads(e, s, k), PeerAt(e, p, k)
  PROVE  /\ AcceptsAll(e, p, s) \in PeerRecords
         /\ PeerAt(e, AcceptsAll(e, p, s), k + Len(s))
         /\ AcceptsAll(e, p, s).said = p.said
  <1> DEFINE m == Len(s)
  <1>1. m \in Nat /\ n \in Nat
    BY CandidateIs
  <1>2. PICK f : After(f, e, p, s, m) /\ AcceptsAll(e, p, s) = f[m]
    BY <1>1, AcceptsAllIs
  <1> DEFINE Good(i) == f[i] \in PeerRecords /\ PeerAt(e, f[i], k + i) /\ f[i].said = p.said
             Bad == {i \in 0..m : ~Good(i)}
  <1>3. Good(0)
    <2>1. f[0] = p
      BY <1>1, <1>2 DEF After
    <2> QED BY <2>1
  <1>4. ASSUME NEW i \in 1..m, Good(i - 1)
        PROVE  Good(i)
    <2>1. f[i] = Accepts(e, f[i - 1], s[i])
      BY <1>1, <1>2 DEF After
    <2> DEFINE j == k + (i - 1)
    <2>2. j \in 0..n + 1 /\ j + 1 = k + i
      BY <1>1
    <2>3. s[i] = Script(Other(e))[j + 1]
      BY <2>2 DEF NextPayloads
    <2>4. PeerAt(e, f[i - 1], j) /\ f[i - 1] \in PeerRecords /\ f[i - 1].said = p.said
      BY <1>4
    <2> HIDE DEF j
    <2>5. Given(e, f[i - 1], f[i], j)
      BY <2>1, <2>2, <2>3, <2>4, AcceptStep
    <2> QED BY <2>2, <2>4, <2>5 DEF Given
  <1>5. Bad = {}
    <2> SUFFICES ASSUME Bad # {} PROVE FALSE
      OBVIOUS
    <2>1. Bad \subseteq Nat
      OBVIOUS
    <2>2. PICK i \in Bad : \A j \in Bad : i =< j
      BY <2>1, LeastIs
    <2> HIDE DEF Good
    <2>3. i \in 1..m /\ i - 1 \in 0..m /\ i - 1 \notin Bad
      BY <1>1, <1>3, <2>2
    <2>4. Good(i - 1)
      BY <2>3
    <2> QED BY <1>4, <2>2, <2>3, <2>4
  <1>6. Good(m)
    <2> HIDE DEF Good
    <2> QED BY <1>1, <1>5
  <1> QED BY <1>2, <1>6

LEMMA RunsStep ==
  ASSUME NEW e \in Ends, NEW p \in PeerRecords, NEW k \in Nat, p.ops # <<>>,
         PeerAt(e, p, k)
  PROVE  /\ Runs(p) \in PeerRecords /\ PeerAt(e, Runs(p), k)
         /\ Head(p.ops) = "set" => p.said = 0 /\ Runs(p).said = 1
         /\ Head(p.ops) # "set" => Runs(p).said = p.said
  <1> DEFINE op == Head(p.ops)
             rest == Tail(p.ops)
             q == Runs(p)
             goes(o) == <<o>> \o rest
  <1>1. /\ p.applied \in Seq(Payloads) /\ p.pending \in Seq(Payloads)
        /\ p.ops \in Seq(Operations) /\ BehindCreation(p.ops) /\ Creating(p.ops, p.local)
        /\ e \in BrowserEnds
    BY DEF PeerRecords, PeerAt, AtOnce
  <1>2. op \in Operations /\ op = p.ops[1]
    BY <1>1
  <1>3. rest \in Seq(Operations) /\ BehindCreation(rest) /\ \A local : Creating(rest, local)
    BY <1>1, Drops
  <1>4. ASSUME NEW o \in Operations
        PROVE  /\ goes(o) \in Seq(Operations) /\ BehindCreation(goes(o))
               /\ goes(o)[1] = o
    BY <1>1, GoesOn
  <1>5. n \in Nat
    BY CandidateIs
  <1>6. CASE op = "create"
    <2> DEFINE r == goes("set")
    <2>1. q = [p EXCEPT !.ops = r]
      BY <1>6 DEF Runs
    <2>2. r \in Seq(Operations) /\ BehindCreation(r) /\ r[1] = "set"
      BY <1>4 DEF Operations
    <2>3. p.local = FALSE
      BY <1>1, <1>2, <1>6 DEF Creating
    <2> HIDE DEF q, r
    <2>4. /\ q \in PeerRecords /\ q.said = p.said /\ q.local = p.local
          /\ q.remote = p.remote /\ q.applied = p.applied /\ q.pending = p.pending
          /\ q.ops = r
      BY <2>1, <2>2 DEF PeerRecords
    <2>5. Creating(r, p.local)
      BY <2>3 DEF Creating
    <2>6. PeerAt(e, q, k)
      BY <1>1, <2>2, <2>4, <2>5 DEF PeerAt, Described, Said
    <2> QED BY <1>6, <2>4, <2>6 DEF q
  <1>7. CASE op = "set"
    <2>1. q = [p EXCEPT !.ops = rest, !.local = TRUE, !.said = 1]
      BY <1>7 DEF Runs
    <2>2. p.local = FALSE
      BY <1>1, <1>2, <1>7 DEF Creating
    <2>3. p.said = 0
      BY <2>2 DEF PeerAt, Said
    <2> HIDE DEF q, rest
    <2>4. /\ q \in PeerRecords /\ q.said = 1 /\ q.local = TRUE
          /\ q.remote = p.remote /\ q.applied = p.applied /\ q.pending = p.pending
          /\ q.ops = rest
      BY <1>3, <2>1 DEF PeerRecords
    <2>5. Said(q)
      BY <1>5, <2>4 DEF Said
    <2>6. PeerAt(e, q, k)
      BY <1>1, <1>3, <2>4, <2>5 DEF PeerAt, Described
    <2> QED BY <1>7, <2>3, <2>4, <2>6 DEF q
  <1>8. CASE op = "remote"
    <2> DEFINE r == goes("flush")
    <2>1. q = [p EXCEPT !.ops = r, !.remote = TRUE]
      BY <1>8 DEF Runs
    <2>2. r \in Seq(Operations) /\ BehindCreation(r) /\ r[1] = "flush"
      BY <1>4 DEF Operations
    <2> HIDE DEF q, r
    <2>3. /\ q \in PeerRecords /\ q.said = p.said /\ q.local = p.local
          /\ q.remote = TRUE /\ q.applied = p.applied /\ q.pending = p.pending
          /\ q.ops = r
      BY <2>1, <2>2 DEF PeerRecords
    <2>4. Creating(r, p.local)
      BY <2>2 DEF Creating
    <2>5. PeerAt(e, q, k)
      BY <1>1, <2>2, <2>3, <2>4 DEF PeerAt, Described, Said
    <2> QED BY <1>8, <2>3, <2>5 DEF q
  <1>9. CASE op = "flush" /\ p.remote /\ p.pending # <<>>
    <2> DEFINE b == Append(p.applied, Head(p.pending))
               v == Tail(p.pending)
    <2>1. q = [p EXCEPT !.pending = v, !.applied = b]
      BY <1>9 DEF Runs
    <2>2. /\ b \in Seq(Payloads) /\ v \in Seq(Payloads) /\ Counted(b, v, k)
          /\ InOrder(b) /\ NextInOrder(b, v)
      BY <1>1, <1>9, Flushes DEF PeerAt
    <2>3. p.remote = TRUE
      BY <1>9 DEF PeerRecords
    <2> HIDE DEF q, b, v
    <2>4. /\ q \in PeerRecords /\ q.said = p.said /\ q.local = p.local
          /\ q.remote = p.remote /\ q.applied = b /\ q.pending = v /\ q.ops = p.ops
      BY <2>1, <2>2 DEF PeerRecords
    <2>5. PeerAt(e, q, k)
      BY <1>1, <2>2, <2>3, <2>4 DEF PeerAt, Described, Said
    <2> QED BY <1>9, <2>4, <2>5 DEF q
  <1>10. CASE op = "flush" /\ ~(p.remote /\ p.pending # <<>>)
    <2>1. q = [p EXCEPT !.ops = rest]
      BY <1>10 DEF Runs
    <2> HIDE DEF q, rest
    <2>2. /\ q \in PeerRecords /\ q.said = p.said /\ q.local = p.local
          /\ q.remote = p.remote /\ q.applied = p.applied /\ q.pending = p.pending
          /\ q.ops = rest
      BY <1>3, <2>1 DEF PeerRecords
    <2>3. PeerAt(e, q, k)
      BY <1>1, <1>3, <2>2 DEF PeerAt, Described, Said
    <2> QED BY <1>10, <2>2, <2>3 DEF q
  <1> QED BY <1>2, <1>6, <1>7, <1>8, <1>9, <1>10 DEF Operations

-----------------------------------------------------------------------------
(* Steps that do not concern an end, and steps that only close it.         *)

Untouched(x) ==
    /\ session'[x] = session[x] /\ peer'[x] = peer[x] /\ queue'[x] = queue[x]
    /\ posting'[x] = posting[x] /\ sequence'[x] = sequence[x] /\ store'[x] = store[x]
    /\ cursor'[x] = cursor[x] /\ batch'[x] = batch[x] /\ taken'[x] = taken[x]
    /\ attempt'[x] \in Early => attempt[x] \in Early
    /\ x \in armed' => x \in armed

LEMMA OthersIn ==
  ASSUME NEW e \in Ends
  PROVE  Other(e) \in Ends /\ Other(Other(e)) = e /\ Other(e) # e
  BY DEF Other, Ends

LEMMA LengthsIn ==
  ASSUME Shape, NEW e \in Ends
  PROVE  /\ Len(store[e]) \in Nat /\ Len(taken[e]) \in Nat /\ Len(queue[e]) \in Nat
         /\ cursor[e] \in Nat /\ batch[e] \in Nat /\ sequence[e] \in Nat
         /\ peer[e] \in PeerRecords
  <1>1. store[e] \in Seq(Signals) /\ taken[e] \in Seq(Payloads) /\ queue[e] \in Seq(Payloads)
    BY DEF Shape
  <1> QED BY <1>1 DEF Shape

LEMMA LengthsInNext ==
  ASSUME Shape', NEW e \in Ends
  PROVE  /\ Len(store'[e]) \in Nat /\ Len(taken'[e]) \in Nat /\ Len(queue'[e]) \in Nat
         /\ cursor'[e] \in Nat /\ batch'[e] \in Nat /\ sequence'[e] \in Nat
         /\ peer'[e] \in PeerRecords
  <1>1. /\ store'[e] \in Seq(Signals) /\ taken'[e] \in Seq(Payloads)
        /\ queue'[e] \in Seq(Payloads)
    BY DEF Shape
  <1> QED BY <1>1 DEF Shape

\* The store only grows.
LEMMA TakenStays ==
  ASSUME Shape, Shape', NEW x \in Ends, TakenInv(x), session'[x] = session[x],
         cursor'[x] = cursor[x], batch'[x] = batch[x], taken'[x] = taken[x],
         Len(store[Other(x)]) =< Len(store'[Other(x)])
  PROVE  TakenInv(x)'
  <1> DEFINE a == Len(store[Other(x)])
             b == Len(store'[Other(x)])
  <1>1. a \in Nat /\ b \in Nat /\ a =< b /\ cursor[x] \in Nat /\ batch[x] \in Nat
    BY OthersIn, LengthsIn, LengthsInNext
  <1>2. cursor[x] =< a /\ (batch[x] # 0 => cursor[x] < batch[x] /\ batch[x] =< a)
    BY DEF TakenInv
  <1> HIDE DEF a, b
  <1>3. cursor'[x] =< b /\ (batch'[x] # 0 => cursor'[x] < batch'[x] /\ batch'[x] =< b)
    BY <1>1, <1>2
  <1> QED BY <1>3 DEF TakenInv, b

LEMMA Stays ==
  ASSUME Shape, Shape', NEW x \in Ends, EndInv(x), Untouched(x),
         Len(store[Other(x)]) =< Len(store'[Other(x)])
  PROVE  EndInv(x)'
  <1>1. SessionInv(x)'
    BY DEF EndInv, Untouched, SessionInv, Open
  <1>2. PeerInv(x)'
    BY DEF EndInv, Untouched, PeerInv
  <1>3. StoreInv(x)'
    BY DEF EndInv, Untouched, StoreInv
  <1>4. TakenInv(x)'
    BY TakenStays DEF EndInv, Untouched
  <1> QED BY <1>1, <1>2, <1>3, <1>4 DEF EndInv

\* What is left of an end when its session was closed and nothing was stored or taken.
LEMMA ClosedStays ==
  ASSUME Shape, Shape', NEW e \in Ends, EndInv(e),
         session'[e] = "closed", attempt'[e] \notin Early, e \notin armed',
         peer'[e].applied = peer[e].applied, peer'[e].remote = peer[e].remote,
         store'[e] = store[e], posting'[e] = posting[e], sequence'[e] = sequence[e],
         cursor'[e] = cursor[e], batch'[e] = batch[e], taken'[e] = taken[e],
         store'[Other(e)] = store[Other(e)]
  PROVE  EndInv(e)'
  <1>1. SessionInv(e)'
    BY DEF SessionInv
  <1>2. PeerInv(e)'
    BY DEF EndInv, PeerInv, InOrder, Described
  <1>3. StoreInv(e)'
    BY DEF EndInv, StoreInv
  <1>4. TakenInv(e)'
    BY DEF EndInv, TakenInv
  <1> QED BY <1>1, <1>2, <1>3, <1>4 DEF EndInv

LEMMA OneEnd ==
  ASSUME IInv, Shape', NEW e \in Ends, EndInv(e)',
         \A x \in Ends : x # e => Untouched(x), Len(store[e]) =< Len(store'[e])
  PROVE  IInv'
  <1> SUFFICES ASSUME NEW x \in Ends, x # e
               PROVE  EndInv(x)'
    BY DEF IInv
  <1>1. Other(x) = e
    BY DEF Other, Ends
  <1> QED BY <1>1, Stays DEF IInv

Stages == Early \cup {"negotiating", "handshaking", "resolved", "rejected"}

\* What concerns neither the signals nor the sessions nor the connections.
LEMMA Elsewhere ==
  ASSUME IInv, UNCHANGED <<signals, session, peer>>, armed' \subseteq armed,
         channels' \in [Ends -> SUBSET Labels], opened' \in [Ends -> SUBSET Labels],
         handed' \in [Ends -> Nat], attempt' \in [Ends -> Stages],
         \A e \in Ends : attempt'[e] \in Early => attempt[e] \in Early
  PROVE  IInv'
  <1>1. Shape'
    BY DEF IInv, Shape, signals, Stages
  <1>2. \A x \in Ends : Untouched(x)
    BY DEF Untouched, signals
  <1>3. ASSUME NEW x \in Ends
        PROVE  EndInv(x)'
    <2>1. Len(store[Other(x)]) =< Len(store'[Other(x)])
      <3>1. Len(store[Other(x)]) \in Nat
        BY OthersIn, LengthsIn DEF IInv
      <3> QED BY <3>1 DEF signals
    <2> QED BY <1>1, <1>2, <2>1, Stays DEF IInv
  <1> QED BY <1>1, <1>3 DEF IInv

LEMMA AttemptsStep ==
  ASSUME IInv,
         Connect \/ CreateAnswered \/ Decided \/ ApprovalWaitEnds \/ HostAccepts
  PROVE  IInv'
  <1>1. /\ attempt \in [Ends -> Stages] /\ channels \in [Ends -> SUBSET Labels]
        /\ opened \in [Ends -> SUBSET Labels] /\ handed \in [Ends -> Nat]
    BY DEF IInv, Shape, Stages
  <1>2. UNCHANGED <<signals, sessions, peer>>
    BY DEF Connect, CreateAnswered, Decided, ApprovalWaitEnds, HostAccepts
  <1>3. UNCHANGED <<signals, session, peer>> /\ armed' \subseteq armed
        /\ channels' = channels /\ opened' = opened /\ handed' = handed
    BY <1>2 DEF sessions
  <1>4. /\ attempt' \in [Ends -> Stages]
        /\ \A e \in Ends : attempt'[e] \in Early => attempt[e] \in Early
    <2>1. CASE Connect
      BY <1>1, <2>1 DEF Connect, Stages, Early, Ends
    <2>2. CASE CreateAnswered
      BY <1>1, <2>2 DEF CreateAnswered, Stages, Early, Ends
    <2>3. CASE Decided
      BY <1>1, <2>3 DEF Decided
    <2>4. CASE ApprovalWaitEnds
      BY <1>1, <2>4 DEF ApprovalWaitEnds, Stages, Early, Ends
    <2>5. CASE HostAccepts
      BY <1>1, <2>5 DEF HostAccepts, Stages, Early, Ends
    <2> QED BY <2>1, <2>2, <2>3, <2>4, <2>5
  <1> QED BY <1>1, <1>3, <1>4, Elsewhere

LEMMA ChannelsStep ==
  ASSUME IInv, NEW l \in Labels,
         ChannelArrives(l) \/ \E e \in Ends : ChannelOpens(e, l)
  PROVE  IInv'
  <1>1. /\ attempt \in [Ends -> Stages] /\ channels \in [Ends -> SUBSET Labels]
        /\ opened \in [Ends -> SUBSET Labels] /\ handed \in [Ends -> Nat]
    BY DEF IInv, Shape, Stages
  <1>2. CASE ChannelArrives(l)
    <2>1. /\ UNCHANGED <<signals, session, peer>> /\ armed' \subseteq armed
          /\ attempt' = attempt /\ opened' = opened /\ handed' = handed
      BY <1>2 DEF ChannelArrives, attempts
    <2>2. channels' \in [Ends -> SUBSET Labels]
      BY <1>1, <1>2 DEF ChannelArrives
    <2> QED BY <1>1, <2>1, <2>2, Elsewhere
  <1>3. ASSUME NEW e \in Ends, ChannelOpens(e, l)
        PROVE  IInv'
    <2>1. UNCHANGED <<signals, session, peer>> /\ armed' \subseteq armed /\ channels' = channels
      BY <1>3 DEF ChannelOpens
    <2>2. opened' \in [Ends -> SUBSET Labels] /\ handed' \in [Ends -> Nat]
      BY <1>1, <1>3 DEF ChannelOpens
    <2>3. /\ attempt' \in [Ends -> Stages]
          /\ \A x \in Ends : attempt'[x] \in Early => attempt[x] \in Early
      BY <1>1, <1>3 DEF ChannelOpens, Stages, Early
    <2> QED BY <1>1, <2>1, <2>2, <2>3, Elsewhere
  <1> QED BY <1>2, <1>3

\* The closed session, whatever is stored or collected by the step that closes it.
LEMMA ClosedHas ==
  ASSUME Shape, NEW e \in Ends, CloseSession(e)
  PROVE  /\ session'[e] = "closed" /\ e \notin armed'
         /\ peer'[e].applied = peer[e].applied /\ peer'[e].remote = peer[e].remote
         /\ peer'[e].local = peer[e].local
         /\ session' \in [Ends -> {"none", "open", "closed"}] /\ armed' \subseteq Ends
         /\ queue' \in [Ends -> Seq(Payloads)] /\ peer' \in [Ends -> PeerRecords]
         /\ channels' \in [Ends -> SUBSET Labels] /\ opened' \in [Ends -> SUBSET Labels]
         /\ handed' \in [Ends -> Nat]
         /\ \A x \in Ends : x # e =>
               /\ session'[x] = session[x] /\ peer'[x] = peer[x] /\ queue'[x] = queue[x]
               /\ (x \in armed' => x \in armed)
  <1>1. peer[e] \in PeerRecords /\ <<>> \in Seq(Payloads)
    BY DEF Shape
  <1>2. [peer[e] EXCEPT !.pending = <<>>] \in PeerRecords
    BY <1>1 DEF PeerRecords
  <1>3. peer' = [peer EXCEPT ![e] = [peer[e] EXCEPT !.pending = <<>>]]
    BY DEF CloseSession
  <1>4. /\ peer' \in [Ends -> PeerRecords]
        /\ peer'[e] = [peer[e] EXCEPT !.pending = <<>>]
        /\ \A x \in Ends : x # e => peer'[x] = peer[x]
    BY <1>2, <1>3 DEF Shape
  <1>5. /\ peer'[e].applied = peer[e].applied /\ peer'[e].remote = peer[e].remote
        /\ peer'[e].local = peer[e].local
    BY <1>1, <1>4 DEF PeerRecords
  <1>6. /\ session'[e] = "closed" /\ e \notin armed'
        /\ session' \in [Ends -> {"none", "open", "closed"}] /\ armed' \subseteq Ends
        /\ \A x \in Ends : x # e =>
              session'[x] = session[x] /\ (x \in armed' => x \in armed)
    BY DEF Shape, CloseSession
  <1>7. /\ queue' \in [Ends -> Seq(Payloads)]
        /\ \A x \in Ends : x # e => queue'[x] = queue[x]
    BY <1>1 DEF Shape, CloseSession
  <1> QED BY <1>4, <1>5, <1>6, <1>7 DEF Shape, CloseSession

LEMMA ClosedPeer ==
  ASSUME IInv, NEW e \in Ends, CloseSession(e)
  PROVE  PeerInv(e)'
  <1>1. /\ session'[e] = "closed"
        /\ peer'[e].applied = peer[e].applied
        /\ peer'[e].remote = peer[e].remote
    BY ClosedHas DEF IInv
  <1>2. /\ Len(peer[e].applied) =< n
        /\ InOrder(peer[e].applied) /\ Described(peer[e])
    BY DEF IInv, EndInv, PeerInv
  <1> QED BY <1>1, <1>2 DEF PeerInv, InOrder, Described

LEMMA CloseStep ==
  ASSUME IInv, NEW e \in Ends, CloseSession(e),
         UNCHANGED <<posting, sequence, store, cursor, batch, taken>>,
         attempt' \in [Ends -> Stages], attempt'[e] \notin Early,
         \A x \in Ends : x # e => attempt'[x] = attempt[x]
  PROVE  IInv'
  <1>1. Shape'
    BY ClosedHas DEF IInv, Shape, Stages
  <1>2. EndInv(e)'
    BY <1>1, ClosedHas, ClosedStays DEF IInv
  <1>3. \A x \in Ends : x # e => Untouched(x)
    BY ClosedHas DEF IInv, Untouched
  <1>4. Len(store[e]) =< Len(store'[e])
    BY LengthsIn DEF IInv
  <1> QED BY <1>1, <1>2, <1>3, <1>4, OneEnd

\* An attempt that has a session is past its preparation.
LEMMA NotEarly ==
  ASSUME IInv, NEW e \in Ends, session[e] # "none" \/ e \in armed
  PROVE  attempt[e] \notin Early
  BY DEF IInv, EndInv, SessionInv, Open

LEMMA FailsLate ==
  ASSUME IInv, NEW e \in Ends, Fail(e), attempt[e] \notin Early
  PROVE  /\ attempt' \in [Ends -> Stages] /\ attempt'[e] \notin Early
         /\ \A x \in Ends : x # e => attempt'[x] = attempt[x]
  <1>1. attempt \in [Ends -> Stages]
    BY DEF IInv, Shape, Stages
  <1> QED BY <1>1 DEF Fail, Stages, Early, Pending

LEMMA FailStep ==
  ASSUME IInv, NEW e \in Ends, PeerFails(e) \/ DeadlineFires(e)
  PROVE  IInv'
  <1>1. /\ Fail(e) /\ CloseSession(e)
        /\ UNCHANGED <<posting, sequence, store, cursor, batch, taken>>
    BY DEF PeerFails, DeadlineFires, Fail
  <1>2. attempt[e] \notin Early
    BY NotEarly DEF PeerFails, DeadlineFires, Open
  <1> QED BY <1>1, <1>2, FailsLate, CloseStep

LEMMA HostDropsStep ==
  ASSUME IInv, HostDrops
  PROVE  IInv'
  <1>1. /\ "host" \in Ends /\ CloseSession("host") /\ attempt' = attempt
        /\ UNCHANGED <<posting, sequence, store, cursor, batch, taken>>
    BY DEF HostDrops, attempts, Ends
  <1>2. attempt \in [Ends -> Stages] /\ attempt["host"] \notin Early
    BY <1>1, NotEarly DEF HostDrops, Open, IInv, Shape, Stages
  <1> QED BY <1>1, <1>2, CloseStep

LEMMA HandshakeStep ==
  ASSUME IInv, HandshakeEnds
  PROVE  IInv'
  <1>1. attempt \in [Ends -> Stages] /\ "client" \in Ends
    BY DEF IInv, Shape, Stages, Ends
  <1>2. CASE UNCHANGED <<sessions, queue, peer>>
    <2>1. /\ attempt' \in [Ends -> Stages]
          /\ \A e \in Ends : attempt'[e] \in Early => attempt[e] \in Early
      BY <1>1 DEF HandshakeEnds, Stages, Early
    <2>2. UNCHANGED <<signals, session, peer>> /\ armed' \subseteq armed
          /\ channels' = channels /\ opened' = opened /\ handed' = handed
      BY <1>2 DEF HandshakeEnds, sessions, signals
    <2>3. /\ channels \in [Ends -> SUBSET Labels] /\ opened \in [Ends -> SUBSET Labels]
          /\ handed \in [Ends -> Nat]
      BY DEF IInv, Shape
    <2> QED BY <2>1, <2>2, <2>3, Elsewhere
  <1>3. CASE /\ attempt' = [attempt EXCEPT !["client"] = "rejected"]
             /\ CloseSession("client")
    <2>1. /\ attempt' \in [Ends -> Stages] /\ attempt'["client"] \notin Early
          /\ \A x \in Ends : x # "client" => attempt'[x] = attempt[x]
      BY <1>1, <1>3 DEF Stages, Early
    <2>2. UNCHANGED <<posting, sequence, store, cursor, batch, taken>>
      BY DEF HandshakeEnds
    <2> QED BY <1>1, <1>3, <2>1, <2>2, CloseStep
  <1> QED BY <1>2, <1>3 DEF HandshakeEnds

LEMMA ConnectorStep ==
  ASSUME IInv, NEW e \in Ends, CloseConnector(e)
  PROVE  IInv'
  <1>1. attempt \in [Ends -> Stages]
    BY DEF IInv, Shape, Stages
  <1>2. /\ attempt' \in [Ends -> Stages] /\ (attempt'[e] \in Early => attempt[e] \in Early)
        /\ \A x \in Ends : x # e => attempt'[x] = attempt[x]
        /\ UNCHANGED <<posting, sequence, store, cursor, batch, taken>>
    BY <1>1 DEF CloseConnector, Stages, Early
  <1>3. CASE Open(e)
    <2>1. CloseSession(e) /\ attempt'[e] \notin Early
      BY <1>2, <1>3, NotEarly DEF CloseConnector, Open
    <2> QED BY <1>2, <2>1, CloseStep
  <1>4. CASE ~Open(e)
    <2>1. UNCHANGED <<signals, session, peer>> /\ armed' \subseteq armed
          /\ channels' = channels /\ opened' = opened /\ handed' = handed
      BY <1>2, <1>4 DEF CloseConnector, sessions, signals
    <2>2. /\ channels \in [Ends -> SUBSET Labels] /\ opened \in [Ends -> SUBSET Labels]
          /\ handed \in [Ends -> Nat]
      BY DEF IInv, Shape
    <2>3. \A x \in Ends : attempt'[x] \in Early => attempt[x] \in Early
      BY <1>2
    <2> QED BY <1>2, <2>1, <2>2, <2>3, Elsewhere
  <1> QED BY <1>3, <1>4

-----------------------------------------------------------------------------
(* Steps of one end.                                                       *)

\* The connection of a session that starts.
LEMMA NewIs ==
  ASSUME NEW e \in Ends
  PROVE  NewPeer \in PeerRecords /\ PeerAt(e, NewPeer, 0)
  <1>1. <<>> \in Seq(Operations) /\ <<>> \in Seq(Payloads) /\ Len(<<>>) = 0
    OBVIOUS
  <1>2. NewPeer \in PeerRecords
    BY <1>1 DEF NewPeer, PeerRecords
  <1>3. n \in Nat /\ CandidatesOf(0) = 0
    BY CandidateIs DEF CandidatesOf
  <1>4. PeerAt(e, NewPeer, 0)
    BY <1>1, <1>3 DEF NewPeer, PeerAt, Counted, InOrder, NextInOrder, Described, AtOnce,
       BehindCreation, Creating, Said
  <1> QED BY <1>2, <1>4

\* The client creates its description first.
LEMMA OffererIs ==
  ASSUME NEW e \in Ends
  PROVE  /\ SetLocalDescription(e, NewPeer) \in PeerRecords
         /\ PeerAt(e, SetLocalDescription(e, NewPeer), 0)
         /\ SetLocalDescription(e, NewPeer).said = 0
  <1> DEFINE q == SetLocalDescription(e, NewPeer)
             o == Append(<<>>, "create")
  <1>1. /\ NewPeer \in PeerRecords /\ PeerAt(e, NewPeer, 0) /\ NewPeer.ops = <<>>
        /\ NewPeer.said = 0 /\ NewPeer.local = FALSE
    BY NewIs DEF NewPeer
  <1>2. o \in Seq(Operations) /\ Len(o) = 1 /\ o[1] = "create" /\ o # <<>>
    BY DEF Operations
  <1>3. CASE e \in BrowserEnds
    <2>1. q = [NewPeer EXCEPT !.ops = o]
      BY <1>1, <1>3 DEF SetLocalDescription
    <2> HIDE DEF q, o
    <2>2. /\ q \in PeerRecords /\ q.said = NewPeer.said /\ q.local = NewPeer.local
          /\ q.remote = NewPeer.remote /\ q.applied = NewPeer.applied
          /\ q.pending = NewPeer.pending /\ q.ops = o
      BY <1>1, <1>2, <2>1 DEF PeerRecords
    <2>3. BehindCreation(o) /\ Creating(o, NewPeer.local)
      BY <1>1, <1>2 DEF BehindCreation, Creating
    <2>4. PeerAt(e, q, 0)
      BY <1>1, <1>3, <2>2, <2>3 DEF PeerAt, Described, Said
    <2> QED BY <1>1, <2>2, <2>4 DEF q
  <1>4. CASE e \notin BrowserEnds
    <2>1. q = [NewPeer EXCEPT !.local = TRUE]
      BY <1>4 DEF SetLocalDescription
    <2> HIDE DEF q
    <2>2. /\ q \in PeerRecords /\ q.said = NewPeer.said /\ q.local = TRUE
          /\ q.remote = NewPeer.remote /\ q.applied = NewPeer.applied
          /\ q.pending = NewPeer.pending /\ q.ops = NewPeer.ops
      BY <1>1, <2>1 DEF PeerRecords
    <2>3. Creating(q.ops, q.local)
      BY <1>1, <2>2 DEF Creating
    <2>4. PeerAt(e, q, 0)
      BY <1>1, <2>2, <2>3 DEF PeerAt, Described, Said, AtOnce
    <2> QED BY <1>1, <2>2, <2>4 DEF q
  <1> QED BY <1>3, <1>4

LEMMA PreparedStep ==
  ASSUME IInv, NEW e \in Ends, Prepared(e)
  PROVE  IInv'
  <1>1. /\ attempt \in [Ends -> Stages] /\ channels \in [Ends -> SUBSET Labels]
        /\ opened \in [Ends -> SUBSET Labels] /\ handed \in [Ends -> Nat]
        /\ session \in [Ends -> {"none", "open", "closed"}] /\ armed \subseteq Ends
        /\ peer \in [Ends -> PeerRecords]
    BY DEF IInv, Shape, Stages
  <1>2. /\ session[e] = "none" /\ peer[e] = NewPeer /\ queue[e] = <<>> /\ posting[e] = <<>>
        /\ sequence[e] = 0 /\ store[e] = <<>>
        /\ cursor[e] = 0 /\ batch[e] = 0 /\ taken[e] = <<>>
    BY DEF Prepared, IInv, EndInv, SessionInv, Early
  <1>3. CASE attempt' = [attempt EXCEPT ![e] = "rejected"] /\ UNCHANGED <<sessions, peer>>
    <2>1. UNCHANGED <<signals, session, peer>> /\ armed' \subseteq armed
          /\ channels' = channels /\ opened' = opened /\ handed' = handed
      BY <1>3 DEF Prepared, sessions
    <2>2. /\ attempt' \in [Ends -> Stages]
          /\ \A x \in Ends : attempt'[x] \in Early => attempt[x] \in Early
      BY <1>1, <1>3 DEF Stages, Early
    <2> QED BY <1>1, <2>1, <2>2, Elsewhere
  <1>4. CASE /\ attempt' = [attempt EXCEPT ![e] = "negotiating"]
             /\ session' = [session EXCEPT ![e] = "open"]
             /\ armed' = armed \cup Arms(e)
             /\ IF e = "client"
                THEN /\ channels' = [channels EXCEPT ![e] = Labels]
                     /\ peer' = [peer EXCEPT ![e] = SetLocalDescription(e, @)]
                ELSE UNCHANGED <<channels, peer>>
             /\ UNCHANGED <<opened, handed>>
    <2> DEFINE q == IF e = "client" THEN SetLocalDescription(e, NewPeer) ELSE NewPeer
    <2>1. q \in PeerRecords /\ PeerAt(e, q, 0) /\ q.said = 0
      BY NewIs, OffererIs DEF NewPeer
    <2> HIDE DEF q
    <2>2. /\ peer' \in [Ends -> PeerRecords] /\ peer'[e] = q
          /\ \A x \in Ends : x # e => peer'[x] = peer[x]
      <3>1. CASE e = "client"
        <4>1. peer' = [peer EXCEPT ![e] = q]
          BY <1>1, <1>2, <1>4, <3>1 DEF q
        <4> QED BY <1>1, <2>1, <4>1
      <3>2. CASE e # "client"
        <4>1. peer' = peer /\ q = NewPeer
          BY <1>4, <3>2 DEF q
        <4> QED BY <1>1, <1>2, <4>1
      <3> QED BY <3>1, <3>2
    <2>3. channels' \in [Ends -> SUBSET Labels]
      BY <1>1, <1>4
    <2>4. UNCHANGED <<queue, posting, sequence, store, cursor, batch, taken>>
      BY DEF Prepared, signals
    <2>5. /\ attempt' \in [Ends -> Stages] /\ attempt'[e] = "negotiating"
          /\ session' \in [Ends -> {"none", "open", "closed"}] /\ session'[e] = "open"
          /\ \A x \in Ends : x # e => attempt'[x] = attempt[x] /\ session'[x] = session[x]
          /\ armed' = armed \cup {e} /\ armed' \subseteq Ends
      BY <1>1, <1>4 DEF Stages, Arms
    <2>6. Shape'
      BY <1>4, <2>2, <2>3, <2>4, <2>5 DEF IInv, Shape, Stages
    <2>7. SessionInv(e)'
      BY <2>5 DEF SessionInv, Early, Open
    <2>8. /\ Len(<<>>) = 0 /\ sequence'[e] = 0 /\ queue'[e] = <<>> /\ posting'[e] = <<>>
          /\ store'[e] = <<>> /\ cursor'[e] = 0 /\ batch'[e] = 0 /\ taken'[e] = <<>>
      BY <1>2, <2>4
    <2>9. PeerInv(e)'
      <3>1. q.applied \in Seq(Payloads) /\ q.pending \in Seq(Payloads)
        BY <2>1 DEF PeerRecords
      <3>2. Len(q.applied) =< n
        BY <2>1, <3>1, AtMostAll DEF PeerAt
      <3> QED BY <2>1, <2>2, <2>8, <3>2 DEF PeerInv, PeerAt
    <2>10. StoreInv(e)'
      <3>1. n \in Nat
        BY CandidateIs
      <3> QED BY <2>1, <2>2, <2>8, <3>1 DEF StoreInv
    <2>11. TakenInv(e)'
      <3>1. Len(store'[Other(e)]) \in Nat
        BY <2>6, OthersIn, LengthsInNext
      <3> QED BY <2>8, <3>1 DEF TakenInv
    <2>12. \A x \in Ends : x # e => Untouched(x)
      BY <2>2, <2>4, <2>5 DEF Untouched
    <2>13. Len(store[e]) =< Len(store'[e])
      BY <1>2, <2>8
    <2> QED BY <2>6, <2>7, <2>9, <2>10, <2>11, <2>12, <2>13, OneEnd DEF EndInv
  <1> QED BY <1>3, <1>4 DEF Prepared

\* What waits to be published is what was announced since the last number was taken.
Announced(e, w, p, taker) ==
    /\ taker + Len(w) = p.said
    /\ \A i \in 1..Len(w) : w[i] = Script(e)[taker + i]

\* A step of the connection, which may announce something.
LEMMA PeerMoves ==
  ASSUME IInv, NEW e \in Ends, session[e] # "none",
         NEW q \in PeerRecords, NEW w \in Seq(Payloads),
         peer' = [peer EXCEPT ![e] = q], queue' = [queue EXCEPT ![e] = w],
         armed' \subseteq armed,
         UNCHANGED <<attempts, posting, sequence, store, cursor, batch, taken,
                     session, channels, opened, handed>>,
         session[e] # "closed" =>
            PeerAt(e, q, Len(taken[e])) /\ Announced(e, w, q, sequence[e]),
         session[e] = "closed" =>
            q.applied = peer[e].applied /\ q.remote = peer[e].remote
  PROVE  IInv'
  <1>1. /\ peer' \in [Ends -> PeerRecords] /\ peer'[e] = q
        /\ \A x \in Ends : x # e => peer'[x] = peer[x]
    BY DEF IInv, Shape
  <1>2. /\ queue' \in [Ends -> Seq(Payloads)] /\ queue'[e] = w
        /\ \A x \in Ends : x # e => queue'[x] = queue[x]
    BY DEF IInv, Shape
  <1>3. Shape'
    BY <1>1, <1>2 DEF IInv, Shape, attempts
  <1>4. SessionInv(e)'
    BY DEF IInv, EndInv, SessionInv, Open, attempts
  <1>5. PeerInv(e)'
    <2>1. CASE session[e] = "closed"
      BY <1>1, <2>1 DEF IInv, EndInv, PeerInv, InOrder, Described
    <2>2. CASE session[e] # "closed"
      <3>1. q.applied \in Seq(Payloads) /\ q.pending \in Seq(Payloads)
        BY DEF PeerRecords
      <3>2. Len(q.applied) =< n
        BY <2>2, <3>1, AtMostAll, LengthsIn DEF PeerAt, IInv
      <3> QED BY <1>1, <2>2, <3>2 DEF PeerInv, PeerAt
    <2> QED BY <2>1, <2>2
  <1>6. StoreInv(e)'
    BY <1>1, <1>2 DEF IInv, EndInv, StoreInv, Announced
  <1>7. TakenInv(e)'
    BY DEF IInv, EndInv, TakenInv
  <1>8. \A x \in Ends : x # e => Untouched(x)
    BY <1>1, <1>2 DEF Untouched, attempts
  <1>9. Len(store[e]) =< Len(store'[e])
    BY LengthsIn DEF IInv
  <1> QED BY <1>3, <1>4, <1>5, <1>6, <1>7, <1>8, <1>9, OneEnd DEF EndInv

\* What an open session says of its end.
LEMMA OpenHas ==
  ASSUME IInv, NEW e \in Ends, Open(e)
  PROVE  /\ session[e] = "open" /\ peer[e] \in PeerRecords /\ queue[e] \in Seq(Payloads)
         /\ PeerAt(e, peer[e], Len(taken[e])) /\ Len(taken[e]) \in Nat
         /\ Announced(e, queue[e], peer[e], sequence[e]) /\ sequence[e] \in Nat
         /\ Len(queue[e]) \in Nat
  <1>1. /\ session[e] = "open" /\ peer[e] \in PeerRecords /\ queue[e] \in Seq(Payloads)
        /\ PeerAt(e, peer[e], Len(taken[e]))
        /\ Announced(e, queue[e], peer[e], sequence[e])
    BY DEF IInv, Shape, EndInv, PeerInv, StoreInv, Announced, Open
  <1> QED BY <1>1, LengthsIn DEF IInv

\* One more payload is announced.
LEMMA AnnouncesNext ==
  ASSUME NEW e \in Ends, NEW p \in PeerRecords, NEW q \in PeerRecords,
         NEW w \in Seq(Payloads), NEW taker \in Nat, Announced(e, w, p, taker),
         q.said = p.said + 1, p.said < n + 2
  PROVE  /\ Append(w, Script(e)[p.said + 1]) \in Seq(Payloads)
         /\ Announced(e, Append(w, Script(e)[p.said + 1]), q, taker)
  <1> DEFINE said == p.said
             x == Script(e)[said + 1]
             v == Append(w, x)
  <1>1. n \in Nat /\ said \in Nat /\ Len(w) \in Nat /\ taker + Len(w) = said
    BY CandidateIs DEF PeerRecords, Announced
  <1>2. x \in Payloads
    BY <1>1, ScriptIs
  <1> HIDE DEF x
  <1>3. /\ v \in Seq(Payloads) /\ Len(v) = Len(w) + 1 /\ v[Len(w) + 1] = x
        /\ \A i \in 1..Len(w) : v[i] = w[i]
    BY <1>2, AppendIs
  <1> HIDE DEF v, said
  <1>4. taker + Len(v) = q.said
    BY <1>1, <1>3 DEF said
  <1>5. ASSUME NEW i \in 1..Len(v)
        PROVE  v[i] = Script(e)[taker + i]
    <2>1. CASE i = Len(w) + 1
      <3>1. taker + i = said + 1
        BY <1>1, <2>1
      <3> QED BY <1>3, <2>1, <3>1 DEF x
    <2>2. CASE i # Len(w) + 1
      <3>1. i \in 1..Len(w)
        BY <1>1, <1>3, <2>2
      <3> QED BY <1>3, <3>1 DEF Announced
    <2> QED BY <2>1, <2>2
  <1> QED BY <1>3, <1>4, <1>5 DEF Announced, v, x, said

LEMMA AnnouncesStep ==
  ASSUME IInv, NEW e \in Ends, Announces(e)
  PROVE  IInv'
  <1> DEFINE said == peer[e].said
             q == [peer[e] EXCEPT !.said = said + 1]
             w == Append(queue[e], Script(e)[said + 1])
  <1>1. /\ Open(e) /\ peer[e].local = TRUE /\ said < n + 2
    BY ScriptIs DEF Announces, IInv, Shape, PeerRecords
  <1>2. /\ session[e] = "open" /\ peer[e] \in PeerRecords /\ queue[e] \in Seq(Payloads)
        /\ PeerAt(e, peer[e], Len(taken[e])) /\ Len(taken[e]) \in Nat
        /\ Announced(e, queue[e], peer[e], sequence[e]) /\ sequence[e] \in Nat
        /\ said \in Nat /\ n \in Nat
    BY <1>1, OpenHas, CandidateIs DEF PeerRecords
  <1>3. /\ q \in PeerRecords /\ q.said = said + 1 /\ q.local = TRUE
        /\ q.remote = peer[e].remote /\ q.applied = peer[e].applied
        /\ q.pending = peer[e].pending /\ q.ops = peer[e].ops
    <2>1. said + 1 \in Nat
      BY <1>2
    <2> HIDE DEF said
    <2> QED BY <1>1, <1>2, <2>1 DEF PeerRecords
  <1>4. w \in Seq(Payloads) /\ Announced(e, w, q, sequence[e])
    <2> HIDE DEF q
    <2> QED BY <1>1, <1>2, <1>3, AnnouncesNext
  <1>5. /\ peer' = [peer EXCEPT ![e] = q] /\ queue' = [queue EXCEPT ![e] = w]
        /\ armed' \subseteq armed
        /\ UNCHANGED <<attempts, posting, sequence, store, cursor, batch, taken,
                       session, channels, opened, handed>>
    BY DEF Announces, sessions, IInv, Shape
  <1> HIDE DEF q, w
  <1>6. PeerAt(e, q, Len(taken[e]))
    <2>1. Said(q)
      BY <1>1, <1>2, <1>3 DEF Said
    <2>2. Creating(q.ops, q.local)
      BY <1>1, <1>2, <1>3 DEF PeerAt
    <2> QED BY <1>2, <1>3, <2>1, <2>2 DEF PeerAt, Described, AtOnce
  <1> QED BY <1>2, <1>3, <1>4, <1>5, <1>6, PeerMoves

LEMMA OperationStep ==
  ASSUME IInv, NEW e \in Ends, OperationRuns(e)
  PROVE  IInv'
  <1> DEFINE p == peer[e]
  <1>1. /\ p \in PeerRecords /\ p.ops # <<>> /\ queue[e] \in Seq(Payloads)
        /\ queue = [queue EXCEPT ![e] = queue[e]]
    BY DEF OperationRuns, IInv, Shape
  <1>2. session[e] # "none"
    BY <1>1 DEF IInv, EndInv, SessionInv, NewPeer
  <1>3. /\ armed' \subseteq armed
        /\ UNCHANGED <<attempts, posting, sequence, store, cursor, batch, taken,
                       session, channels, opened, handed>>
    BY DEF OperationRuns, sessions
  <1>4. CASE Open(e)
    <2> DEFINE q == Runs(p)
               w == IF Head(p.ops) = "set" THEN Append(queue[e], Description(e)) ELSE queue[e]
    <2>1. /\ session[e] = "open" /\ PeerAt(e, p, Len(taken[e])) /\ Len(taken[e]) \in Nat
          /\ Announced(e, queue[e], p, sequence[e]) /\ sequence[e] \in Nat
      BY <1>4, OpenHas
    <2>2. /\ q \in PeerRecords /\ PeerAt(e, q, Len(taken[e]))
          /\ Head(p.ops) = "set" => p.said = 0 /\ q.said = 1
          /\ Head(p.ops) # "set" => q.said = p.said
      BY <1>1, <2>1, RunsStep
    <2>3. peer' = [peer EXCEPT ![e] = q] /\ queue' = [queue EXCEPT ![e] = w]
      BY <1>1, <1>4 DEF OperationRuns, Active
    <2>4. w \in Seq(Payloads) /\ Announced(e, w, q, sequence[e])
      <3> HIDE DEF q
      <3>1. CASE Head(p.ops) = "set"
        <4>1. n \in Nat /\ Script(e)[1] = Description(e)
          BY CandidateIs, ScriptIs
        <4>2. p.said = 0 /\ q.said = p.said + 1 /\ p.said < n + 2 /\ p.said + 1 = 1
          BY <2>2, <3>1, <4>1
        <4>3. w = Append(queue[e], Script(e)[p.said + 1])
          BY <3>1, <4>1, <4>2
        <4> HIDE DEF w, p
        <4> QED BY <1>1, <2>1, <2>2, <4>2, <4>3, AnnouncesNext
      <3>2. CASE Head(p.ops) # "set"
        BY <1>1, <2>1, <2>2, <3>2 DEF Announced
      <3> QED BY <3>1, <3>2
    <2> HIDE DEF q, w
    <2> QED BY <1>2, <1>3, <2>1, <2>2, <2>3, <2>4, PeerMoves
  <1>5. CASE ~Open(e)
    <2> DEFINE q == [p EXCEPT !.ops = <<>>]
    <2>1. peer' = [peer EXCEPT ![e] = q] /\ queue' = queue
      BY <1>5 DEF OperationRuns, Active
    <2>2. <<>> \in Seq(Operations)
      OBVIOUS
    <2>3. q \in PeerRecords /\ q.applied = p.applied /\ q.remote = p.remote
      BY <1>1, <2>2 DEF PeerRecords
    <2>4. session[e] = "closed"
      BY <1>2, <1>5 DEF Open, IInv, Shape
    <2> HIDE DEF q
    <2> QED BY <1>1, <1>2, <1>3, <2>1, <2>3, <2>4, PeerMoves
  <1> QED BY <1>4, <1>5

LEMMA ConnectedStep ==
  ASSUME IInv, NEW e \in Ends, Connected(e)
  PROVE  IInv'
  <1> DEFINE p == peer[e]
             q == [p EXCEPT !.up = TRUE]
  <1>1. Open(e)
    BY DEF Connected
  <1>2. /\ session[e] = "open" /\ p \in PeerRecords /\ queue[e] \in Seq(Payloads)
        /\ PeerAt(e, p, Len(taken[e])) /\ Announced(e, queue[e], p, sequence[e])
        /\ queue = [queue EXCEPT ![e] = queue[e]]
    BY <1>1, OpenHas DEF IInv, Shape
  <1>3. /\ q \in PeerRecords /\ q.said = p.said /\ q.local = p.local
        /\ q.remote = p.remote /\ q.applied = p.applied /\ q.pending = p.pending
        /\ q.ops = p.ops
    BY <1>2 DEF PeerRecords
  <1>4. /\ peer' = [peer EXCEPT ![e] = q] /\ queue' = queue /\ armed' \subseteq armed
        /\ UNCHANGED <<attempts, posting, sequence, store, cursor, batch, taken,
                       session, channels, opened, handed>>
    BY DEF Connected, signals, IInv, Shape
  <1> HIDE DEF q, p
  <1>5. PeerAt(e, q, Len(taken[e])) /\ Announced(e, queue[e], q, sequence[e])
    BY <1>2, <1>3 DEF PeerAt, Described, AtOnce, Said, Announced
  <1> QED BY <1>2, <1>3, <1>4, <1>5, PeerMoves

\* The head of what waits is given the next number.
LEMMA PublishNextStep ==
  ASSUME IInv, NEW e \in Ends, PublishNext(e)
  PROVE  IInv'
  <1> DEFINE w == queue[e]
             v == Tail(w)
             k == sequence[e]
             s == [seq |-> k + 1, payload |-> Head(w)]
             o == Append(<<>>, s)
  <1>1. /\ Open(e) /\ w # <<>> /\ posting[e] = <<>>
    BY DEF PublishNext, PostsNext
  <1>2. /\ session[e] = "open" /\ peer[e] \in PeerRecords /\ w \in Seq(Payloads)
        /\ PeerAt(e, peer[e], Len(taken[e])) /\ Announced(e, w, peer[e], k) /\ k \in Nat
        /\ Len(w) \in Nat /\ Len(store[e]) \in Nat /\ Len(store[e]) = k
        /\ n \in Nat /\ peer[e].said \in Nat
    BY <1>1, OpenHas, CandidateIs, LengthsIn DEF IInv, EndInv, StoreInv, PeerRecords
  <1>3. /\ v \in Seq(Payloads) /\ Len(v) = Len(w) - 1 /\ Head(w) \in Payloads
        /\ Head(w) = w[1] /\ \A i \in 1..Len(v) : v[i] = w[i + 1]
    BY <1>1, <1>2, HeadTailProperties
  <1>4. Len(w) >= 1 /\ k + Len(w) =< n + 2 /\ k + 1 =< n + 2 /\ k + 1 \in Nat
    <2>1. Len(w) # 0
      BY <1>1, <1>2
    <2>2. k + Len(w) =< n + 2
      BY <1>2 DEF PeerAt, Said, Announced
    <2> QED BY <1>2, <2>1, <2>2
  <1>5. Head(w) = Script(e)[k + 1]
    BY <1>2, <1>3, <1>4 DEF Announced
  <1>6. s = Stored(e, k + 1) /\ s \in Signals /\ o = <<s>>
    BY <1>3, <1>4, <1>5 DEF Stored, Signals
  <1>7. /\ sequence' = [sequence EXCEPT ![e] = k + 1]
        /\ posting' = [posting EXCEPT ![e] = o] /\ queue' = [queue EXCEPT ![e] = v]
        /\ UNCHANGED <<attempt, session, armed, channels, opened, handed, store, cursor,
                       batch, taken, peer>>
    BY <1>1 DEF PublishNext, attempts, sessions, IInv, Shape
  <1> HIDE DEF v, s
  <1>8. <<s>> \in Seq(Signals)
    BY <1>6, SingleIs
  <1>9. Shape'
    BY <1>3, <1>4, <1>6, <1>7, <1>8 DEF IInv, Shape
  <1>10. /\ queue'[e] = v /\ posting'[e] = <<Stored(e, k + 1)>> /\ sequence'[e] = k + 1
         /\ store'[e] = store[e] /\ session'[e] = "open" /\ peer'[e] = peer[e]
         /\ taken'[e] = taken[e]
    BY <1>2, <1>6, <1>7 DEF IInv, Shape
  <1>11. Announced(e, v, peer[e], k + 1)
    <2> HIDE DEF w, k
    <2>1. k + 1 + Len(v) = peer[e].said
      <3>1. k + Len(w) = peer[e].said
        BY <1>2 DEF Announced
      <3> QED BY <1>2, <1>3, <3>1
    <2>2. ASSUME NEW i \in 1..Len(v)
          PROVE  v[i] = Script(e)[k + 1 + i]
      <3>1. i + 1 \in 1..Len(w) /\ k + (i + 1) = k + 1 + i
        BY <1>2, <1>3
      <3> QED BY <1>2, <1>3, <3>1 DEF Announced
    <2> QED BY <2>1, <2>2 DEF Announced
  <1>12. SessionInv(e)'
    BY <1>7, <1>10 DEF IInv, EndInv, SessionInv, Open
  <1>13. PeerInv(e)'
    BY <1>2, <1>10 DEF IInv, EndInv, PeerInv
  <1>14. StoreInv(e)'
    <2>1. <<Stored(e, k + 1)>> # <<>>
      OBVIOUS
    <2> HIDE DEF k
    <2> QED BY <1>2, <1>4, <1>10, <1>11, <2>1 DEF IInv, EndInv, StoreInv, Announced
  <1>15. TakenInv(e)'
    BY <1>7 DEF IInv, EndInv, TakenInv
  <1>16. \A x \in Ends : x # e => Untouched(x)
    BY <1>7 DEF Untouched, IInv, Shape
  <1> QED BY <1>2, <1>9, <1>10, <1>12, <1>13, <1>14, <1>15, <1>16, OneEnd DEF EndInv

\* What is posted is stored behind the others.
LEMMA StoresNext ==
  ASSUME IInv, NEW e \in Ends, posting[e] # <<>>
  PROVE  LET after == Append(store[e], Stored(e, sequence[e]))
         IN  /\ posting[e] = <<Stored(e, sequence[e])>> /\ after \in Seq(Signals)
             /\ after = store[e] \o posting[e]
             /\ Len(after) = sequence[e] /\ Len(store[e]) =< Len(after)
             /\ \A i \in 1..Len(after) : after[i] = Stored(e, i)
  <1> DEFINE k == sequence[e]
             x == Stored(e, k)
             t == store[e]
             after == Append(t, x)
  <1>1. /\ posting[e] = <<x>> /\ Len(t) + 1 = k /\ k =< n + 2
        /\ \A i \in 1..Len(t) : t[i] = Stored(e, i)
    BY DEF IInv, EndInv, StoreInv
  <1>2. /\ t \in Seq(Signals) /\ Len(t) \in Nat /\ k \in Nat /\ n \in Nat
    BY LengthsIn, CandidateIs DEF IInv, Shape
  <1>3. x \in Signals
    <2>1. k \in 1..n + 2
      BY <1>1, <1>2
    <2> QED BY <1>2, <2>1, ScriptIs DEF Stored, Signals
  <1>4. after = t \o <<x>>
    BY <1>2, <1>3
  <1> HIDE DEF k, x, t
  <1>5. /\ after \in Seq(Signals) /\ Len(after) = Len(t) + 1 /\ after[Len(t) + 1] = x
        /\ \A i \in 1..Len(t) : after[i] = t[i]
    BY <1>2, <1>3, AppendIs
  <1> HIDE DEF after
  <1>6. ASSUME NEW i \in 1..Len(after)
        PROVE  after[i] = Stored(e, i)
    <2>1. CASE i = k
      BY <1>1, <1>5, <2>1 DEF x
    <2>2. CASE i # k
      <3>1. i \in 1..Len(t)
        BY <1>1, <1>2, <1>5, <2>2
      <3> QED BY <1>1, <1>5, <3>1
    <2> QED BY <2>1, <2>2
  <1>7. Len(after) = k /\ Len(t) =< Len(after)
    BY <1>1, <1>2, <1>5
  <1> QED BY <1>1, <1>4, <1>5, <1>6, <1>7 DEF after, t, x, k

LEMMA PublishStoredStep ==
  ASSUME IInv, NEW e \in Ends, PublishStored(e)
  PROVE  IInv'
  <1> DEFINE after == Append(store[e], Stored(e, sequence[e]))
  <1>1. PICK i \in DOMAIN posting[e] :
           /\ store' = [store EXCEPT ![e] = Append(@, posting[e][i])]
           /\ posting' = [posting EXCEPT ![e] = RemoveAt(@, i)]
    BY DEF PublishStored
  <1>2. posting[e] # <<>>
    BY <1>1
  <1>3. /\ posting[e] = <<Stored(e, sequence[e])>> /\ after \in Seq(Signals)
        /\ Len(after) = sequence[e] /\ Len(store[e]) =< Len(after)
        /\ \A j \in 1..Len(after) : after[j] = Stored(e, j)
    BY <1>2, StoresNext
  <1>4. i = 1 /\ posting[e][i] = Stored(e, sequence[e]) /\ RemoveAt(posting[e], i) = <<>>
    BY <1>3 DEF RemoveAt
  <1>5. /\ store' = [store EXCEPT ![e] = after] /\ posting' = [posting EXCEPT ![e] = <<>>]
        /\ UNCHANGED <<attempt, session, armed, queue, sequence, cursor, batch, taken,
                       channels, opened, handed, peer>>
    BY <1>1, <1>4 DEF PublishStored, attempts, sessions, IInv, Shape
  <1> HIDE DEF after
  <1>6. <<>> \in Seq(Signals) /\ sequence[e] \in Nat
    BY LengthsIn DEF IInv
  <1>7. Shape'
    BY <1>3, <1>5, <1>6 DEF IInv, Shape
  <1>8. store'[e] = after /\ posting'[e] = <<>>
    BY <1>5 DEF IInv, Shape
  <1>9. SessionInv(e)'
    BY <1>2, <1>5 DEF IInv, EndInv, SessionInv, Open
  <1>10. PeerInv(e)'
    BY <1>5 DEF IInv, EndInv, PeerInv
  <1>11. StoreInv(e)'
    BY <1>3, <1>5, <1>6, <1>8 DEF IInv, EndInv, StoreInv
  <1>12. TakenInv(e)'
    <2>1. store'[Other(e)] = store[Other(e)]
      BY <1>5, OthersIn DEF IInv, Shape
    <2> QED BY <1>5, <2>1 DEF IInv, EndInv, TakenInv
  <1>13. \A x \in Ends : x # e => Untouched(x)
    BY <1>5 DEF Untouched, IInv, Shape
  <1> QED BY <1>3, <1>7, <1>8, <1>9, <1>10, <1>11, <1>12, <1>13, OneEnd DEF EndInv

LEMMA PublishFailsStep ==
  ASSUME IInv, NEW e \in Ends, PublishFails(e)
  PROVE  IInv'
  <1> DEFINE after == Append(store[e], Stored(e, sequence[e]))
  <1>1. /\ Fail(e) /\ CloseSession(e) /\ posting[e] # <<>>
        /\ posting' = [posting EXCEPT ![e] = <<>>]
        /\ UNCHANGED <<sequence, cursor, batch, taken>>
    BY DEF PublishFails, Fail
  <1>2. /\ attempt' \in [Ends -> Stages] /\ attempt'[e] \notin Early
        /\ \A x \in Ends : x # e => attempt'[x] = attempt[x]
    BY <1>1, NotEarly, FailsLate DEF PublishFails, Open
  <1>3. /\ posting[e] = <<Stored(e, sequence[e])>> /\ after \in Seq(Signals)
        /\ after = store[e] \o posting[e]
        /\ Len(after) = sequence[e] /\ Len(store[e]) =< Len(after)
        /\ \A j \in 1..Len(after) : after[j] = Stored(e, j)
    BY <1>1, StoresNext
  <1>4. /\ Len(store[e]) \in Nat /\ sequence[e] \in Nat /\ store[e] \in Seq(Signals)
        /\ \A j \in 1..Len(store[e]) : store[e][j] = Stored(e, j)
        /\ <<>> \in Seq(Signals)
    BY LengthsIn DEF IInv, Shape, EndInv, StoreInv
  <1> HIDE DEF after
  <1>5. store' = store \/ store' = [store EXCEPT ![e] = after]
    BY <1>3 DEF PublishFails
  <1>6. /\ store' \in [Ends -> Seq(Signals)] /\ store'[e] \in {store[e], after}
        /\ \A x \in Ends : x # e => store'[x] = store[x]
    <2>1. store \in [Ends -> Seq(Signals)] /\ after \in Seq(Signals)
      BY <1>3 DEF IInv, Shape
    <2> QED BY <1>5, <2>1
  <1>7. /\ Len(store[e]) =< Len(store'[e]) /\ Len(store'[e]) =< sequence[e]
        /\ \A j \in 1..Len(store'[e]) : store'[e][j] = Stored(e, j)
    <2>1. CASE store'[e] = store[e]
      BY <1>3, <1>4, <2>1
    <2>2. CASE store'[e] = after
      BY <1>3, <1>4, <2>2
    <2> QED BY <1>6, <2>1, <2>2
  <1>8. /\ posting' \in [Ends -> Seq(Signals)] /\ posting'[e] = <<>>
        /\ \A x \in Ends : x # e => posting'[x] = posting[x]
    BY <1>1, <1>4 DEF IInv, Shape
  <1>9. Shape'
    BY <1>1, <1>2, <1>6, <1>8, ClosedHas DEF IInv, Shape, Stages
  <1>10. session'[e] = "closed" /\ e \notin armed'
    BY <1>1, ClosedHas DEF IInv
  <1>11. SessionInv(e)'
    BY <1>2, <1>10 DEF SessionInv
  <1>12. PeerInv(e)'
    BY <1>1, ClosedPeer
  <1>13. StoreInv(e)'
    BY <1>1, <1>7, <1>8, <1>10 DEF IInv, EndInv, StoreInv
  <1>14. TakenInv(e)'
    <2>1. store'[Other(e)] = store[Other(e)]
      BY <1>6, OthersIn
    <2> QED BY <1>1, <1>10, <2>1 DEF IInv, EndInv, TakenInv
  <1>15. \A x \in Ends : x # e => Untouched(x)
    BY <1>1, <1>2, <1>6, <1>8, ClosedHas DEF Untouched, IInv
  <1> QED BY <1>7, <1>9, <1>11, <1>12, <1>13, <1>14, <1>15, OneEnd DEF EndInv

LEMMA SnapshotStep ==
  ASSUME IInv, NEW e \in Ends, SnapshotArrives(e)
  PROVE  IInv'
  <1> DEFINE b == Len(store[Other(e)])
  <1>1. b \in Nat /\ cursor[e] \in Nat /\ cursor[e] < b
    BY OthersIn, LengthsIn DEF IInv, SnapshotArrives
  <1>2. /\ batch' = [batch EXCEPT ![e] = b]
        /\ UNCHANGED <<attempt, session, armed, queue, posting, sequence, store, cursor,
                       taken, channels, opened, handed, peer>>
    BY DEF SnapshotArrives, attempts, sessions
  <1>3. Open(e)
    BY DEF SnapshotArrives
  <1>4. Shape'
    BY <1>1, <1>2 DEF IInv, Shape
  <1>5. batch'[e] = b
    BY <1>2 DEF IInv, Shape
  <1>6. SessionInv(e)'
    BY <1>2, <1>3 DEF IInv, EndInv, SessionInv, Open
  <1>7. PeerInv(e)' /\ StoreInv(e)'
    BY <1>2 DEF IInv, EndInv, PeerInv, StoreInv
  <1>8. TakenInv(e)'
    BY <1>1, <1>2, <1>5 DEF IInv, EndInv, TakenInv
  <1>9. \A x \in Ends : x # e => Untouched(x)
    BY <1>2 DEF Untouched, IInv, Shape
  <1>10. Len(store[e]) =< Len(store'[e])
    BY <1>2, LengthsIn DEF IInv
  <1> QED BY <1>4, <1>6, <1>7, <1>8, <1>9, <1>10, OneEnd DEF EndInv

\* What a batch holds are the next payloads of the other end.
LEMMA UnseenIs ==
  ASSUME IInv, NEW e \in Ends, batch[e] # 0
  PROVE  /\ Unseen(e) \in Seq(Signals) /\ Len(Unseen(e)) = batch[e] - cursor[e]
         /\ \A i \in 1..Len(Unseen(e)) :
               Unseen(e)[i].payload = Script(Other(e))[cursor[e] + i]
  <1> DEFINE t == store[Other(e)]
             c == cursor[e]
             b == batch[e]
             u == SubSeq(t, c + 1, b)
  <1>1. /\ t \in Seq(Signals) /\ Len(t) \in Nat /\ c \in Nat /\ b \in Nat
        /\ \A i \in 1..Len(t) : t[i] = Stored(Other(e), i)
    BY OthersIn, LengthsIn DEF IInv, Shape, EndInv, StoreInv
  <1>2. c < b /\ b =< Len(t)
    BY DEF IInv, EndInv, TakenInv
  <1>3. u = Unseen(e)
    BY DEF Unseen
  <1> HIDE DEF t, c, b
  <1>4. /\ c + 1 \in Int /\ b \in Int
        /\ \A i \in (c + 1)..b : t[i] \in Signals
    BY <1>1, <1>2, ElementOfSeq
  <1>5. /\ u \in Seq(Signals) /\ Len(u) = b - c
        /\ \A i \in 1..b - c : u[i] = t[c + i]
    <2>1. u = [i \in 1..b - c |-> t[c + i]]
      <3>1. (1 - (c + 1)) = -c /\ b - (c + 1) + 1 = b - c
        BY <1>1
      <3>2. u = [i \in 1..(b - (c + 1) + 1) |-> t[i + (c + 1) - 1]]
        BY <1>1, <1>2
      <3>3. \A i \in 1..b - c : i + (c + 1) - 1 = c + i
        BY <1>1
      <3> QED BY <3>1, <3>2, <3>3
    <2>2. b - c \in Nat /\ \A i \in 1..b - c : c + i \in (c + 1)..b
      BY <1>1, <1>2
    <2> HIDE DEF u
    <2>3. \A i \in 1..b - c : t[c + i] \in Signals
      BY <1>4, <2>2
    <2> QED BY <2>1, <2>2, <2>3
  <1> HIDE DEF u
  <1>6. ASSUME NEW i \in 1..Len(u)
        PROVE  u[i].payload = Script(Other(e))[c + i]
    <2>1. i \in 1..b - c /\ c + i \in 1..Len(t)
      BY <1>1, <1>2, <1>5
    <2>2. u[i] = Stored(Other(e), c + i)
      BY <1>1, <1>5, <2>1
    <2> QED BY <2>2 DEF Stored
  <1> QED BY <1>3, <1>5, <1>6 DEF c, b

\* The verified batch is given to an open session.
LEMMA BatchTaken ==
  ASSUME IInv, NEW e \in Ends, batch[e] # 0, Open(e),
         NEW s, s = [i \in DOMAIN Unseen(e) |-> Unseen(e)[i].payload]
  PROVE  /\ taken[e] \o s \in Seq(Payloads) /\ Len(taken[e] \o s) = batch[e]
         /\ \A i \in 1..Len(taken[e] \o s) :
               (taken[e] \o s)[i] = Script(Other(e))[i]
         /\ AcceptsAll(e, peer[e], s) \in PeerRecords
         /\ PeerAt(e, AcceptsAll(e, peer[e], s), batch[e])
         /\ AcceptsAll(e, peer[e], s).said = peer[e].said
  <1> DEFINE o == Other(e)
             t == taken[e]
             c == cursor[e]
             b == batch[e]
             u == Unseen(e)
             m == Len(store[o])
             k == sequence[o]
             r == t \o s
  <1>1. /\ n \in Nat /\ c \in Nat /\ b \in Nat /\ Len(t) = c /\ t \in Seq(Payloads)
        /\ m \in Nat /\ k \in Nat /\ peer[e] \in PeerRecords /\ PeerAt(e, peer[e], c)
        /\ \A i \in 1..Len(t) : t[i] = Script(o)[i]
    BY OthersIn, LengthsIn, CandidateIs DEF IInv, Shape, EndInv, PeerInv, TakenInv, Open
  <1>2. c < b /\ b =< m
    BY DEF IInv, EndInv, TakenInv
  <1>3. k =< n + 2 /\ m =< k
    <2>1. k =< n + 2 /\ (m =< k \/ m + 1 = k)
      BY OthersIn DEF IInv, EndInv, StoreInv
    <2> HIDE DEF m, k
    <2> QED BY <1>1, <2>1
  <1>4. /\ u \in Seq(Signals) /\ Len(u) = b - c
        /\ \A i \in 1..Len(u) : u[i].payload = Script(o)[c + i]
    BY UnseenIs
  <1> HIDE DEF o, t, c, b, u, m, k
  <1>5. s \in Seq(Payloads) /\ Len(s) = b - c /\ \A i \in 1..Len(s) : s[i] = Script(o)[c + i]
    <2>1. s = [i \in 1..b - c |-> u[i].payload] /\ b - c \in Nat
      BY <1>1, <1>2, <1>4 DEF u
    <2>2. \A i \in 1..b - c : u[i].payload \in Payloads
      <3>1. \A i \in 1..b - c : u[i] \in Signals
        BY <1>4, ElementOfSeq
      <3> QED BY <3>1 DEF Signals
    <2> QED BY <1>4, <2>1, <2>2
  <1>6. NextPayloads(e, s, c) /\ c + Len(s) = b /\ b =< n + 2
    <2>1. NextPayloads(e, s, c)
      BY <1>5 DEF NextPayloads, o
    <2>2. Len(s) = b - c
      BY <1>5
    <2>3. n \in Nat /\ c \in Nat /\ b \in Nat /\ m \in Nat /\ k \in Nat
      BY <1>1
    <2>4. c + Len(s) = b
      BY <2>2, <2>3
    <2>5. b =< n + 2
      BY <1>2, <1>3, <2>3
    <2> QED BY <2>1, <2>4, <2>5
  <1>7. /\ AcceptsAll(e, peer[e], s) \in PeerRecords
        /\ PeerAt(e, AcceptsAll(e, peer[e], s), b)
        /\ AcceptsAll(e, peer[e], s).said = peer[e].said
    BY <1>1, <1>5, <1>6, BatchAccepted
  <1>8. /\ r \in Seq(Payloads) /\ Len(r) = Len(t) + Len(s)
        /\ \A i \in 1..Len(t) + Len(s) : r[i] = IF i =< Len(t) THEN t[i] ELSE s[i - Len(t)]
    BY <1>1, <1>5, ConcatProperties
  <1> HIDE DEF r
  <1>9. Len(r) = b
    BY <1>1, <1>6, <1>8
  <1>10. ASSUME NEW i \in 1..Len(r)
         PROVE  r[i] = Script(o)[i]
    <2>1. CASE i =< Len(t)
      BY <1>1, <1>8, <1>9, <2>1
    <2>2. CASE ~(i =< Len(t))
      <3>1. i - c \in 1..Len(s) /\ c + (i - c) = i
        BY <1>1, <1>2, <1>5, <1>9, <2>2
      <3>2. r[i] = s[i - c]
        BY <1>1, <1>8, <2>2
      <3> QED BY <1>5, <3>1, <3>2
    <2> QED BY <2>1, <2>2
  <1> QED BY <1>7, <1>8, <1>9, <1>10 DEF r, t, b, o

LEMMA BatchStep ==
  ASSUME IInv, NEW e \in Ends, BatchVerified(e)
  PROVE  IInv'
  <1> DEFINE b == batch[e]
  <1>1. /\ b # 0 /\ b \in Nat /\ cursor[e] \in Nat /\ Len(taken[e]) \in Nat
        /\ batch' = [batch EXCEPT ![e] = 0] /\ cursor' = [cursor EXCEPT ![e] = b]
        /\ UNCHANGED <<posting, sequence, store>>
    BY LengthsIn DEF BatchVerified, IInv
  <1>2. /\ cursor' \in [Ends -> Nat] /\ batch' \in [Ends -> Nat]
        /\ cursor'[e] = b /\ batch'[e] = 0
        /\ \A x \in Ends : x # e => cursor'[x] = cursor[x] /\ batch'[x] = batch[x]
    BY <1>1 DEF IInv, Shape
  <1>3. session[e] # "none" /\ attempt[e] \notin Early
    BY <1>1 DEF IInv, EndInv, SessionInv
  <1>4. b =< Len(store[Other(e)]) /\ Len(taken[e]) =< b /\ store'[Other(e)] = store[Other(e)]
    <2>1. b =< Len(store[Other(e)]) /\ cursor[e] < b /\ Len(taken[e]) =< cursor[e]
      BY <1>1 DEF IInv, EndInv, TakenInv
    <2> HIDE DEF b
    <2> QED BY <1>1, <2>1
  <1>5. Len(store[e]) =< Len(store'[e])
    BY <1>1, LengthsIn DEF IInv
  <1>6. CASE Open(e) /\ Contiguous(e) /\ ForRole(e)
    <2> DEFINE s == [i \in DOMAIN Unseen(e) |-> Unseen(e)[i].payload]
               r == taken[e] \o s
               q == AcceptsAll(e, peer[e], s)
    <2>1. /\ taken' = [taken EXCEPT ![e] = r] /\ peer' = [peer EXCEPT ![e] = q]
          /\ UNCHANGED <<attempt, session, armed, channels, opened, handed, queue>>
      BY <1>6 DEF BatchVerified, Active, attempts, sessions, IInv, Shape
    <2>2. /\ r \in Seq(Payloads) /\ Len(r) = b
          /\ \A i \in 1..Len(r) : r[i] = Script(Other(e))[i]
          /\ q \in PeerRecords /\ PeerAt(e, q, b) /\ q.said = peer[e].said
      BY <1>1, <1>6, BatchTaken
    <2> HIDE DEF r, q, b
    <2>3. Shape'
      BY <1>1, <1>2, <2>1, <2>2 DEF IInv, Shape
    <2>4. taken'[e] = r /\ peer'[e] = q /\ session'[e] = "open"
      BY <1>6, <2>1 DEF IInv, Shape, Open
    <2>5. SessionInv(e)'
      BY <1>3, <2>1, <2>4 DEF SessionInv, Open
    <2>6. PeerInv(e)'
      <3>1. q.applied \in Seq(Payloads) /\ q.pending \in Seq(Payloads)
        BY <2>2 DEF PeerRecords
      <3>2. Len(q.applied) =< n
        BY <1>1, <2>2, <3>1, AtMostAll DEF PeerAt
      <3> QED BY <2>2, <2>4, <3>2 DEF PeerInv, PeerAt
    <2>7. StoreInv(e)'
      BY <1>1, <2>1, <2>2, <2>4 DEF IInv, EndInv, StoreInv
    <2>8. TakenInv(e)'
      BY <1>1, <1>2, <1>4, <2>2, <2>4 DEF TakenInv
    <2>9. \A x \in Ends : x # e => Untouched(x)
      BY <1>1, <1>2, <2>1 DEF Untouched, IInv, Shape
    <2> QED BY <1>5, <2>3, <2>5, <2>6, <2>7, <2>8, <2>9, OneEnd DEF EndInv
  <1>7. CASE Open(e) /\ ~(Contiguous(e) /\ ForRole(e))
    <2>1. Fail(e) /\ CloseSession(e) /\ taken' = taken
      BY <1>7 DEF BatchVerified, Active, Fail
    <2>2. /\ attempt' \in [Ends -> Stages] /\ attempt'[e] \notin Early
          /\ \A x \in Ends : x # e => attempt'[x] = attempt[x]
      BY <1>3, <2>1, FailsLate
    <2>3. Shape'
      BY <1>1, <1>2, <2>1, <2>2, ClosedHas DEF IInv, Shape, Stages
    <2>4. session'[e] = "closed" /\ e \notin armed'
      BY <2>1, ClosedHas DEF IInv
    <2>5. SessionInv(e)'
      BY <2>2, <2>4 DEF SessionInv
    <2>6. PeerInv(e)'
      BY <2>1, ClosedPeer
    <2>7. StoreInv(e)'
      BY <1>1, <2>4 DEF IInv, EndInv, StoreInv
    <2>8. TakenInv(e)'
      BY <1>2, <1>4, <2>1, <2>4 DEF IInv, EndInv, TakenInv
    <2>9. \A x \in Ends : x # e => Untouched(x)
      BY <1>1, <1>2, <2>1, <2>2, ClosedHas DEF Untouched, IInv
    <2> QED BY <1>5, <2>3, <2>5, <2>6, <2>7, <2>8, <2>9, OneEnd DEF EndInv
  <1>8. CASE ~Open(e)
    <2>1. UNCHANGED <<attempt, session, armed, channels, opened, handed, queue, taken, peer>>
      BY <1>8 DEF BatchVerified, Active, attempts, sessions
    <2>2. session[e] = "closed"
      BY <1>3, <1>8 DEF IInv, Shape, Open
    <2>3. Shape'
      BY <1>1, <1>2, <2>1 DEF IInv, Shape
    <2>4. SessionInv(e)' /\ PeerInv(e)' /\ StoreInv(e)'
      BY <1>1, <1>3, <2>1, <2>2 DEF IInv, EndInv, SessionInv, PeerInv, StoreInv, Open
    <2>5. TakenInv(e)'
      BY <1>2, <1>4, <2>1, <2>2 DEF IInv, EndInv, TakenInv
    <2>6. \A x \in Ends : x # e => Untouched(x)
      BY <1>1, <1>2, <2>1 DEF Untouched, IInv, Shape
    <2> QED BY <1>5, <2>3, <2>4, <2>5, <2>6, OneEnd DEF EndInv
  <1> QED BY <1>6, <1>7, <1>8

-----------------------------------------------------------------------------
LEMMA InitInv == Init => IInv
  <1> SUFFICES ASSUME Init
               PROVE  IInv
    OBVIOUS
  <1>1. /\ n \in Nat /\ <<>> \in Seq(Payloads) /\ <<>> \in Seq(Signals) /\ Len(<<>>) = 0
        /\ <<>> \in Seq(Payloads)
    BY CandidateIs
  <1>2. Shape
    BY <1>1, NewIs DEF Init, Shape, Early, Ends
  <1>3. ASSUME NEW e \in Ends
        PROVE  EndInv(e)
    <2>1. /\ session[e] = "none" /\ peer[e] = NewPeer /\ queue[e] = <<>>
          /\ posting[e] = <<>> /\ sequence[e] = 0 /\ store[e] = <<>> /\ cursor[e] = 0
          /\ batch[e] = 0 /\ taken[e] = <<>> /\ e \notin armed /\ store[Other(e)] = <<>>
      BY OthersIn DEF Init
    <2>2. SessionInv(e)
      BY <2>1 DEF SessionInv
    <2>3. PeerInv(e)
      <3>1. PeerAt(e, NewPeer, 0) /\ NewPeer.applied = <<>>
        BY NewIs DEF NewPeer
      <3>2. PeerAt(e, peer[e], Len(taken[e])) /\ Len(peer[e].applied) = 0
        BY <1>1, <2>1, <3>1
      <3> QED BY <1>1, <3>2 DEF PeerInv, PeerAt
    <2>4. StoreInv(e)
      BY <1>1, <2>1 DEF StoreInv, NewPeer
    <2>5. TakenInv(e)
      BY <1>1, <2>1 DEF TakenInv
    <2> QED BY <2>2, <2>3, <2>4, <2>5 DEF EndInv
  <1> QED BY <1>2, <1>3 DEF IInv

LEMMA NextInv == IInv /\ [Next]_vars => IInv'
  <1> SUFFICES ASSUME IInv, [Next]_vars
               PROVE  IInv'
    OBVIOUS
  <1>1. CASE UNCHANGED vars
    BY <1>1 DEF vars, attempts, signals, sessions, IInv, Shape, EndInv, SessionInv, PeerInv,
       StoreInv, TakenInv, Open
  <1>2. CASE Connect \/ CreateAnswered \/ Decided \/ ApprovalWaitEnds \/ HostAccepts
    BY <1>2, AttemptsStep
  <1>3. CASE HandshakeEnds
    BY <1>3, HandshakeStep
  <1>4. CASE HostDrops
    BY <1>4, HostDropsStep
  <1>5. ASSUME NEW l \in Labels, ChannelArrives(l)
        PROVE  IInv'
    BY <1>5, ChannelsStep
  <1>6. ASSUME NEW e \in Ends,
               \/ Prepared(e) \/ OperationRuns(e) \/ Announces(e)
               \/ PublishNext(e) \/ PublishStored(e) \/ PublishFails(e)
               \/ SnapshotArrives(e) \/ BatchVerified(e)
               \/ Connected(e) \/ PeerFails(e) \/ DeadlineFires(e) \/ CloseConnector(e)
        PROVE  IInv'
    BY <1>6, PreparedStep, OperationStep, AnnouncesStep, PublishNextStep, PublishStoredStep,
       PublishFailsStep, SnapshotStep, BatchStep, ConnectedStep, FailStep, ConnectorStep
  <1>7. ASSUME NEW e \in Ends, NEW l \in Labels, ChannelOpens(e, l)
        PROVE  IInv'
    BY <1>7, ChannelsStep
  <1> QED BY <1>1, <1>2, <1>3, <1>4, <1>5, <1>6, <1>7 DEF Next

LEMMA Invariance == Spec => []IInv
  BY InitInv, NextInv, PTL DEF Spec

-----------------------------------------------------------------------------
(* The theorems.                                                           *)

LEMMA PrefixIs ==
  ASSUME NEW S, NEW s \in Seq(S), NEW t \in Seq(S), Len(s) =< Len(t),
         \A i \in 1..Len(s) : s[i] = t[i]
  PROVE  IsPrefix(s, t)
  <1>1. Len(s) \in Nat
    OBVIOUS
  <1>2. SubSeq(s, 1, Len(s)) = [i \in 1..Len(s) |-> s[i]]
    BY <1>1
  <1>3. SubSeq(t, 1, Len(s)) = [i \in 1..Len(s) |-> t[i]]
    BY <1>1
  <1> QED BY <1>2, <1>3 DEF IsPrefix

\* For any number of candidates: what an end stored is its negotiation without a gap, and
\* what the other end was given is a prefix of it, each once (acceptSignals and
\* publishTail, whatever publication fails or whose answer is lost).
THEOREM SignalsKeepOrder == Spec => []SignalsInOrder
  <1>1. ASSUME IInv
        PROVE  SignalsInOrder
    <2> SUFFICES ASSUME NEW e \in Ends
                 PROVE  /\ \A i \in DOMAIN store[e] :
                              store[e][i] = [seq |-> i, payload |-> Script(e)[i]]
                        /\ IsPrefix(taken[e], Script(Other(e)))
      BY DEF SignalsInOrder
    <2>1. /\ store[e] \in Seq(Signals)
          /\ \A i \in 1..Len(store[e]) : store[e][i] = Stored(e, i)
      BY <1>1 DEF IInv, Shape, EndInv, StoreInv
    <2>2. \A i \in DOMAIN store[e] : store[e][i] = [seq |-> i, payload |-> Script(e)[i]]
      BY <2>1 DEF Stored
    <2> DEFINE o == Other(e)
               t == taken[e]
               c == cursor[e]
               m == Len(store[o])
               k == sequence[o]
    <2>3. /\ n \in Nat /\ t \in Seq(Payloads) /\ Len(t) \in Nat /\ c \in Nat /\ m \in Nat
          /\ k \in Nat /\ \A i \in 1..Len(t) : t[i] = Script(o)[i]
      BY <1>1, OthersIn, LengthsIn, CandidateIs DEF IInv, Shape, EndInv, TakenInv
    <2>4. Len(t) =< c /\ c =< m /\ k =< n + 2 /\ (m =< k \/ m + 1 = k)
      BY <1>1, OthersIn DEF IInv, EndInv, TakenInv, StoreInv
    <2>5. o \in Ends /\ Script(o) \in Seq(Payloads) /\ Len(Script(o)) = n + 2
      BY OthersIn, ScriptIs
    <2> HIDE DEF t, o, c, m, k
    <2>6. Len(t) =< Len(Script(o))
      BY <2>3, <2>4, <2>5
    <2>7. IsPrefix(t, Script(o))
      BY <2>3, <2>5, <2>6, PrefixIs
    <2> QED BY <2>2, <2>7 DEF t, o
  <1> QED BY <1>1, Invariance, PTL

\* For any number of candidates and any adapter: a candidate reaches the connection in
\* the order it was announced and never before the description (addRemoteCandidate and
\* the queue of the browser's adapter).
THEOREM CandidatesKeepOrder == Spec => []CandidatesFollow
  <1>1. ASSUME IInv
        PROVE  CandidatesFollow
    <2> SUFFICES ASSUME NEW e \in Ends
                 PROVE  /\ peer[e].applied # <<>> => peer[e].remote
                        /\ IsPrefix(peer[e].applied, Candidates)
      BY DEF CandidatesFollow
    <2>1. peer[e].applied \in Seq(Payloads) /\ Candidates \in Seq(Payloads)
      BY <1>1, CandidateIs DEF IInv, Shape, PeerRecords
    <2>2. /\ Len(peer[e].applied) =< Len(Candidates)
          /\ \A i \in 1..Len(peer[e].applied) : peer[e].applied[i] = Candidates[i]
          /\ peer[e].applied # <<>> => peer[e].remote
      BY <1>1 DEF IInv, EndInv, PeerInv, InOrder, Described, n
    <2> QED BY <2>1, <2>2, PrefixIs
  <1> QED BY <1>1, Invariance, PTL

\* What ClosedIsQuiet says of one end.
Quiet(e) ==
    session[e] = "closed" =>
       /\ session'[e] = "closed" /\ handed'[e] = handed[e]
       /\ sequence'[e] = sequence[e] /\ taken'[e] = taken[e]
       /\ peer'[e].local = peer[e].local /\ peer'[e].remote = peer[e].remote
       /\ peer'[e].applied = peer[e].applied

HandedOnce(e) ==
    handed'[e] # handed[e] => handed[e] = 0 /\ opened'[e] = Labels /\ session'[e] = "open"

LEMMA ClosesQuietly ==
  ASSUME IInv, NEW x \in Ends, CloseSession(x), UNCHANGED <<sequence, taken>>
  PROVE  \A e \in Ends : Quiet(e) /\ HandedOnce(e)
  <1>1. handed' = handed
    BY DEF CloseSession
  <1> QED BY <1>1, ClosedHas DEF IInv, Quiet, HandedOnce

LEMMA PeerQuiet ==
  ASSUME IInv, NEW x \in Ends,
         \/ Prepared(x) \/ OperationRuns(x) \/ Announces(x) \/ Connected(x)
  PROVE  \A e \in Ends : Quiet(e)
  <1> SUFFICES ASSUME NEW e \in Ends, session[e] = "closed"
               PROVE  /\ session'[e] = "closed" /\ handed'[e] = handed[e]
                      /\ sequence'[e] = sequence[e] /\ taken'[e] = taken[e]
                      /\ peer'[e].local = peer[e].local /\ peer'[e].remote = peer[e].remote
                      /\ peer'[e].applied = peer[e].applied
    BY DEF Quiet
  <1>1. peer \in [Ends -> PeerRecords] /\ session \in [Ends -> {"none", "open", "closed"}]
    BY DEF IInv, Shape
  <1>2. ~Open(e) /\ attempt[e] # "preparing"
    BY DEF Open, IInv, EndInv, SessionInv, Early
  <1>3. CASE Prepared(x)
    <2>1. x # e /\ UNCHANGED <<handed, sequence, taken>>
      BY <1>2, <1>3 DEF Prepared, sessions, signals
    <2>2. session'[e] = session[e] /\ peer'[e] = peer[e]
      BY <1>1, <1>3, <2>1 DEF Prepared, sessions
    <2> QED BY <2>1, <2>2
  <1>4. CASE OperationRuns(x)
    <2>1. UNCHANGED <<session, handed, sequence, taken>>
      BY <1>4 DEF OperationRuns, sessions
    <2>2. CASE x = e
      <3>1. peer'[e] = [peer[e] EXCEPT !.ops = <<>>]
        BY <1>1, <1>2, <1>4, <2>2 DEF OperationRuns, Active
      <3>2. /\ peer'[e].local = peer[e].local /\ peer'[e].remote = peer[e].remote
            /\ peer'[e].applied = peer[e].applied
        BY <1>1, <3>1 DEF PeerRecords
      <3> QED BY <2>1, <3>2
    <2>3. CASE x # e
      <3>1. peer'[e] = peer[e]
        BY <1>1, <1>4, <2>3 DEF OperationRuns
      <3> QED BY <2>1, <3>1
    <2> QED BY <2>2, <2>3
  <1>5. CASE Announces(x)
    <2>1. x # e /\ UNCHANGED <<session, handed, sequence, taken>>
      BY <1>2, <1>5 DEF Announces, sessions
    <2>2. peer'[e] = peer[e]
      BY <1>1, <1>5, <2>1 DEF Announces
    <2> QED BY <2>1, <2>2
  <1>6. CASE Connected(x)
    <2>1. x # e /\ UNCHANGED <<session, handed, sequence, taken>>
      BY <1>2, <1>6 DEF Connected, signals
    <2>2. peer'[e] = peer[e]
      BY <1>1, <1>6, <2>1 DEF Connected
    <2> QED BY <2>1, <2>2
  <1> QED BY <1>3, <1>4, <1>5, <1>6

LEMMA SignalQuiet ==
  ASSUME IInv, NEW x \in Ends,
         \/ PublishNext(x) \/ PublishStored(x) \/ SnapshotArrives(x)
         \/ BatchVerified(x) /\ ~Fail(x)
  PROVE  \A e \in Ends : Quiet(e)
  <1> SUFFICES ASSUME NEW e \in Ends, session[e] = "closed"
               PROVE  /\ session'[e] = "closed" /\ handed'[e] = handed[e]
                      /\ sequence'[e] = sequence[e] /\ taken'[e] = taken[e]
                      /\ peer'[e] = peer[e]
    BY DEF Quiet
  <1>1. /\ peer \in [Ends -> PeerRecords] /\ taken \in [Ends -> Seq(Payloads)]
        /\ sequence \in [Ends -> Nat]
    BY DEF IInv, Shape
  <1>2. ~Open(e)
    BY DEF Open
  <1>3. CASE PublishNext(x)
    BY <1>1, <1>2, <1>3 DEF PublishNext, sessions
  <1>4. CASE PublishStored(x) \/ SnapshotArrives(x)
    BY <1>4 DEF PublishStored, SnapshotArrives, sessions
  <1>5. CASE BatchVerified(x) /\ ~Fail(x)
    <2>1. CASE Open(x) /\ Contiguous(x) /\ ForRole(x)
      <3>1. x # e /\ UNCHANGED <<sessions, sequence>>
        BY <1>2, <1>5, <2>1 DEF BatchVerified, Active
      <3>2. taken'[e] = taken[e] /\ peer'[e] = peer[e]
        BY <1>1, <1>5, <2>1, <3>1 DEF BatchVerified, Active
      <3> QED BY <3>1, <3>2 DEF sessions
    <2>2. CASE ~(Open(x) /\ Contiguous(x) /\ ForRole(x))
      BY <1>5, <2>2 DEF BatchVerified, Active, sessions
    <2> QED BY <2>1, <2>2
  <1> QED BY <1>3, <1>4, <1>5

LEMMA StepIsQuiet ==
  ASSUME IInv, [Next]_vars
  PROVE  \A e \in Ends : Quiet(e) /\ HandedOnce(e)
  <1>1. CASE UNCHANGED vars
    BY <1>1 DEF vars, attempts, signals, sessions, Quiet, HandedOnce
  <1>2. CASE Connect \/ CreateAnswered \/ Decided \/ ApprovalWaitEnds \/ HostAccepts
    <2>1. UNCHANGED <<signals, sessions, peer>>
      BY <1>2 DEF Connect, CreateAnswered, Decided, ApprovalWaitEnds, HostAccepts
    <2> QED BY <2>1 DEF signals, sessions, Quiet, HandedOnce
  <1>3. CASE HandshakeEnds
    <2>1. UNCHANGED <<sequence, taken>> /\ "client" \in Ends
      BY <1>3 DEF HandshakeEnds, Ends
    <2>2. CloseSession("client") \/ UNCHANGED <<sessions, queue, peer>>
      BY <1>3 DEF HandshakeEnds
    <2>3. CASE UNCHANGED <<sessions, queue, peer>>
      BY <2>1, <2>3 DEF sessions, Quiet, HandedOnce
    <2> QED BY <2>1, <2>2, <2>3, ClosesQuietly
  <1>4. CASE HostDrops
    <2>1. UNCHANGED <<sequence, taken>> /\ "host" \in Ends /\ CloseSession("host")
      BY <1>4 DEF HostDrops, Ends
    <2> QED BY <2>1, ClosesQuietly
  <1>5. ASSUME NEW l \in Labels, ChannelArrives(l)
        PROVE  \A e \in Ends : Quiet(e) /\ HandedOnce(e)
    BY <1>5 DEF ChannelArrives, signals, Quiet, HandedOnce
  <1>6. ASSUME NEW x \in Ends,
               Prepared(x) \/ OperationRuns(x) \/ Announces(x) \/ Connected(x)
        PROVE  \A e \in Ends : Quiet(e) /\ HandedOnce(e)
    <2>1. handed' = handed
      BY <1>6 DEF Prepared, OperationRuns, Announces, Connected, sessions
    <2> QED BY <1>6, <2>1, PeerQuiet DEF HandedOnce
  <1>7. ASSUME NEW x \in Ends,
               PublishNext(x) \/ PublishStored(x) \/ SnapshotArrives(x) \/ BatchVerified(x)
        PROVE  \A e \in Ends : Quiet(e) /\ HandedOnce(e)
    <2>1. CASE BatchVerified(x) /\ Fail(x) /\ taken' = taken
      <3>1. UNCHANGED <<sequence, taken>> /\ CloseSession(x)
        BY <2>1 DEF BatchVerified, Fail
      <3> QED BY <3>1, ClosesQuietly
    <2>2. CASE BatchVerified(x) /\ ~Fail(x)
      <3>1. handed' = handed
        BY <2>2 DEF BatchVerified, sessions
      <3> QED BY <2>2, <3>1, SignalQuiet DEF HandedOnce
    <2>3. CASE PublishNext(x) \/ PublishStored(x) \/ SnapshotArrives(x)
      <3>1. handed' = handed
        BY <2>3 DEF PublishNext, PublishStored, SnapshotArrives, sessions
      <3> QED BY <2>3, <3>1, SignalQuiet DEF HandedOnce
    <2>4. CASE BatchVerified(x) /\ Fail(x) /\ taken' # taken
      <3>1. Open(x) /\ UNCHANGED session
        BY <2>4 DEF BatchVerified, Active, sessions
      <3>2. session'[x] = "closed"
        BY <2>4, ClosedHas DEF Fail, IInv
      <3> QED BY <3>1, <3>2 DEF Open
    <2> QED BY <1>7, <2>1, <2>2, <2>3, <2>4
  <1>8. ASSUME NEW x \in Ends, PublishFails(x) \/ PeerFails(x) \/ DeadlineFires(x)
        PROVE  \A e \in Ends : Quiet(e) /\ HandedOnce(e)
    <2>1. UNCHANGED <<sequence, taken>> /\ CloseSession(x)
      BY <1>8 DEF PublishFails, PeerFails, DeadlineFires, Fail
    <2> QED BY <2>1, ClosesQuietly
  <1>9. ASSUME NEW x \in Ends, CloseConnector(x)
        PROVE  \A e \in Ends : Quiet(e) /\ HandedOnce(e)
    <2>1. UNCHANGED <<sequence, taken>>
      BY <1>9 DEF CloseConnector
    <2>2. CloseSession(x) \/ UNCHANGED <<sessions, queue, peer>>
      BY <1>9 DEF CloseConnector
    <2>3. CASE UNCHANGED <<sessions, queue, peer>>
      BY <2>1, <2>3 DEF sessions, Quiet, HandedOnce
    <2> QED BY <2>1, <2>2, <2>3, ClosesQuietly
  <1>10. ASSUME NEW x \in Ends, NEW l \in Labels, ChannelOpens(x, l)
         PROVE  \A e \in Ends : Quiet(e) /\ HandedOnce(e)
    <2>1. UNCHANGED <<signals, session, peer>> /\ Open(x) /\ handed \in [Ends -> Nat]
      BY <1>10 DEF ChannelOpens, IInv, Shape
    <2>2. ASSUME NEW e \in Ends, handed'[e] # handed[e]
          PROVE  e = x /\ handed[x] = 0 /\ opened'[x] = Labels
      BY <1>10, <2>1, <2>2 DEF ChannelOpens
    <2>3. \A e \in Ends : session[e] = "closed" => handed'[e] = handed[e]
      BY <2>1, <2>2 DEF Open
    <2> QED BY <2>1, <2>2, <2>3 DEF signals, Quiet, HandedOnce, Open
  <1> QED BY <1>1, <1>2, <1>3, <1>4, <1>5, <1>6, <1>7, <1>8, <1>9, <1>10 DEF Next

\* A closed session stays closed and does nothing more, and the channels are handed over
\* once, both open, by an open session (close, acceptSignals and maybeComplete).
THEOREM ClosedStaysQuiet == Spec => ClosedIsQuiet
  <1> DEFINE Step ==
        \A e \in Ends :
          /\ session[e] = "closed" =>
                /\ session'[e] = "closed" /\ handed'[e] = handed[e]
                /\ sequence'[e] = sequence[e] /\ taken'[e] = taken[e]
                /\ peer'[e].local = peer[e].local /\ peer'[e].remote = peer[e].remote
                /\ peer'[e].applied = peer[e].applied
          /\ handed'[e] # handed[e] =>
                handed[e] = 0 /\ opened'[e] = Labels /\ session'[e] = "open"
  <1>1. IInv /\ [Next]_vars => [Step]_vars
    BY StepIsQuiet DEF Quiet, HandedOnce
  <1> HIDE DEF Step
  <1>2. Spec => [][Step]_vars
    BY <1>1, Invariance, PTL DEF Spec
  <1> QED BY <1>2 DEF Step, ClosedIsQuiet
=============================================================================
