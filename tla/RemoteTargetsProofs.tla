------------------------ MODULE RemoteTargetsProofs ------------------------
(***************************************************************************)
(* What is proved of RemoteTargets: the two invariants of the client side  *)
(* of remote access, for any number of attempts, activations and           *)
(* terminals.                                                              *)
(***************************************************************************)
EXTENDS RemoteTargets, FiniteSetTheorems, SequenceTheorems, TLAPS

-----------------------------------------------------------------------------
(* The inductive invariant *)

ProxyRecords == [via : Attempts, connected : BOOLEAN, visible : BOOLEAN,
                 shown : {"running", "exited"}]

HostTyped == /\ connector \in {None, activations}
             /\ activations \in 0..MaxActivations
             /\ refreshing \in BOOLEAN
TargetTyped == /\ target \in [listed : BOOLEAN, state : TargetStates]
               /\ connecting \in Attempts \cup {None}
               /\ peer \in Attempts \cup {None}
AttemptsTyped == attempts \in [Attempts -> AttemptRecords]

\* What an attempt has created, by how far it came.
Sound(record) ==
    /\ record.deadline => /\ record.stage = "negotiating"
                          /\ record.session = "open" /\ ~record.rtc
    /\ record.stage \in {"none", "listing", "joined", "creating", "approval",
                         "preparing"} => record.session = "none" /\ ~record.rtc
    /\ record.stage \notin {"handshake", "connected", "failed"}
         => record.channels = "none" /\ record.client = "none"
    /\ record.stage = "handshake" => /\ record.session = "open"
                                     /\ record.client = "open"
    /\ record.stage = "failed" => record.session # "open"
    /\ record.channels = "open" => /\ record.client = "open"
                                   /\ record.stage # "failed"
AttemptsSound == \A a \in Attempts : Sound(attempts[a])

PeerInv == /\ peer # None => attempts[peer].stage = "connected"
           /\ target.state = "connected" => peer # None

\* The terminals ps, the requests rs and the subscriptions sub of the router,
\* when the attempts are at: everything is typed,
RouterTyped(ps, rs, sub) ==
    /\ ps \in Seq(ProxyRecords)
    /\ rs \subseteq Requests /\ IsFiniteSet(rs)
    /\ sub \subseteq Attempts

\* a terminal that is being launched has its place in the map already,
Launches(rs) == {r \in rs : r.kind = "launch"}
HasRoom(ps, rs) == Len(ps) + Cardinality(Launches(rs)) <= MaxTerminals

\* a connection the router has anything to do with was established, and tells
\* the router of its end,
Known(a, sub, at) == a \in sub /\ at[a].stage = "connected"

\* the terminals shown as connected have one that did not tell yet,
ProxiesHold(ps, sub, at) ==
    \A t \in DOMAIN ps :
        ps[t].connected => /\ Known(ps[t].via, sub, at)
                           /\ at[ps[t].via].client # "failed"

\* and an attach that is under way is the only one of its terminal.
RequestsHold(ps, rs, sub, at) ==
    \A r \in rs :
        /\ Known(r.via, sub, at)
        /\ r.kind # "launch" => r.terminal \in DOMAIN ps
        /\ r.kind = "attach" =>
              /\ ps[r.terminal].via = r.via
              /\ \A s \in rs :
                    s.kind = "attach" /\ s.terminal = r.terminal => s = r

RouterHolds(ps, rs, sub, at) ==
    /\ RouterTyped(ps, rs, sub)
    /\ HasRoom(ps, rs)
    /\ ProxiesHold(ps, sub, at)
    /\ RequestsHold(ps, rs, sub, at)

HostedKnown == hosted \subseteq DOMAIN proxies

TargetsInv == /\ HostTyped /\ TargetTyped /\ AttemptsTyped
              /\ AttemptsSound
              /\ PeerInv
              /\ RouterHolds(proxies, requests, subscribed, attempts)
              /\ HostedKnown

-----------------------------------------------------------------------------
(* The requests and the terminals *)

LEMMA RequestsTyped ==
    ASSUME NEW r \in Requests
    PROVE  /\ r.kind \in {"launch", "attach", "detach"}
           /\ r.via \in Attempts
           /\ r.kind # "launch" => r.terminal \in 1..MaxTerminals
  BY DEF Requests

\* The requests that remain when some have ended.
LEMMA FewerRequests ==
    ASSUME NEW ps, NEW rs, NEW sub, NEW at, RouterHolds(ps, rs, sub, at),
           NEW left \in SUBSET rs
    PROVE  RouterHolds(ps, left, sub, at)
<1>1. /\ Launches(left) \subseteq Launches(rs)
      /\ Launches(rs) \subseteq rs
  BY DEF Launches
<1>2. IsFiniteSet(rs) /\ IsFiniteSet(left) /\ IsFiniteSet(Launches(rs))
  BY <1>1, FS_Subset DEF RouterHolds, RouterTyped
<1>3. /\ Cardinality(Launches(left)) \in Nat
      /\ Cardinality(Launches(rs)) \in Nat
      /\ Cardinality(Launches(left)) <= Cardinality(Launches(rs))
  BY <1>1, <1>2, FS_Subset, FS_CardinalityType
<1>4. Len(ps) \in Nat
  BY LenProperties DEF RouterHolds, RouterTyped
<1>5. HasRoom(ps, left)
  BY <1>3, <1>4, RemoteTargetsAssumption DEF RouterHolds, HasRoom
<1>6. RequestsHold(ps, left, sub, at)
  BY DEF RouterHolds, RequestsHold
<1>7. RouterTyped(ps, left, sub)
  BY <1>2 DEF RouterHolds, RouterTyped
<1> QED BY <1>5, <1>6, <1>7 DEF RouterHolds

\* A further request that is no launch, on a connection the router knows.
LEMMA FurtherRequest ==
    ASSUME NEW ps, NEW rs, NEW sub, NEW at, RouterHolds(ps, rs, sub, at),
           NEW r \in Requests, r.kind # "launch",
           Known(r.via, sub, at), r.terminal \in DOMAIN ps,
           r.kind = "attach" =>
              /\ ps[r.terminal].via = r.via
              /\ \A s \in rs : s.kind = "attach" => s.terminal # r.terminal
    PROVE  RouterHolds(ps, rs \cup {r}, sub, at)
<1>1. Launches(rs \cup {r}) = Launches(rs)
  BY DEF Launches
<1>2. RouterTyped(ps, rs \cup {r}, sub)
  BY FS_AddElement DEF RouterHolds, RouterTyped
<1>3. RequestsHold(ps, rs \cup {r}, sub, at)
  BY DEF RouterHolds, RequestsHold
<1> QED BY <1>1, <1>2, <1>3 DEF RouterHolds, HasRoom

\* The terminals change, each keeps its connection or has no attach under way,
\* and shows itself as connected only on one that is known and not lost.
LEMMA OtherProxies ==
    ASSUME NEW ps, NEW rs, NEW sub, NEW at, NEW ats, NEW qs \in Seq(ProxyRecords),
           RouterHolds(ps, rs, sub, at),
           Len(qs) = Len(ps), DOMAIN qs = DOMAIN ps,
           \A a \in Attempts :
              at[a].stage = "connected" => ats[a].stage = "connected",
           \A t \in DOMAIN qs :
              /\ \/ qs[t].via = ps[t].via
                 \/ \A r \in rs : r.kind = "attach" => r.terminal # t
              /\ qs[t].connected =>
                    /\ Known(qs[t].via, sub, ats)
                    /\ ats[qs[t].via].client # "failed"
    PROVE  RouterHolds(qs, rs, sub, ats)
<1>1. RouterTyped(qs, rs, sub)
  BY DEF RouterHolds, RouterTyped
<1>2. HasRoom(qs, rs)
  BY DEF RouterHolds, HasRoom
<1>3. ProxiesHold(qs, sub, ats)
  BY DEF ProxiesHold
<1>4. RequestsHold(qs, rs, sub, ats)
  <2> SUFFICES ASSUME NEW r \in rs
               PROVE  /\ Known(r.via, sub, ats)
                      /\ r.kind # "launch" => r.terminal \in DOMAIN qs
                      /\ r.kind = "attach" =>
                            /\ qs[r.terminal].via = r.via
                            /\ \A s \in rs : s.kind = "attach" /\ s.terminal = r.terminal
                                  => s = r
    BY DEF RequestsHold
  <2>1. /\ Known(r.via, sub, at)
        /\ r.kind # "launch" => r.terminal \in DOMAIN ps
        /\ r.kind = "attach" =>
              /\ ps[r.terminal].via = r.via
              /\ \A s \in rs : s.kind = "attach" /\ s.terminal = r.terminal
                    => s = r
    BY DEF RouterHolds, RequestsHold
  <2>2. r.via \in Attempts
    BY RequestsTyped DEF RouterHolds, RouterTyped
  <2>3. Known(r.via, sub, ats)
    BY <2>1, <2>2 DEF Known
  <2>4. r.kind = "attach" => qs[r.terminal].via = r.via
    BY <2>1
  <2> QED BY <2>1, <2>3, <2>4
<1> QED BY <1>1, <1>2, <1>3, <1>4 DEF RouterHolds

LEMMA ProxiesTyped ==
    ASSUME NEW ps \in Seq(ProxyRecords), NEW t \in DOMAIN ps
    PROVE  /\ DOMAIN ps = 1..Len(ps) /\ Len(ps) \in Nat
           /\ ps[t] \in ProxyRecords
           /\ ps[t].via \in Attempts
           /\ ps[t].connected \in BOOLEAN
<1>1. DOMAIN ps = 1..Len(ps) /\ Len(ps) \in Nat
  BY LenProperties
<1>2. ps[t] \in ProxyRecords
  BY <1>1, ElementOfSeq
<1> QED BY <1>1, <1>2 DEF ProxyRecords

\* Each record of a map of terminals is replaced.
LEMMA Replaced ==
    ASSUME NEW ps \in Seq(ProxyRecords), NEW qs, DOMAIN qs = DOMAIN ps,
           qs = [t \in DOMAIN ps |-> qs[t]],
           \A t \in DOMAIN ps : qs[t] \in ProxyRecords
    PROVE  /\ qs \in Seq(ProxyRecords)
           /\ Len(qs) = Len(ps)
<1>1. DOMAIN ps = 1..Len(ps) /\ Len(ps) \in Nat
  BY LenProperties
<1>2. qs \in [1..Len(ps) -> ProxyRecords]
  BY <1>1
<1>3. qs \in Seq(ProxyRecords)
  BY <1>1, <1>2, SeqDef
<1>4. Len(qs) = Len(ps)
  BY <1>1, <1>3, LenProperties
<1> QED BY <1>3, <1>4

\* An element of a map of terminals is replaced.
LEMMA ReplacedAt ==
    ASSUME NEW ps \in Seq(ProxyRecords), NEW t \in DOMAIN ps,
           NEW q \in ProxyRecords
    PROVE  /\ [ps EXCEPT ![t] = q] \in Seq(ProxyRecords)
           /\ Len([ps EXCEPT ![t] = q]) = Len(ps)
           /\ DOMAIN [ps EXCEPT ![t] = q] = DOMAIN ps
           /\ [ps EXCEPT ![t] = q][t] = q
           /\ \A u \in DOMAIN ps \ {t} : [ps EXCEPT ![t] = q][u] = ps[u]
<1> DEFINE qs == [ps EXCEPT ![t] = q]
<1>1. /\ DOMAIN qs = DOMAIN ps /\ qs[t] = q
      /\ \A u \in DOMAIN ps \ {t} : qs[u] = ps[u]
      /\ qs = [u \in DOMAIN ps |-> qs[u]]
  OBVIOUS
<1>2. \A u \in DOMAIN ps : qs[u] \in ProxyRecords
  BY <1>1, ProxiesTyped
<1> HIDE DEF qs
<1>3. qs \in Seq(ProxyRecords) /\ Len(qs) = Len(ps)
  BY <1>1, <1>2, Replaced
<1> QED BY <1>1, <1>3 DEF qs

-----------------------------------------------------------------------------
(* What the router does *)

\* Sessions are disconnected.
LEMMA Disconnects ==
    ASSUME NEW ps, NEW rs, NEW sub, NEW at, NEW ats, RouterHolds(ps, rs, sub, at), NEW ts,
           \A a \in Attempts :
              at[a].stage = "connected" => ats[a].stage = "connected",
           \A t \in DOMAIN ps \ ts :
              ps[t].connected => ats[ps[t].via].client # "failed"
    PROVE  /\ RouterHolds(Disconnected(ps, ts), rs, sub, ats)
           /\ DOMAIN Disconnected(ps, ts) = DOMAIN ps
<1> DEFINE qs == Disconnected(ps, ts)
<1>1. ps \in Seq(ProxyRecords)
  BY DEF RouterHolds, RouterTyped
<1>2. DOMAIN qs = DOMAIN ps /\ qs = [t \in DOMAIN ps |-> qs[t]]
  BY DEF Disconnected
<1>3. ASSUME NEW t \in DOMAIN ps
      PROVE  /\ qs[t] \in ProxyRecords
             /\ qs[t].via = ps[t].via
             /\ qs[t].connected => ps[t].connected /\ t \notin ts
  <2>1. ps[t] \in ProxyRecords
    BY <1>1, ProxiesTyped
  <2>2. CASE t \in ts /\ ps[t].connected
    <3>1. qs[t] = [ps[t] EXCEPT !.connected = FALSE, !.shown = "exited"]
      BY <2>2 DEF Disconnected
    <3> QED BY <2>1, <3>1 DEF ProxyRecords
  <2>3. CASE ~(t \in ts /\ ps[t].connected)
    <3>1. qs[t] = ps[t]
      BY <2>3 DEF Disconnected
    <3> QED BY <2>1, <2>3, <3>1
  <2> QED BY <2>2, <2>3
<1> HIDE DEF qs
<1>4. qs \in Seq(ProxyRecords) /\ Len(qs) = Len(ps)
  BY <1>1, <1>2, <1>3, Replaced
<1>5. ASSUME NEW t \in DOMAIN qs, qs[t].connected
      PROVE  /\ Known(qs[t].via, sub, ats)
             /\ ats[qs[t].via].client # "failed"
  <2>1. t \in DOMAIN ps \ ts /\ ps[t].connected /\ qs[t].via = ps[t].via
    BY <1>2, <1>3, <1>5
  <2>2. Known(ps[t].via, sub, at) /\ ps[t].via \in Attempts
    BY <1>1, <2>1, ProxiesTyped DEF RouterHolds, ProxiesHold
  <2> QED BY <2>1, <2>2 DEF Known
<1>6. RouterHolds(qs, rs, sub, ats)
  BY <1>2, <1>3, <1>4, <1>5, OtherProxies
<1> QED BY <1>2, <1>6 DEF qs

\* The router does not look at the attempts: their connections stay connected
\* and are not lost meanwhile.
LEMMA OtherAttempts ==
    ASSUME NEW ps, NEW rs, NEW sub, NEW at, NEW ats, RouterHolds(ps, rs, sub, at),
           \A a \in Attempts :
              at[a].stage = "connected" => /\ ats[a].stage = "connected"
                                           /\ ats[a].client = at[a].client
    PROVE  RouterHolds(ps, rs, sub, ats)
<1>1. ps \in Seq(ProxyRecords)
  BY DEF RouterHolds, RouterTyped
<1>2. \A t \in DOMAIN ps :
         ps[t].connected => /\ Known(ps[t].via, sub, ats)
                            /\ ats[ps[t].via].client # "failed"
  BY <1>1, ProxiesTyped DEF RouterHolds, ProxiesHold, Known
<1> QED BY <1>1, <1>2, OtherProxies

\* One more subscription.
LEMMA MoreSubscribed ==
    ASSUME NEW ps, NEW rs, NEW sub, NEW at, RouterHolds(ps, rs, sub, at),
           NEW a \in Attempts
    PROVE  RouterHolds(ps, rs, sub \cup {a}, at)
<1>1. RouterTyped(ps, rs, sub \cup {a})
  BY DEF RouterHolds, RouterTyped
<1>2. ProxiesHold(ps, sub \cup {a}, at) /\ RequestsHold(ps, rs, sub \cup {a}, at)
  BY DEF RouterHolds, ProxiesHold, RequestsHold, Known
<1> QED BY <1>1, <1>2 DEF RouterHolds

\* The loop of resume(): the session it binds has no attach under way, and is
\* attached over a connection that is not lost.
LEMMA Resumption ==
    ASSUME NEW ps, NEW rs, NEW sub, NEW at, RouterHolds(ps, rs, sub, at),
           NEW a, Known(a, sub, at), NEW usable \in BOOLEAN,
           usable => at[a].client = "open",
           NEW n, ResumesFrom(ps, rs, a, usable, n)
    PROVE  /\ RouterHolds(proxies', requests', sub, at)
           /\ DOMAIN proxies' = DOMAIN ps
<1>0. /\ ps \in Seq(ProxyRecords) /\ rs \subseteq Requests
      /\ a \in Attempts
  BY DEF RouterHolds, RouterTyped, Known
<1>1. CASE proxies' = ps /\ requests' = rs
  BY <1>1
<1>2. ASSUME NEW t \in DOMAIN ps, Waiting(ps, rs, t),
             proxies' = [ps EXCEPT ![t] = [@ EXCEPT
                            !.via = a,
                            !.connected = ps[t].connected \/ usable]],
             requests' = IF usable
                         THEN rs \cup {[kind |-> "attach", terminal |-> t,
                                        via |-> a]}
                         ELSE rs
      PROVE  /\ RouterHolds(proxies', requests', sub, at)
             /\ DOMAIN proxies' = DOMAIN ps
  <2> DEFINE q == [ps[t] EXCEPT !.via = a,
                         !.connected = ps[t].connected \/ usable]
             qs == [ps EXCEPT ![t] = q]
             r == [kind |-> "attach", terminal |-> t, via |-> a]
  <2>1. ps[t] \in ProxyRecords /\ t \in 1..Len(ps) /\ Len(ps) \in Nat
    BY <1>0, ProxiesTyped
  <2>2. q \in ProxyRecords /\ q.via = a /\ (q.connected <=> ps[t].connected \/ usable)
    BY <1>0, <2>1 DEF ProxyRecords
  <2>3. proxies' = qs
    BY <1>2
  <2> HIDE DEF q
  <2>4. /\ qs \in Seq(ProxyRecords)
        /\ Len(qs) = Len(ps) /\ DOMAIN qs = DOMAIN ps
        /\ qs[t] = q
        /\ \A u \in DOMAIN ps \ {t} : qs[u] = ps[u]
    BY <1>0, <2>2, ReplacedAt
  <2> HIDE DEF qs
  <2>5. /\ ~ps[t].connected
        /\ \A s \in rs : s.kind = "attach" => s.terminal # t
    BY <1>2 DEF Waiting
  <2>6. ASSUME NEW u \in DOMAIN qs
        PROVE  /\ \/ qs[u].via = ps[u].via
                  \/ \A s \in rs : s.kind = "attach" => s.terminal # u
               /\ qs[u].connected =>
                     /\ Known(qs[u].via, sub, at)
                     /\ at[qs[u].via].client # "failed"
    <3>1. CASE u = t
      BY <2>2, <2>4, <2>5, <3>1
    <3>2. CASE u # t
      BY <2>4, <3>2 DEF RouterHolds, ProxiesHold
    <3> QED BY <3>1, <3>2
  <2>7. RouterHolds(qs, rs, sub, at)
    BY <2>4, <2>6, OtherProxies
  <2>8. CASE ~usable
    BY <1>2, <2>3, <2>4, <2>7, <2>8
  <2>9. CASE usable
    <3>1. Len(ps) <= MaxTerminals
      <4>1. IsFiniteSet(Launches(rs))
        BY FS_Subset DEF Launches, RouterHolds, RouterTyped
      <4>2. Cardinality(Launches(rs)) \in Nat
        BY <4>1, FS_CardinalityType
      <4> QED BY <2>1, <4>2, RemoteTargetsAssumption DEF RouterHolds, HasRoom
    <3>2. /\ r \in Requests /\ r.kind = "attach" /\ r.terminal = t /\ r.via = a
      BY <1>0, <2>1, <3>1, RemoteTargetsAssumption DEF Requests
    <3> HIDE DEF r
    <3>3. RouterHolds(qs, rs \cup {r}, sub, at)
      BY <2>2, <2>4, <2>5, <2>7, <3>2, FurtherRequest
    <3>4. requests' = rs \cup {r}
      BY <1>2, <2>9 DEF r
    <3> QED BY <2>3, <2>4, <3>3, <3>4
  <2> QED BY <2>8, <2>9
<1> QED BY <1>1, <1>2 DEF ResumesFrom

\* Clients close: every terminal on a connection that is lost now is told, and
\* every attach over it has failed.
LEMMA GoneHolds ==
    ASSUME RouterHolds(proxies, requests, subscribed, attempts),
           NEW cs, NEW notify \in BOOLEAN, ClientsGone(cs, notify), NEW ats,
           \A a \in Attempts :
              attempts[a].stage = "connected" =>
                 /\ ats[a].stage = "connected"
                 /\ ats[a].client = "failed" =>
                       attempts[a].client = "failed" \/ (notify /\ a \in cs)
    PROVE  /\ RouterHolds(proxies', requests', subscribed', ats)
           /\ DOMAIN proxies' = DOMAIN proxies
<1> DEFINE attaching == {r.terminal : r \in {r \in requests :
                                         r.via \in cs /\ r.kind = "attach"}}
           told == IF notify
                   THEN {t \in DOMAIN proxies :
                            proxies[t].via \in cs \cap subscribed}
                   ELSE {}
           ts == attaching \cup told
           left == {r \in requests : r.via \notin cs}
<1>1. proxies' = Disconnected(proxies, ts) /\ requests' = left /\ subscribed' = subscribed
  BY DEF ClientsGone
<1>2. proxies \in Seq(ProxyRecords)
  BY DEF RouterHolds, RouterTyped
<1>3. ASSUME NEW t \in DOMAIN proxies \ ts, proxies[t].connected
      PROVE  ats[proxies[t].via].client # "failed"
  <2>1. /\ Known(proxies[t].via, subscribed, attempts)
        /\ attempts[proxies[t].via].client # "failed"
        /\ proxies[t].via \in Attempts
    BY <1>2, <1>3, ProxiesTyped DEF RouterHolds, ProxiesHold
  <2>2. ~(notify /\ proxies[t].via \in cs)
    BY <1>3, <2>1 DEF Known
  <2> QED BY <2>1, <2>2 DEF Known
<1> HIDE DEF attaching, told, ts, left
<1>4. /\ RouterHolds(Disconnected(proxies, ts), requests, subscribed, ats)
      /\ DOMAIN Disconnected(proxies, ts) = DOMAIN proxies
  BY <1>3, Disconnects
<1>5. left \in SUBSET requests
  BY DEF left
<1>6. RouterHolds(Disconnected(proxies, ts), left, subscribed, ats)
  BY <1>4, <1>5, FewerRequests
<1> QED BY <1>1, <1>4, <1>6

-----------------------------------------------------------------------------
(* A step of an attempt *)

LEMMA AttemptTyped ==
    ASSUME AttemptsTyped, NEW a \in Attempts
    PROVE  /\ attempts[a] \in AttemptRecords
           /\ a # None /\ a \in Nat
  BY RemoteTargetsAssumption DEF AttemptsTyped, Attempts, None

LEMMA ClosedRecord ==
    ASSUME NEW record \in AttemptRecords
    PROVE  /\ SessionClosed(record) \in AttemptRecords
           /\ SessionClosed(record).stage = record.stage
           /\ SessionClosed(record).client = record.client
           /\ SessionClosed(record).session = "closed"
           /\ ~SessionClosed(record).deadline
           /\ SessionClosed(record).channels # "open"
           /\ record.channels = "none" => SessionClosed(record).channels = "none"
  BY DEF SessionClosed, AttemptRecords

LEMMA OneAttempt ==
    ASSUME AttemptsTyped, AttemptsSound, NEW a \in Attempts,
           NEW record \in AttemptRecords, Sound(record),
           attempts' = [attempts EXCEPT ![a] = record]
    PROVE  /\ AttemptsTyped' /\ AttemptsSound'
           /\ attempts'[a] = record
           /\ \A b \in Attempts \ {a} : attempts'[b] = attempts[b]
<1>1. /\ attempts' \in [Attempts -> AttemptRecords]
      /\ attempts'[a] = record
      /\ \A b \in Attempts \ {a} : attempts'[b] = attempts[b]
  BY DEF AttemptsTyped
<1>2. \A b \in Attempts : Sound(attempts'[b])
  BY <1>1 DEF AttemptsSound
<1> QED BY <1>1, <1>2 DEF AttemptsTyped, AttemptsSound

\* An attempt goes on or ends, and the router is not involved.
LEMMA AttemptStep ==
    ASSUME TargetsInv, NEW a \in Attempts,
           NEW record \in AttemptRecords, Sound(record),
           attempts' = [attempts EXCEPT ![a] = record],
           attempts[a].stage = "connected" =>
              /\ record.stage = "connected"
              /\ record.client = attempts[a].client,
           TargetTyped', peer' = peer,
           target'.state = "connected" => target.state = "connected",
           UNCHANGED <<hostVars, refreshing, routerVars, hosted>>
    PROVE  TargetsInv'
<1>1. /\ AttemptsTyped' /\ AttemptsSound'
      /\ attempts'[a] = record
      /\ \A b \in Attempts \ {a} : attempts'[b] = attempts[b]
  BY OneAttempt DEF TargetsInv
<1>2. \A b \in Attempts :
         attempts[b].stage = "connected" =>
            /\ attempts'[b].stage = "connected"
            /\ attempts'[b].client = attempts[b].client
  BY <1>1
<1>3. RouterHolds(proxies, requests, subscribed, attempts')
  BY <1>2, OtherAttempts DEF TargetsInv
<1>4. PeerInv'
  BY <1>2 DEF TargetsInv, TargetTyped, PeerInv
<1>5. HostTyped' /\ HostedKnown'
  BY DEF TargetsInv, HostTyped, HostedKnown, hostVars, routerVars
<1>6. RouterHolds(proxies', requests', subscribed', attempts')
  BY <1>3 DEF routerVars
<1> QED BY <1>1, <1>4, <1>5, <1>6 DEF TargetsInv

\* It is rejected.
LEMMA RejectedStep ==
    ASSUME TargetsInv, NEW a \in Attempts, NEW record \in AttemptRecords,
           record.session # "open", record.channels # "open",
           ~record.deadline,
           attempts[a].stage # "connected",
           NEW state \in {"rejected", "error"}, Rejected(a, record, state),
           UNCHANGED <<hostVars, refreshing, routerVars, hosted>>
    PROVE  TargetsInv'
<1> DEFINE failed == [record EXCEPT !.stage = "failed"]
<1>1. /\ failed \in AttemptRecords
      /\ Sound(failed)
  BY DEF AttemptRecords, Sound
<1>2. /\ attempts' = [attempts EXCEPT ![a] = failed]
      /\ target' = [target EXCEPT !.state = state]
      /\ connecting' = None
      /\ peer' = peer
  BY DEF Rejected
<1>3. TargetTyped' /\ target'.state = state
  BY <1>2 DEF TargetsInv, TargetTyped, TargetStates
<1> HIDE DEF failed
<1> QED BY <1>1, <1>2, <1>3, AttemptStep

\* It goes on in record, and the targets are as they were.
LEMMA QuietStep ==
    ASSUME TargetsInv, NEW a \in Attempts, NEW record \in AttemptRecords,
           Sound(record), attempts[a].stage # "connected",
           attempts' = [attempts EXCEPT ![a] = record],
           UNCHANGED <<hostVars, refreshing, targetVars, routerVars, hosted>>
    PROVE  TargetsInv'
<1>1. TargetTyped' /\ peer' = peer /\ target' = target
  BY DEF TargetsInv, TargetTyped, targetVars
<1> QED BY <1>1, AttemptStep

-----------------------------------------------------------------------------
(* The actions of an attempt *)

\* What is known of attempt a before a step.
LEMMA BeforeStep ==
    ASSUME TargetsInv, NEW a \in Attempts
    PROVE  /\ attempts[a] \in AttemptRecords /\ Sound(attempts[a])
           /\ a \in Attempts \cup {None} /\ a # None
           /\ attempts[a].stage \in {"creating", "approval", "preparing"} =>
                 /\ attempts[a].session = "none" /\ attempts[a].channels = "none"
                 /\ attempts[a].client = "none" /\ ~attempts[a].deadline
           /\ attempts[a].stage = "negotiating" =>
                 attempts[a].channels = "none" /\ attempts[a].client = "none"
<1>1. attempts[a] \in AttemptRecords /\ a # None
  BY AttemptTyped DEF TargetsInv
<1>2. Sound(attempts[a])
  BY DEF TargetsInv, AttemptsSound
<1> QED BY <1>1, <1>2 DEF Sound, AttemptRecords

LEMMA BeginsTyped ==
    ASSUME TargetsInv, NEW a \in Attempts, Begins(a),
           attempts[a].stage \in {"none", "listing"}
    PROVE  /\ AttemptsTyped' /\ AttemptsSound'
           /\ \A b \in Attempts :
                 attempts[b].stage = "connected" =>
                    /\ attempts'[b].stage = "connected"
                    /\ attempts'[b].client = attempts[b].client
<1> DEFINE record == [attempts[a] EXCEPT !.stage = "creating", !.via = connector]
<1>1. attempts' = [attempts EXCEPT ![a] = record]
  BY DEF Begins
<1>2. connector \in 0..MaxActivations
  BY RemoteTargetsAssumption DEF TargetsInv, HostTyped, None
<1>3. record \in AttemptRecords /\ Sound(record)
  BY <1>2, BeforeStep DEF AttemptRecords, Sound
<1> HIDE DEF record
<1> QED BY <1>1, <1>3, OneAttempt DEF TargetsInv

LEMMA ConnectTargetStep ==
    ASSUME TargetsInv, NEW a \in Attempts, ConnectTarget(a)
    PROVE  TargetsInv'
<1>0. attempts[a].stage = "none"
  BY DEF ConnectTarget
<1>1. CASE /\ attempts' = [attempts EXCEPT ![a] = [@ EXCEPT !.stage = "listing"]]
           /\ UNCHANGED targetVars
  <2> DEFINE record == [attempts[a] EXCEPT !.stage = "listing"]
  <2>1. record \in AttemptRecords /\ Sound(record)
    BY <1>0, BeforeStep DEF AttemptRecords, Sound
  <2>2. attempts' = [attempts EXCEPT ![a] = record]
    BY <1>1
  <2> HIDE DEF record
  <2> QED BY <1>0, <1>1, <2>1, <2>2, QuietStep DEF ConnectTarget
<1>2. CASE /\ Begins(a)
           /\ target' = [target EXCEPT !.state = "waiting_for_approval"]
           /\ connecting' = a
           /\ UNCHANGED peer
  <2> DEFINE record == [attempts[a] EXCEPT !.stage = "creating", !.via = connector]
  <2>1. attempts' = [attempts EXCEPT ![a] = record]
    BY <1>2 DEF Begins
  <2>2. connector \in 0..MaxActivations
    BY RemoteTargetsAssumption DEF TargetsInv, HostTyped, None
  <2>3. record \in AttemptRecords /\ Sound(record)
    BY <1>0, <2>2, BeforeStep DEF AttemptRecords, Sound
  <2>4. TargetTyped' /\ target'.state = "waiting_for_approval"
    BY <1>2 DEF TargetsInv, TargetTyped, TargetStates
  <2> HIDE DEF record
  <2> QED BY <1>0, <1>2, <2>1, <2>3, <2>4, AttemptStep DEF ConnectTarget
<1> QED BY <1>1, <1>2 DEF ConnectTarget

LEMMA ListingFailsStep ==
    ASSUME TargetsInv, NEW a \in Attempts, ListingFails(a)
    PROVE  TargetsInv'
<1> DEFINE record == [attempts[a] EXCEPT !.stage = "failed"]
<1>1. record \in AttemptRecords /\ Sound(record)
  BY BeforeStep DEF AttemptRecords, Sound, ListingFails
<1>2. attempts' = [attempts EXCEPT ![a] = record] /\ attempts[a].stage # "connected"
  BY DEF ListingFails
<1> HIDE DEF record
<1> QED BY <1>1, <1>2, QuietStep DEF ListingFails

LEMMA SessionCreatedStep ==
    ASSUME TargetsInv, NEW a \in Attempts, SessionCreated(a)
    PROVE  TargetsInv'
<1> DEFINE record == [attempts[a] EXCEPT !.stage = "approval"]
<1>1. record \in AttemptRecords /\ Sound(record)
  BY BeforeStep DEF AttemptRecords, Sound, SessionCreated
<1>2. /\ attempts' = [attempts EXCEPT ![a] = record]
      /\ attempts[a].stage # "connected"
      /\ target' = [target EXCEPT !.state = "waiting_for_approval"]
      /\ connecting' = connecting /\ peer' = peer
  BY DEF SessionCreated
<1>3. TargetTyped' /\ target'.state = "waiting_for_approval"
  BY <1>2 DEF TargetsInv, TargetTyped, TargetStates
<1> HIDE DEF record
<1> QED BY <1>1, <1>2, <1>3, AttemptStep DEF SessionCreated

LEMMA ApprovedStep ==
    ASSUME TargetsInv, NEW a \in Attempts, Approved(a)
    PROVE  TargetsInv'
<1> DEFINE record == [attempts[a] EXCEPT !.stage = "preparing"]
<1>1. record \in AttemptRecords /\ Sound(record)
  BY BeforeStep DEF AttemptRecords, Sound, Approved
<1>2. /\ attempts' = [attempts EXCEPT ![a] = record]
      /\ attempts[a].stage # "connected"
      /\ target' = [target EXCEPT !.state = "connecting"]
      /\ connecting' = connecting /\ peer' = peer
  BY DEF Approved
<1>3. TargetTyped' /\ target'.state = "connecting"
  BY <1>2 DEF TargetsInv, TargetTyped, TargetStates
<1> HIDE DEF record
<1> QED BY <1>1, <1>2, <1>3, AttemptStep DEF Approved

LEMMA AttemptFailsStep ==
    ASSUME TargetsInv, NEW a \in Attempts, AttemptFails(a)
    PROVE  TargetsInv'
<1>1. PICK state \in {"rejected", "error"} : Rejected(a, attempts[a], state)
  BY DEF AttemptFails
<1>2. /\ attempts[a] \in AttemptRecords
      /\ attempts[a].session # "open" /\ attempts[a].channels # "open"
      /\ ~attempts[a].deadline /\ attempts[a].stage # "connected"
  BY BeforeStep DEF AttemptFails
<1> QED BY <1>1, <1>2, RejectedStep DEF AttemptFails

LEMMA PreparedStep ==
    ASSUME TargetsInv, NEW a \in Attempts, Prepared(a)
    PROVE  TargetsInv'
<1> DEFINE record == [attempts[a] EXCEPT !.stage = "negotiating", !.session = "open",
                                         !.deadline = TRUE]
<1>1. record \in AttemptRecords /\ Sound(record)
  BY BeforeStep DEF AttemptRecords, Sound, Prepared
<1>2. attempts' = [attempts EXCEPT ![a] = record] /\ attempts[a].stage # "connected"
  BY DEF Prepared
<1> HIDE DEF record
<1> QED BY <1>1, <1>2, QuietStep DEF Prepared

LEMMA RtcConnectedStep ==
    ASSUME TargetsInv, NEW a \in Attempts, RtcConnected(a)
    PROVE  TargetsInv'
<1> DEFINE record == [attempts[a] EXCEPT !.rtc = TRUE, !.deadline = FALSE]
<1>1. record \in AttemptRecords /\ Sound(record)
  BY BeforeStep DEF AttemptRecords, Sound, RtcConnected
<1>2. attempts' = [attempts EXCEPT ![a] = record] /\ attempts[a].stage # "connected"
  BY DEF RtcConnected
<1> HIDE DEF record
<1> QED BY <1>1, <1>2, QuietStep DEF RtcConnected

LEMMA ChannelsOpenStep ==
    ASSUME TargetsInv, NEW a \in Attempts, ChannelsOpen(a)
    PROVE  TargetsInv'
<1> DEFINE record == [attempts[a] EXCEPT !.stage = "handshake", !.channels = "open",
                                         !.client = "open"]
<1>1. record \in AttemptRecords /\ Sound(record)
  BY BeforeStep DEF AttemptRecords, Sound, ChannelsOpen
<1>2. attempts' = [attempts EXCEPT ![a] = record] /\ attempts[a].stage # "connected"
  BY DEF ChannelsOpen
<1> HIDE DEF record
<1> QED BY <1>1, <1>2, QuietStep DEF ChannelsOpen

LEMMA NegotiationFailsStep ==
    ASSUME TargetsInv, NEW a \in Attempts, NegotiationFails(a)
    PROVE  TargetsInv'
<1>1. /\ SessionClosed(attempts[a]) \in AttemptRecords
      /\ SessionClosed(attempts[a]).session # "open"
      /\ SessionClosed(attempts[a]).channels # "open"
      /\ ~SessionClosed(attempts[a]).deadline
  BY BeforeStep, ClosedRecord
<1>2. /\ attempts[a].stage # "connected"
      /\ Rejected(a, SessionClosed(attempts[a]), "error")
  BY DEF NegotiationFails
<1> QED BY <1>1, <1>2, RejectedStep DEF NegotiationFails

\* The record of a session whose client has failed too.
LEMMA LostRecord ==
    ASSUME NEW record \in AttemptRecords
    PROVE  LET lost == [SessionClosed(record) EXCEPT !.client = "failed"] IN
           /\ lost \in AttemptRecords
           /\ lost.stage = record.stage /\ lost.client = "failed"
           /\ lost.session = "closed" /\ ~lost.deadline
           /\ lost.channels # "open"
           /\ record.channels = "none" => lost.channels = "none"
<1> DEFINE closed == SessionClosed(record)
<1>1. /\ closed \in AttemptRecords
      /\ closed.stage = record.stage /\ closed.session = "closed"
      /\ ~closed.deadline /\ closed.channels # "open"
      /\ record.channels = "none" => closed.channels = "none"
  BY ClosedRecord
<1> HIDE DEF closed
<1>2. LET lost == [closed EXCEPT !.client = "failed"] IN
      /\ lost \in AttemptRecords
      /\ lost.stage = record.stage /\ lost.client = "failed"
      /\ lost.session = "closed" /\ ~lost.deadline
      /\ lost.channels # "open"
      /\ record.channels = "none" => lost.channels = "none"
  BY <1>1 DEF AttemptRecords
<1> QED BY <1>2 DEF closed

LEMMA HandshakeFailsStep ==
    ASSUME TargetsInv, NEW a \in Attempts, HandshakeFails(a)
    PROVE  TargetsInv'
<1> DEFINE lost == [SessionClosed(attempts[a]) EXCEPT !.client = "failed"]
<1>1. /\ lost \in AttemptRecords
      /\ lost.session # "open" /\ lost.channels # "open" /\ ~lost.deadline
  BY BeforeStep, LostRecord
<1>2. Rejected(a, lost, "error") /\ attempts[a].stage # "connected"
  BY DEF HandshakeFails
<1> HIDE DEF lost
<1> QED BY <1>1, <1>2, RejectedStep DEF HandshakeFails

LEMMA SessionLostStep ==
    ASSUME TargetsInv, NEW a \in Attempts, SessionLost(a)
    PROVE  TargetsInv'
<1> DEFINE closed == SessionClosed(attempts[a])
<1>1. /\ closed \in AttemptRecords
      /\ closed.session = "closed" /\ closed.channels # "open"
      /\ ~closed.deadline
      /\ closed.stage = attempts[a].stage /\ closed.client = attempts[a].client
  BY BeforeStep, ClosedRecord
<1>2. CASE attempts[a].stage = "handshake" /\ Rejected(a, closed, "error")
  <2> HIDE DEF closed
  <2> QED BY <1>1, <1>2, RejectedStep DEF SessionLost
<1>3. CASE /\ attempts[a].stage = "connected"
           /\ attempts' = [attempts EXCEPT ![a] = closed]
           /\ UNCHANGED targetVars
  <2> HIDE DEF closed
  <2>1. Sound(closed)
    BY <1>1, <1>3 DEF Sound
  <2>2. TargetTyped' /\ peer' = peer /\ target' = target
    BY <1>3 DEF TargetsInv, TargetTyped, targetVars
  <2> QED BY <1>1, <1>3, <2>1, <2>2, AttemptStep DEF SessionLost
<1> QED BY <1>2, <1>3 DEF SessionLost

\* A connection is lost and the client is told: PeerGone() and ClientsGone().
LEMMA LossStep ==
    ASSUME TargetsInv, NEW a \in Attempts, NEW record \in AttemptRecords,
           attempts[a].stage = "connected", record.stage = "connected",
           record.channels # "open", ~record.deadline,
           attempts' = [attempts EXCEPT ![a] = record],
           PeerGone(a), ClientsGone({a}, TRUE),
           UNCHANGED <<hostVars, refreshing, hosted>>
    PROVE  TargetsInv'
<1>1. Sound(record)
  BY DEF Sound
<1>2. /\ AttemptsTyped' /\ AttemptsSound'
      /\ attempts'[a] = record
      /\ \A b \in Attempts \ {a} : attempts'[b] = attempts[b]
  BY <1>1, OneAttempt DEF TargetsInv
<1>3. \A b \in Attempts :
         attempts[b].stage = "connected" =>
            /\ attempts'[b].stage = "connected"
            /\ attempts'[b].client = "failed" =>
                  attempts[b].client = "failed" \/ (TRUE /\ b \in {a})
  BY <1>2
<1>4. /\ RouterHolds(proxies', requests', subscribed', attempts')
      /\ DOMAIN proxies' = DOMAIN proxies
  BY <1>3, GoneHolds DEF TargetsInv
<1>5. /\ TargetTyped'
      /\ peer' # None => peer' = peer
      /\ target'.state = "connected" => /\ target.state = "connected"
                                        /\ peer' = peer
  <2>1. CASE peer = a
    <3>1. /\ peer' = None /\ connecting' = connecting
          /\ target' = [target EXCEPT !.state = "offline"]
      BY <2>1 DEF PeerGone
    <3> QED BY <3>1 DEF TargetsInv, TargetTyped, TargetStates
  <2>2. CASE peer # a
    <3>1. peer' = peer /\ target' = target /\ connecting' = connecting
      BY <2>2 DEF PeerGone, targetVars
    <3> QED BY <3>1 DEF TargetsInv, TargetTyped
  <2> QED BY <2>1, <2>2
<1>6. PeerInv'
  BY <1>3, <1>5 DEF TargetsInv, TargetTyped, PeerInv
<1>7. HostTyped' /\ HostedKnown'
  BY <1>4 DEF TargetsInv, HostTyped, HostedKnown, hostVars
<1> QED BY <1>2, <1>4, <1>5, <1>6, <1>7 DEF TargetsInv

LEMMA ChannelLostStep ==
    ASSUME TargetsInv, NEW a \in Attempts, ChannelLost(a)
    PROVE  TargetsInv'
<1> DEFINE lost == [SessionClosed(attempts[a]) EXCEPT !.client = "failed"]
<1>1. /\ lost \in AttemptRecords
      /\ lost.session = "closed" /\ lost.channels # "open" /\ ~lost.deadline
      /\ lost.stage = attempts[a].stage
  BY BeforeStep, LostRecord
<1>2. attempts[a].stage \in {"handshake", "connected"}
  BY BeforeStep DEF ChannelLost, Sound
<1>3. CASE attempts[a].stage = "handshake"
  <2>1. Rejected(a, lost, "error") /\ UNCHANGED routerVars
    BY <1>3 DEF ChannelLost
  <2> HIDE DEF lost
  <2> QED BY <1>1, <1>3, <2>1, RejectedStep DEF ChannelLost
<1>4. CASE attempts[a].stage = "connected"
  <2>1. /\ attempts' = [attempts EXCEPT ![a] = lost]
        /\ PeerGone(a) /\ ClientsGone({a}, TRUE)
    BY <1>4 DEF ChannelLost
  <2> HIDE DEF lost
  <2> QED BY <1>1, <1>4, <2>1, LossStep DEF ChannelLost
<1> QED BY <1>2, <1>3, <1>4

LEMMA ClientFailsStep ==
    ASSUME TargetsInv, NEW a \in Attempts, ClientFails(a)
    PROVE  TargetsInv'
<1> DEFINE record == [attempts[a] EXCEPT !.client = "failed", !.channels = "closed"]
<1>1. /\ record \in AttemptRecords /\ record.stage = "connected"
      /\ record.channels # "open" /\ ~record.deadline
  BY BeforeStep DEF ClientFails, AttemptRecords, Sound
<1>2. attempts' = [attempts EXCEPT ![a] = record]
  BY DEF ClientFails
<1> HIDE DEF record
<1> QED BY <1>1, <1>2, LossStep DEF ClientFails

-----------------------------------------------------------------------------
(* The actions of the targets *)

\* index.ts resumes over the peer of a target that is listed as connected.
LEMMA PublishHolds ==
    ASSUME RouterHolds(proxies, requests, subscribed, attempts'),
           TargetTyped', PeerInv', Publishes
    PROVE  /\ RouterHolds(proxies', requests', subscribed', attempts')
           /\ DOMAIN proxies' = DOMAIN proxies
<1>1. CASE target'.listed /\ target'.state = "connected" /\ peer' # None
  <2> DEFINE sub == subscribed \cup {peer'}
             usable == Usable(peer)'
  <2>1. /\ subscribed' = sub
        /\ ResumesFrom(proxies, requests, peer', usable, 1)
    BY <1>1 DEF Publishes
  <2>2. peer' \in Attempts /\ attempts'[peer'].stage = "connected"
    BY <1>1 DEF TargetTyped, PeerInv
  <2>3. Known(peer', sub, attempts')
    BY <2>2 DEF Known
  <2>4. usable \in BOOLEAN /\ (usable => attempts'[peer'].client = "open")
    BY DEF Usable
  <2>5. RouterHolds(proxies, requests, sub, attempts')
    BY <2>2, MoreSubscribed
  <2> HIDE DEF sub, usable
  <2>6. /\ RouterHolds(proxies', requests', sub, attempts')
        /\ DOMAIN proxies' = DOMAIN proxies
    BY <2>1, <2>3, <2>4, <2>5, Resumption
  <2> QED BY <2>1, <2>6
<1>2. CASE UNCHANGED routerVars
  BY <1>2 DEF routerVars
<1> QED BY <1>1, <1>2 DEF Publishes

\* The attempts are as they were.
LEMMA TargetStep ==
    ASSUME TargetsInv, HostTyped', TargetTyped', PeerInv',
           attempts' = attempts, hosted' = hosted,
           RouterHolds(proxies', requests', subscribed', attempts'),
           DOMAIN proxies' = DOMAIN proxies
    PROVE  TargetsInv'
<1>1. /\ AttemptsTyped' /\ AttemptsSound' /\ HostedKnown'
  BY DEF TargetsInv, AttemptsTyped, AttemptsSound, HostedKnown
<1> QED BY <1>1 DEF TargetsInv

LEMMA ActivateStep ==
    ASSUME TargetsInv, Activate
    PROVE  TargetsInv'
<1>1. HostTyped'
  BY RemoteTargetsAssumption DEF Activate, TargetsInv, HostTyped
<1>2. TargetTyped' /\ PeerInv'
  BY DEF Activate, TargetsInv, TargetTyped, PeerInv, targetVars
<1>3. /\ RouterHolds(proxies', requests', subscribed', attempts')
      /\ DOMAIN proxies' = DOMAIN proxies
  BY DEF Activate, TargetsInv, routerVars
<1> QED BY <1>1, <1>2, <1>3, TargetStep DEF Activate

LEMMA RefreshTargetsStep ==
    ASSUME TargetsInv, RefreshTargets
    PROVE  TargetsInv'
<1>1. HostTyped'
  BY DEF RefreshTargets, TargetsInv, HostTyped, hostVars
<1>2. TargetTyped' /\ PeerInv'
  <2>1. /\ target' = target \/ target' = [listed |-> FALSE, state |-> "none"]
        /\ connecting' = connecting /\ peer' = peer /\ attempts' = attempts
    BY DEF RefreshTargets
  <2>2. TargetTyped /\ PeerInv
    BY DEF TargetsInv
  <2>3. CASE target' = target
    BY <2>1, <2>2, <2>3 DEF TargetTyped, PeerInv
  <2>4. CASE target' = [listed |-> FALSE, state |-> "none"]
    <3>1. /\ target' \in [listed : BOOLEAN, state : TargetStates]
          /\ target'.state = "none"
      BY <2>4 DEF TargetStates
    <3> QED BY <2>1, <2>2, <3>1 DEF TargetTyped, PeerInv
  <2> QED BY <2>1, <2>3, <2>4
<1>3. /\ RouterHolds(proxies', requests', subscribed', attempts')
      /\ DOMAIN proxies' = DOMAIN proxies
  BY DEF RefreshTargets, TargetsInv, routerVars
<1> QED BY <1>1, <1>2, <1>3, TargetStep DEF RefreshTargets

LEMMA ListedTyped ==
    ASSUME TargetsInv, NEW found \in BOOLEAN
    PROVE  /\ Listed(found) \in [listed : BOOLEAN, state : TargetStates]
           /\ Listed(found).state = "connected" => peer # None
<1>1. /\ target \in [listed : BOOLEAN, state : TargetStates]
      /\ target.state = "connected" => peer # None
  BY DEF TargetsInv, TargetTyped, PeerInv
<1> QED BY <1>1 DEF Listed, TargetStates

LEMMA RefreshAnswersStep ==
    ASSUME TargetsInv, NEW found \in BOOLEAN, RefreshAnswers(found)
    PROVE  TargetsInv'
<1>1. /\ refreshing' = FALSE /\ target' = Listed(found)
      /\ connecting' = connecting /\ peer' = peer /\ attempts' = attempts
      /\ hosted' = hosted /\ Publishes
  BY DEF RefreshAnswers
<1>2. HostTyped'
  BY DEF RefreshAnswers, TargetsInv, HostTyped, hostVars
<1>3. TargetTyped' /\ PeerInv'
  BY <1>1, ListedTyped DEF TargetsInv, TargetTyped, PeerInv
<1>4. RouterHolds(proxies, requests, subscribed, attempts')
  BY <1>1 DEF TargetsInv
<1>5. /\ RouterHolds(proxies', requests', subscribed', attempts')
      /\ DOMAIN proxies' = DOMAIN proxies
  BY <1>1, <1>3, <1>4, PublishHolds
<1> QED BY <1>1, <1>2, <1>3, <1>5, TargetStep

LEMMA RefreshFailsStep ==
    ASSUME TargetsInv, RefreshFails
    PROVE  TargetsInv'
<1>1. HostTyped'
  BY DEF RefreshFails, TargetsInv, HostTyped, hostVars
<1>2. TargetTyped' /\ PeerInv'
  BY DEF RefreshFails, TargetsInv, TargetTyped, PeerInv, targetVars
<1>3. /\ RouterHolds(proxies', requests', subscribed', attempts')
      /\ DOMAIN proxies' = DOMAIN proxies
  BY DEF RefreshFails, TargetsInv, routerVars
<1> QED BY <1>1, <1>2, <1>3, TargetStep DEF RefreshFails

\* The devices were listed for a call: the target is published, and its
\* sessions are resumed, while the attempt begins, joins another or fails.
LEMMA RelistedStep ==
    ASSUME TargetsInv, NEW a \in Attempts, NEW found \in BOOLEAN, Relisted(a, found)
    PROVE  TargetsInv'
<1>0. attempts[a].stage = "listing" /\ peer' = peer
  BY DEF Relisted
<1>1. /\ AttemptsTyped' /\ AttemptsSound'
      /\ \A b \in Attempts :
            attempts[b].stage = "connected" =>
               /\ attempts'[b].stage = "connected"
               /\ attempts'[b].client = attempts[b].client
  <2>1. CASE \E stage \in {"joined", "failed"} :
                attempts' = [attempts EXCEPT ![a] = [@ EXCEPT !.stage = stage]]
    <3>1. PICK stage \in {"joined", "failed"} :
             attempts' = [attempts EXCEPT ![a] = [@ EXCEPT !.stage = stage]]
      BY <2>1
    <3> DEFINE record == [attempts[a] EXCEPT !.stage = stage]
    <3>2. record \in AttemptRecords /\ Sound(record)
      BY <1>0, BeforeStep DEF AttemptRecords, Sound
    <3>3. attempts' = [attempts EXCEPT ![a] = record]
      BY <3>1
    <3> HIDE DEF record
    <3> QED BY <1>0, <3>2, <3>3, OneAttempt DEF TargetsInv
  <2>2. CASE Begins(a)
    BY <1>0, <2>2, BeginsTyped
  <2>3. \/ \E stage \in {"joined", "failed"} :
              attempts' = [attempts EXCEPT ![a] = [@ EXCEPT !.stage = stage]]
        \/ Begins(a)
    BY DEF Relisted
  <2> QED BY <2>1, <2>2, <2>3
<1>2. /\ target' \in [listed : BOOLEAN, state : TargetStates]
      /\ target'.state = "connected" => peer # None
      /\ connecting' \in {connecting, a}
  <2>1. \/ target' = Listed(found)
        \/ target' = [Listed(found) EXCEPT !.state = "waiting_for_approval"]
    BY DEF Relisted
  <2>2. connecting' \in {connecting, a}
    BY DEF Relisted
  <2> QED BY <2>1, <2>2, ListedTyped DEF TargetStates
<1>3. TargetTyped' /\ PeerInv'
  BY <1>0, <1>1, <1>2 DEF TargetsInv, TargetTyped, PeerInv
<1>4. RouterHolds(proxies, requests, subscribed, attempts)
  BY DEF TargetsInv
<1>5. /\ RouterHolds(proxies', requests', subscribed', attempts)
      /\ DOMAIN proxies' = DOMAIN proxies
  <2>1. CASE /\ peer # None
             /\ subscribed' = subscribed \cup {peer}
             /\ ResumesFrom(proxies, requests, peer, Usable(peer), 1)
    <3> DEFINE sub == subscribed \cup {peer}
               usable == Usable(peer)
    <3>1. peer \in Attempts /\ attempts[peer].stage = "connected"
      BY <2>1 DEF TargetsInv, TargetTyped, PeerInv
    <3>2. RouterHolds(proxies, requests, sub, attempts) /\ Known(peer, sub, attempts)
      BY <1>4, <3>1, MoreSubscribed DEF Known
    <3>3. usable \in BOOLEAN /\ (usable => attempts[peer].client = "open")
      BY DEF Usable
    <3>4. /\ subscribed' = sub
          /\ ResumesFrom(proxies, requests, peer, usable, 1)
      BY <2>1
    <3> HIDE DEF sub, usable
    <3>5. /\ RouterHolds(proxies', requests', sub, attempts)
          /\ DOMAIN proxies' = DOMAIN proxies
      BY <3>2, <3>3, <3>4, Resumption
    <3> QED BY <3>4, <3>5
  <2>2. CASE UNCHANGED routerVars
    BY <1>4, <2>2 DEF routerVars
  <2> QED BY <2>1, <2>2 DEF Relisted
<1>6. RouterHolds(proxies', requests', subscribed', attempts')
  BY <1>1, <1>5, OtherAttempts
<1>7. HostTyped' /\ HostedKnown'
  BY <1>5 DEF Relisted, TargetsInv, HostTyped, HostedKnown, hostVars
<1> QED BY <1>1, <1>3, <1>6, <1>7 DEF TargetsInv

LEMMA HandshakeDoneStep ==
    ASSUME TargetsInv, NEW a \in Attempts, HandshakeDone(a)
    PROVE  TargetsInv'
<1> DEFINE record == [attempts[a] EXCEPT !.stage = "connected"]
<1>0. /\ attempts[a].stage = "handshake"
      /\ attempts' = [attempts EXCEPT ![a] = record]
      /\ peer' = a /\ target' = [target EXCEPT !.state = "connected"]
      /\ connecting' = None /\ Publishes /\ hosted' = hosted
  BY DEF HandshakeDone
<1>1. record \in AttemptRecords /\ Sound(record) /\ record.stage = "connected"
  BY <1>0, BeforeStep DEF AttemptRecords, Sound
<1> HIDE DEF record
<1>2. /\ AttemptsTyped' /\ AttemptsSound'
      /\ attempts'[a] = record
      /\ \A b \in Attempts \ {a} : attempts'[b] = attempts[b]
  BY <1>0, <1>1, OneAttempt DEF TargetsInv
<1>3. RouterHolds(proxies, requests, subscribed, attempts')
  BY <1>0, <1>2, OtherAttempts DEF TargetsInv
<1>4. TargetTyped' /\ PeerInv'
  BY <1>0, <1>1, <1>2, BeforeStep DEF TargetsInv, TargetTyped, TargetStates, PeerInv
<1>5. /\ RouterHolds(proxies', requests', subscribed', attempts')
      /\ DOMAIN proxies' = DOMAIN proxies
  BY <1>0, <1>3, <1>4, PublishHolds
<1>6. HostTyped' /\ HostedKnown'
  BY <1>0, <1>5 DEF HandshakeDone, TargetsInv, HostTyped, HostedKnown, hostVars
<1> QED BY <1>2, <1>4, <1>5, <1>6 DEF TargetsInv

\* stopHostResources() closes every session of the connector, and the peer:
\* the connections that were established stay so, closed and not failed.
LEMMA DeactivateStep ==
    ASSUME TargetsInv, Deactivate
    PROVE  TargetsInv'
<1> DEFINE mine == {a \in Attempts : /\ attempts[a].via = connector
                                     /\ attempts[a].session = "open"}
           clients == {a \in mine \cup ({peer} \ {None}) :
                         attempts[a].client = "open"}
           shaking == {a \in mine : attempts[a].stage = "handshake"}
           Left(a) == IF a \in mine THEN SessionClosed(attempts[a]) ELSE attempts[a]
           Closed(a) ==
             [(Left(a))
                EXCEPT !.client = IF a \in clients THEN "closed" ELSE @,
                       !.channels = IF a \in clients THEN "closed" ELSE @,
                       !.stage = IF a \in shaking THEN "failed" ELSE @]
<1>0. /\ attempts' = [a \in Attempts |-> Closed(a)]
      /\ target' = [target EXCEPT
            !.state = IF shaking # {} THEN "error"
                      ELSE IF @ = "none" THEN "none" ELSE "available"]
      /\ ClientsGone(clients, FALSE)
      /\ connector' = None /\ connecting' = None /\ peer' = None
      /\ activations' = activations /\ refreshing' = refreshing
      /\ hosted' = hosted
  BY DEF Deactivate
<1>1. ASSUME NEW a \in Attempts
      PROVE  /\ Closed(a) \in AttemptRecords /\ Sound(Closed(a))
             /\ attempts[a].stage = "connected" =>
                   /\ Closed(a).stage = "connected"
                   /\ Closed(a).client = "failed" => attempts[a].client = "failed"
  <2>1. attempts[a] \in AttemptRecords /\ Sound(attempts[a])
    BY BeforeStep
  <2>2. /\ Left(a) \in AttemptRecords
        /\ Left(a).stage = attempts[a].stage /\ Left(a).client = attempts[a].client
        /\ a \notin mine => Left(a) = attempts[a]
        /\ a \in mine => /\ Left(a).session = "closed" /\ Left(a).channels # "open"
                         /\ ~Left(a).deadline
                         /\ attempts[a].channels = "none" => Left(a).channels = "none"
    BY <2>1, ClosedRecord
  <2>3. /\ a \in clients => attempts[a].client = "open"
        /\ a \in shaking => /\ a \in mine /\ a \in clients
                            /\ attempts[a].stage = "handshake"
        /\ a \in mine /\ attempts[a].stage = "handshake" => a \in shaking
        /\ a \in mine => attempts[a].session = "open"
        /\ a \in clients /\ a \notin mine => attempts[a].stage = "connected"
    BY <2>1 DEF Sound, TargetsInv, PeerInv
  <2> HIDE DEF mine, clients, shaking, Left
  <2>4. /\ Closed(a) \in AttemptRecords
        /\ Closed(a).stage = IF a \in shaking THEN "failed" ELSE Left(a).stage
        /\ Closed(a).client = IF a \in clients THEN "closed" ELSE Left(a).client
        /\ Closed(a).channels = IF a \in clients THEN "closed" ELSE Left(a).channels
        /\ Closed(a).session = Left(a).session
        /\ Closed(a).deadline = Left(a).deadline /\ Closed(a).rtc = Left(a).rtc
    BY <2>2 DEF AttemptRecords
  <2> HIDE DEF Closed
  <2>5. CASE a \notin mine
    BY <2>1, <2>2, <2>3, <2>4, <2>5 DEF Sound
  <2>6. CASE a \in mine
    BY <2>1, <2>2, <2>3, <2>4, <2>6 DEF Sound
  <2> QED BY <2>4, <2>5, <2>6
<1> HIDE DEF mine, clients, shaking, Closed
<1>2. \A a \in Attempts : attempts'[a] = Closed(a)
  BY <1>0
<1>3. AttemptsTyped' /\ AttemptsSound'
  BY <1>0, <1>1, <1>2 DEF AttemptsTyped, AttemptsSound
<1>4. /\ RouterHolds(proxies', requests', subscribed', attempts')
      /\ DOMAIN proxies' = DOMAIN proxies
  <2>1. \A a \in Attempts :
           attempts[a].stage = "connected" =>
              /\ attempts'[a].stage = "connected"
              /\ attempts'[a].client = "failed" =>
                    attempts[a].client = "failed" \/ (FALSE /\ a \in clients)
    BY <1>1, <1>2
  <2> QED BY <1>0, <2>1, GoneHolds DEF TargetsInv
<1>5. TargetTyped' /\ PeerInv'
  <2>1. /\ target' \in [listed : BOOLEAN, state : TargetStates]
        /\ target'.state # "connected"
    BY <1>0 DEF TargetsInv, TargetTyped, TargetStates
  <2> QED BY <1>0, <2>1 DEF TargetTyped, PeerInv
<1>6. HostTyped' /\ HostedKnown'
  BY <1>0, <1>4 DEF TargetsInv, HostTyped, HostedKnown
<1> QED BY <1>3, <1>4, <1>5, <1>6 DEF TargetsInv

-----------------------------------------------------------------------------
(* The actions of the terminals *)

\* The targets and the attempts are as they were.
LEMMA RouterStep ==
    ASSUME TargetsInv, UNCHANGED <<hostVars, refreshing, targetVars, attempts>>,
           RouterHolds(proxies', requests', subscribed', attempts),
           HostedKnown'
    PROVE  TargetsInv'
<1>1. attempts' = attempts
  OBVIOUS
<1>2. AttemptsTyped' /\ AttemptsSound'
  BY <1>1 DEF TargetsInv, AttemptsTyped, AttemptsSound
<1>3. HostTyped' /\ TargetTyped' /\ PeerInv'
  BY DEF TargetsInv, HostTyped, TargetTyped, PeerInv, hostVars, targetVars
<1>4. RouterHolds(proxies', requests', subscribed', attempts')
  BY <1>1
<1> QED BY <1>2, <1>3, <1>4 DEF TargetsInv

LEMMA HostRestartsStep ==
    ASSUME TargetsInv, HostRestarts
    PROVE  TargetsInv'
<1>1. HostedKnown'
  BY DEF HostRestarts, HostedKnown
<1>2. RouterHolds(proxies', requests', subscribed', attempts)
  BY DEF HostRestarts, TargetsInv, routerVars
<1> QED BY <1>1, <1>2, RouterStep DEF HostRestarts

\* The map has room for one more terminal: its launch is one more request.
LEMMA FurtherLaunch ==
    ASSUME NEW ps, NEW rs, NEW sub, NEW at, RouterHolds(ps, rs, sub, at),
           NEW a, Known(a, sub, at),
           Len(ps) + Cardinality(Launches(rs)) < MaxTerminals
    PROVE  RouterHolds(ps, rs \cup {[kind |-> "launch", terminal |-> None,
                                     via |-> a]}, sub, at)
<1> DEFINE r == [kind |-> "launch", terminal |-> None, via |-> a]
<1>0. /\ ps \in Seq(ProxyRecords) /\ rs \subseteq Requests /\ IsFiniteSet(rs)
      /\ a \in Attempts
  BY DEF RouterHolds, RouterTyped, Known
<1>1. r \in Requests /\ r.kind = "launch" /\ r.via = a
  BY <1>0 DEF Requests
<1> HIDE DEF r
<1>2. RouterTyped(ps, rs \cup {r}, sub)
  BY <1>0, <1>1, FS_AddElement DEF RouterHolds, RouterTyped
<1>3. RequestsHold(ps, rs \cup {r}, sub, at)
  BY <1>1 DEF RouterHolds, RequestsHold
<1>4. HasRoom(ps, rs \cup {r})
  <2>1. IsFiniteSet(Launches(rs))
    BY <1>0, FS_Subset DEF Launches
  <2>2. Launches(rs \cup {r}) = Launches(rs) \cup {r}
    BY <1>1 DEF Launches
  <2>3. /\ Cardinality(Launches(rs)) \in Nat
        /\ \/ Cardinality(Launches(rs \cup {r})) = Cardinality(Launches(rs))
           \/ Cardinality(Launches(rs \cup {r})) = Cardinality(Launches(rs)) + 1
    BY <2>1, <2>2, FS_CardinalityType, FS_AddElement
  <2>4. Len(ps) \in Nat
    BY <1>0, LenProperties
  <2> QED BY <2>3, <2>4, RemoteTargetsAssumption DEF HasRoom
<1>5. RouterHolds(ps, rs \cup {r}, sub, at)
  BY <1>2, <1>3, <1>4 DEF RouterHolds
<1> QED BY <1>5 DEF r

LEMMA LaunchStep ==
    ASSUME TargetsInv, Launch
    PROVE  TargetsInv'
<1> DEFINE sub == subscribed \cup {peer}
<1>0. /\ peer # None /\ subscribed' = sub /\ proxies' = proxies
      /\ hosted' = hosted
      /\ Len(proxies) + Cardinality(Launches(requests)) < MaxTerminals
      /\ requests' = IF Usable(peer)
                     THEN requests \cup {[kind |-> "launch", terminal |-> None,
                                          via |-> peer]}
                     ELSE requests
  BY DEF Launch, Launches
<1>1. peer \in Attempts /\ attempts[peer].stage = "connected"
  BY <1>0 DEF TargetsInv, TargetTyped, PeerInv
<1>2. RouterHolds(proxies, requests, sub, attempts) /\ Known(peer, sub, attempts)
  BY <1>1, MoreSubscribed DEF Known, TargetsInv
<1> HIDE DEF sub
<1>3. RouterHolds(proxies, requests \cup {[kind |-> "launch", terminal |-> None,
                                           via |-> peer]}, sub, attempts)
  BY <1>0, <1>2, FurtherLaunch
<1>4. RouterHolds(proxies', requests', subscribed', attempts)
  <2>1. CASE Usable(peer)
    BY <1>0, <1>3, <2>1
  <2>2. CASE ~Usable(peer)
    BY <1>0, <1>2, <2>2
  <2> QED BY <2>1, <2>2
<1>5. HostedKnown'
  BY <1>0 DEF TargetsInv, HostedKnown
<1> QED BY <1>4, <1>5, RouterStep DEF Launch

\* The launch becomes a terminal, over a connection that is not lost.
LEMMA LaunchAnsweredStep ==
    ASSUME TargetsInv, NEW r \in requests, LaunchAnswered(r)
    PROVE  TargetsInv'
<1> DEFINE new == [via |-> r.via, connected |-> TRUE, visible |-> TRUE,
                   shown |-> "running"]
           left == requests \ {r}
<1>0. /\ r.kind = "launch" /\ attempts[r.via].client = "open"
      /\ proxies' = Append(proxies, new) /\ requests' = left
      /\ hosted' = hosted \cup {Len(proxies')} /\ subscribed' = subscribed
  BY DEF LaunchAnswered, Usable
<1>1. /\ RouterHolds(proxies, requests, subscribed, attempts)
      /\ proxies \in Seq(ProxyRecords) /\ requests \subseteq Requests
      /\ IsFiniteSet(requests) /\ subscribed \subseteq Attempts
  BY DEF TargetsInv, RouterHolds, RouterTyped
<1>2. Known(r.via, subscribed, attempts) /\ r.via \in Attempts
  BY <1>1 DEF RouterHolds, RequestsHold, Known
<1>3. new \in ProxyRecords /\ new.via = r.via /\ new.connected
  BY <1>2 DEF ProxyRecords
<1> HIDE DEF new
<1>4. /\ proxies' \in Seq(ProxyRecords)
      /\ Len(proxies) \in Nat /\ Len(proxies') = Len(proxies) + 1
      /\ DOMAIN proxies = 1..Len(proxies)
      /\ DOMAIN proxies' = 1..(Len(proxies) + 1)
      /\ \A t \in 1..Len(proxies) : proxies'[t] = proxies[t]
      /\ proxies'[Len(proxies) + 1] = new
  BY <1>0, <1>1, <1>3, AppendProperties, LenProperties
<1>5. RouterHolds(proxies, left, subscribed, attempts)
  BY <1>1, FewerRequests
<1>6. RouterTyped(proxies', left, subscribed)
  BY <1>4, <1>5 DEF RouterHolds, RouterTyped
<1>7. HasRoom(proxies', left)
  <2>1. IsFiniteSet(Launches(requests))
    BY <1>1, FS_Subset DEF Launches
  <2>2. Launches(left) = Launches(requests) \ {r} /\ r \in Launches(requests)
    BY <1>0 DEF Launches
  <2>3. /\ Cardinality(Launches(requests)) \in Nat
        /\ Cardinality(Launches(left)) = Cardinality(Launches(requests)) - 1
    BY <2>1, <2>2, FS_CardinalityType, FS_RemoveElement
  <2> QED BY <1>1, <1>4, <2>3, RemoteTargetsAssumption DEF RouterHolds, HasRoom
<1>8. ProxiesHold(proxies', subscribed, attempts)
  <2> SUFFICES ASSUME NEW t \in DOMAIN proxies', proxies'[t].connected
               PROVE  /\ Known(proxies'[t].via, subscribed, attempts)
                      /\ attempts[proxies'[t].via].client # "failed"
    BY DEF ProxiesHold
  <2>1. CASE t \in 1..Len(proxies)
    BY <1>1, <1>4, <2>1 DEF RouterHolds, ProxiesHold
  <2>2. CASE t = Len(proxies) + 1
    BY <1>0, <1>2, <1>3, <1>4, <2>2
  <2> QED BY <1>4, <2>1, <2>2
<1>9. RequestsHold(proxies', left, subscribed, attempts)
  BY <1>4, <1>5 DEF RouterHolds, RequestsHold
<1>10. RouterHolds(proxies', requests', subscribed', attempts)
  BY <1>0, <1>6, <1>7, <1>8, <1>9 DEF RouterHolds
<1>11. HostedKnown'
  BY <1>0, <1>4 DEF TargetsInv, HostedKnown
<1> QED BY <1>10, <1>11, RouterStep DEF LaunchAnswered

\* A terminal is shown differently, and on no connection it was not on.
LEMMA ShownDifferently ==
    ASSUME NEW ps, NEW rs, NEW sub, NEW at, RouterHolds(ps, rs, sub, at),
           NEW t \in DOMAIN ps, NEW q \in ProxyRecords,
           q.via = ps[t].via, q.connected => ps[t].connected
    PROVE  /\ RouterHolds([ps EXCEPT ![t] = q], rs, sub, at)
           /\ DOMAIN [ps EXCEPT ![t] = q] = DOMAIN ps
<1> DEFINE qs == [ps EXCEPT ![t] = q]
<1>1. /\ qs \in Seq(ProxyRecords)
      /\ Len(qs) = Len(ps) /\ DOMAIN qs = DOMAIN ps
      /\ qs[t] = q
      /\ \A u \in DOMAIN ps \ {t} : qs[u] = ps[u]
  BY ReplacedAt DEF RouterHolds, RouterTyped
<1> HIDE DEF qs
<1>2. ASSUME NEW u \in DOMAIN qs
      PROVE  /\ qs[u].via = ps[u].via
             /\ qs[u].connected => /\ Known(qs[u].via, sub, at)
                                   /\ at[qs[u].via].client # "failed"
  <2>1. qs[u].via = ps[u].via /\ (qs[u].connected => ps[u].connected)
    BY <1>1
  <2> QED BY <1>1, <2>1 DEF RouterHolds, ProxiesHold
<1>3. RouterHolds(qs, rs, sub, at)
  BY <1>1, <1>2, OtherProxies
<1> QED BY <1>1, <1>3 DEF qs

LEMMA AttachAnsweredStep ==
    ASSUME TargetsInv, NEW r \in requests, AttachAnswered(r)
    PROVE  TargetsInv'
<1> DEFINE t == r.terminal
           q == [proxies[t] EXCEPT !.shown = "running"]
           ps == [proxies EXCEPT ![t] = q]
           left == requests \ {r}
<1>0. /\ r.kind = "attach" /\ attempts[r.via].client = "open"
      /\ ResumesFrom(ps, left, r.via, TRUE, t + 1)
      /\ subscribed' = subscribed /\ hosted' = hosted
  BY DEF AttachAnswered, Usable
<1>1. /\ RouterHolds(proxies, requests, subscribed, attempts)
      /\ proxies \in Seq(ProxyRecords)
  BY DEF TargetsInv, RouterHolds, RouterTyped
<1>2. Known(r.via, subscribed, attempts) /\ t \in DOMAIN proxies
  BY <1>0, <1>1 DEF RouterHolds, RequestsHold
<1>3. /\ q \in ProxyRecords
      /\ q.via = proxies[t].via /\ q.connected = proxies[t].connected
  <2>1. proxies[t] \in ProxyRecords
    BY <1>1, <1>2, ProxiesTyped
  <2> QED BY <2>1 DEF ProxyRecords
<1> HIDE DEF q, t
<1>4. /\ RouterHolds(ps, requests, subscribed, attempts)
      /\ DOMAIN ps = DOMAIN proxies
  BY <1>1, <1>2, <1>3, ShownDifferently
<1> HIDE DEF ps
<1>5. RouterHolds(ps, left, subscribed, attempts)
  BY <1>4, FewerRequests
<1> HIDE DEF left
<1>6. /\ RouterHolds(proxies', requests', subscribed, attempts)
      /\ DOMAIN proxies' = DOMAIN ps
  BY <1>0, <1>2, <1>5, Resumption
<1>7. RouterHolds(proxies', requests', subscribed', attempts) /\ HostedKnown'
  BY <1>0, <1>4, <1>6 DEF TargetsInv, HostedKnown
<1> QED BY <1>7, RouterStep DEF AttachAnswered

LEMMA DetachAnsweredStep ==
    ASSUME TargetsInv, NEW r \in requests, DetachAnswered(r)
    PROVE  TargetsInv'
<1> DEFINE t == r.terminal
           q == [proxies[t] EXCEPT !.connected = FALSE, !.visible = FALSE,
                                   !.shown = "exited"]
           left == requests \ {r}
<1>0. /\ r.kind = "detach" /\ requests' = left
      /\ proxies' = [proxies EXCEPT ![t] = q]
      /\ subscribed' = subscribed /\ hosted' = hosted
  BY DEF DetachAnswered
<1>1. /\ RouterHolds(proxies, left, subscribed, attempts)
      /\ proxies \in Seq(ProxyRecords)
  BY FewerRequests DEF TargetsInv, RouterHolds, RouterTyped
<1>2. t \in DOMAIN proxies
  BY <1>0 DEF TargetsInv, RouterHolds, RequestsHold
<1>3. q \in ProxyRecords /\ q.via = proxies[t].via /\ ~q.connected
  <2>1. proxies[t] \in ProxyRecords
    BY <1>1, <1>2, ProxiesTyped
  <2> QED BY <2>1 DEF ProxyRecords
<1> HIDE DEF q, t, left
<1>4. /\ RouterHolds(proxies', left, subscribed, attempts)
      /\ DOMAIN proxies' = DOMAIN proxies
  BY <1>0, <1>1, <1>2, <1>3, ShownDifferently
<1>5. RouterHolds(proxies', requests', subscribed', attempts) /\ HostedKnown'
  BY <1>0, <1>4 DEF TargetsInv, HostedKnown
<1> QED BY <1>5, RouterStep DEF DetachAnswered

LEMMA RequestFailsStep ==
    ASSUME TargetsInv, NEW r \in requests, RequestFails(r)
    PROVE  TargetsInv'
<1> DEFINE left == requests \ {r}
<1>0. /\ requests' = left
      /\ proxies' = IF r.kind = "attach" THEN Disconnected(proxies, {r.terminal})
                    ELSE proxies
      /\ subscribed' = subscribed /\ hosted' = hosted
  BY DEF RequestFails
<1>1. RouterHolds(proxies, left, subscribed, attempts)
  BY FewerRequests DEF TargetsInv
<1> HIDE DEF left
<1>2. \A t \in DOMAIN proxies :
         proxies[t].connected => attempts[proxies[t].via].client # "failed"
  BY DEF TargetsInv, RouterHolds, ProxiesHold
<1>3. /\ RouterHolds(Disconnected(proxies, {r.terminal}), left, subscribed, attempts)
      /\ DOMAIN Disconnected(proxies, {r.terminal}) = DOMAIN proxies
  BY <1>1, <1>2, Disconnects
<1>4. /\ RouterHolds(proxies', left, subscribed, attempts)
      /\ DOMAIN proxies' = DOMAIN proxies
  <2>1. CASE r.kind = "attach"
    BY <1>0, <1>3, <2>1
  <2>2. CASE r.kind # "attach"
    BY <1>0, <1>1, <2>2
  <2> QED BY <2>1, <2>2
<1>5. RouterHolds(proxies', requests', subscribed', attempts) /\ HostedKnown'
  BY <1>0, <1>4 DEF TargetsInv, HostedKnown
<1> QED BY <1>5, RouterStep DEF RequestFails

LEMMA CloseTabStep ==
    ASSUME TargetsInv, NEW t \in DOMAIN proxies, CloseTab(t)
    PROVE  TargetsInv'
<1>1. /\ RouterHolds(proxies, requests, subscribed, attempts)
      /\ proxies \in Seq(ProxyRecords)
      /\ subscribed' = subscribed /\ hosted' = hosted
  BY DEF TargetsInv, RouterHolds, RouterTyped, CloseTab
<1>2. /\ RouterHolds(proxies', requests', subscribed, attempts)
      /\ DOMAIN proxies' = DOMAIN proxies
  <2>1. CASE /\ proxies[t].connected
             /\ requests' = requests \cup
                   {[kind |-> "detach", terminal |-> t, via |-> proxies[t].via]}
             /\ UNCHANGED proxies
    <3> DEFINE r == [kind |-> "detach", terminal |-> t, via |-> proxies[t].via]
    <3>1. Known(proxies[t].via, subscribed, attempts)
      BY <1>1, <2>1 DEF RouterHolds, ProxiesHold
    <3>2. t \in 1..MaxTerminals /\ proxies[t].via \in Attempts
      <4>1. IsFiniteSet(Launches(requests))
        BY FS_Subset DEF Launches, TargetsInv, RouterHolds, RouterTyped
      <4>2. Cardinality(Launches(requests)) \in Nat
        BY <4>1, FS_CardinalityType
      <4>3. /\ t \in 1..Len(proxies) /\ Len(proxies) \in Nat
            /\ proxies[t].via \in Attempts
        BY <1>1, ProxiesTyped
      <4> QED BY <1>1, <4>2, <4>3, RemoteTargetsAssumption DEF RouterHolds, HasRoom
    <3>3. /\ r \in Requests /\ r.kind = "detach" /\ r.terminal = t
          /\ r.via = proxies[t].via
      BY <3>2 DEF Requests
    <3> HIDE DEF r
    <3>4. RouterHolds(proxies, requests \cup {r}, subscribed, attempts)
      BY <1>1, <3>1, <3>3, FurtherRequest
    <3>5. requests' = requests \cup {r} /\ proxies' = proxies
      BY <2>1 DEF r
    <3> QED BY <3>4, <3>5
  <2>2. CASE /\ ~proxies[t].connected
             /\ proxies' = [proxies EXCEPT ![t] = [@ EXCEPT
                              !.visible = FALSE, !.shown = "exited"]]
             /\ UNCHANGED requests
    <3> DEFINE q == [proxies[t] EXCEPT !.visible = FALSE, !.shown = "exited"]
    <3>1. /\ q \in ProxyRecords /\ q.via = proxies[t].via
          /\ q.connected = proxies[t].connected
      <4>1. proxies[t] \in ProxyRecords
        BY <1>1, ProxiesTyped
      <4> QED BY <4>1 DEF ProxyRecords
    <3>2. proxies' = [proxies EXCEPT ![t] = q] /\ requests' = requests
      BY <2>2
    <3> HIDE DEF q
    <3> QED BY <1>1, <3>1, <3>2, ShownDifferently
  <2> QED BY <2>1, <2>2 DEF CloseTab
<1>3. RouterHolds(proxies', requests', subscribed', attempts) /\ HostedKnown'
  BY <1>1, <1>2 DEF TargetsInv, HostedKnown
<1> QED BY <1>3, RouterStep DEF CloseTab

LEMMA GivesUpStep ==
    ASSUME TargetsInv, NEW t \in DOMAIN proxies, GivesUp(t)
    PROVE  TargetsInv'
<1>0. /\ proxies' = Disconnected(proxies, {t}) /\ requests' = requests
      /\ subscribed' = subscribed /\ hosted' = hosted
  BY DEF GivesUp
<1>1. /\ RouterHolds(proxies, requests, subscribed, attempts)
      /\ \A u \in DOMAIN proxies :
            proxies[u].connected => attempts[proxies[u].via].client # "failed"
  BY DEF TargetsInv, RouterHolds, ProxiesHold
<1>2. /\ RouterHolds(Disconnected(proxies, {t}), requests, subscribed, attempts)
      /\ DOMAIN Disconnected(proxies, {t}) = DOMAIN proxies
  BY <1>1, Disconnects
<1>3. RouterHolds(proxies', requests', subscribed', attempts) /\ HostedKnown'
  BY <1>0, <1>2 DEF TargetsInv, HostedKnown
<1> QED BY <1>3, RouterStep DEF GivesUp

-----------------------------------------------------------------------------
(* The theorems *)

LEMMA TargetsInit == Init => TargetsInv
<1> SUFFICES ASSUME Init
             PROVE  TargetsInv
  OBVIOUS
<1>1. HostTyped /\ TargetTyped /\ PeerInv /\ HostedKnown
  <2>1. HostTyped /\ HostedKnown
    <3>1. connector = 0 /\ activations = 0 /\ hosted = {}
      BY DEF Init, None
    <3>2. refreshing = FALSE
      BY DEF Init
    <3>3. refreshing \in BOOLEAN
      BY <3>2
    <3>4. /\ connector \in {None, activations}
          /\ activations \in 0..MaxActivations
      BY <3>1, RemoteTargetsAssumption DEF None
    <3> QED BY <3>1, <3>3, <3>4 DEF HostTyped, HostedKnown
  <2>2. target = [listed |-> FALSE, state |-> "none"] /\ connecting = None /\ peer = None
    BY DEF Init
  <2>3. /\ target \in [listed : BOOLEAN, state : TargetStates]
        /\ target.state # "connected"
    BY <2>2 DEF TargetStates
  <2> QED BY <2>1, <2>2, <2>3 DEF TargetTyped, PeerInv
<1>2. AttemptsTyped /\ AttemptsSound
  <2>1. NewAttempt \in AttemptRecords /\ Sound(NewAttempt)
    BY RemoteTargetsAssumption DEF NewAttempt, AttemptRecords, Sound, None
  <2> QED BY <2>1 DEF Init, AttemptsTyped, AttemptsSound
<1>3. RouterHolds(proxies, requests, subscribed, attempts)
  <2>1. proxies = <<>> /\ requests = {} /\ subscribed = {}
    BY DEF Init
  <2>2. /\ proxies \in Seq(ProxyRecords) /\ Len(proxies) = 0
        /\ DOMAIN proxies = {}
    BY <2>1, EmptySeq
  <2>3. RouterTyped(proxies, requests, subscribed)
    BY <2>1, <2>2, FS_EmptySet DEF RouterTyped
  <2>4. HasRoom(proxies, requests)
    <3>1. Launches(requests) = {}
      BY <2>1 DEF Launches
    <3> QED BY <2>2, <3>1, FS_EmptySet, RemoteTargetsAssumption DEF HasRoom
  <2>5. /\ ProxiesHold(proxies, subscribed, attempts)
        /\ RequestsHold(proxies, requests, subscribed, attempts)
    BY <2>1, <2>2 DEF ProxiesHold, RequestsHold
  <2> QED BY <2>3, <2>4, <2>5 DEF RouterHolds
<1> QED BY <1>1, <1>2, <1>3 DEF TargetsInv

LEMMA TargetsNext == TargetsInv /\ [Next]_vars => TargetsInv'
<1> SUFFICES ASSUME TargetsInv, [Next]_vars
             PROVE  TargetsInv'
  OBVIOUS
<1>1. ASSUME NEW a \in Attempts,
             \/ ConnectTarget(a)
             \/ \E found \in BOOLEAN : Relisted(a, found)
             \/ ListingFails(a) \/ SessionCreated(a) \/ Approved(a)
             \/ AttemptFails(a) \/ Prepared(a) \/ RtcConnected(a)
             \/ ChannelsOpen(a) \/ NegotiationFails(a) \/ HandshakeDone(a)
             \/ HandshakeFails(a) \/ ChannelLost(a) \/ SessionLost(a)
             \/ ClientFails(a)
      PROVE  TargetsInv'
  BY <1>1, ConnectTargetStep, RelistedStep, ListingFailsStep,
     SessionCreatedStep, ApprovedStep, AttemptFailsStep, PreparedStep,
     RtcConnectedStep, ChannelsOpenStep, NegotiationFailsStep,
     HandshakeDoneStep, HandshakeFailsStep, ChannelLostStep, SessionLostStep,
     ClientFailsStep
<1>2. CASE \/ Activate \/ Deactivate \/ RefreshTargets \/ RefreshFails
           \/ \E found \in BOOLEAN : RefreshAnswers(found)
           \/ HostRestarts \/ Launch
  BY <1>2, ActivateStep, DeactivateStep, RefreshTargetsStep, RefreshFailsStep,
     RefreshAnswersStep, HostRestartsStep, LaunchStep
<1>3. ASSUME NEW r \in requests,
             \/ LaunchAnswered(r) \/ AttachAnswered(r)
             \/ DetachAnswered(r) \/ RequestFails(r)
      PROVE  TargetsInv'
  BY <1>3, LaunchAnsweredStep, AttachAnsweredStep, DetachAnsweredStep,
     RequestFailsStep
<1>4. ASSUME NEW t \in DOMAIN proxies, CloseTab(t) \/ GivesUp(t)
      PROVE  TargetsInv'
  BY <1>4, CloseTabStep, GivesUpStep
<1>5. CASE UNCHANGED vars
  <2>1. UNCHANGED <<hostVars, refreshing, targetVars, attempts, routerVars, hosted>>
    BY <1>5 DEF vars, hostVars, targetVars, routerVars
  <2>2. RouterHolds(proxies', requests', subscribed', attempts) /\ HostedKnown'
    BY <2>1 DEF TargetsInv, HostedKnown, routerVars
  <2> QED BY <2>1, <2>2, RouterStep
<1> QED BY <1>1, <1>2, <1>3, <1>4, <1>5 DEF Next

\* The inductive invariant holds in every state.
LEMMA TargetsAlways == Spec => []TargetsInv
BY TargetsInit, TargetsNext, PTL DEF Spec

\* What it says is what the runs check.
LEMMA TargetsSafe ==
    ASSUME TargetsInv
    PROVE  ShownIsConnected /\ NothingLingers
<1>1. /\ RouterHolds(proxies, requests, subscribed, attempts)
      /\ proxies \in Seq(ProxyRecords) /\ requests \subseteq Requests
      /\ IsFiniteSet(requests) /\ subscribed \subseteq Attempts
  BY DEF TargetsInv, RouterHolds, RouterTyped
<1>2. ConnectedIsUsable
  BY DEF TargetsInv, PeerInv, ConnectedIsUsable
<1>3. LossIsShown
  BY <1>1 DEF RouterHolds, ProxiesHold, LossIsShown
<1>4. FailedLeavesNothing
  BY DEF TargetsInv, AttemptsSound, Sound, FailedLeavesNothing
<1>5. AttachedOnce
  BY <1>1 DEF RouterHolds, RequestsHold, AttachedOnce
<1>6. TypeOK
  <2>1. Len(proxies) <= MaxTerminals
    <3>1. IsFiniteSet(Launches(requests))
      BY <1>1, FS_Subset DEF Launches
    <3>2. Cardinality(Launches(requests)) \in Nat
      BY <3>1, FS_CardinalityType
    <3>3. Len(proxies) \in Nat
      BY <1>1, LenProperties
    <3> QED BY <1>1, <3>2, <3>3, RemoteTargetsAssumption DEF RouterHolds, HasRoom
  <2>2. \A t \in DOMAIN proxies :
          proxies[t] \in [via : Attempts, connected : BOOLEAN,
                          visible : BOOLEAN, shown : {"running", "exited"}]
    BY <1>1, ProxiesTyped DEF ProxyRecords
  <2>3. \A a \in Attempts :
          attempts[a].deadline => /\ attempts[a].stage = "negotiating"
                                  /\ attempts[a].session = "open"
    BY DEF TargetsInv, AttemptsSound, Sound
  <2>4. HostTyped /\ TargetTyped /\ AttemptsTyped /\ HostedKnown
    BY DEF TargetsInv
  <2> QED BY <1>1, <2>1, <2>2, <2>3, <2>4
          DEF TypeOK, HostTyped, TargetTyped, AttemptsTyped, HostedKnown
<1> QED BY <1>2, <1>3, <1>4, <1>5, <1>6 DEF ShownIsConnected, NothingLingers

\* Neither the target nor a terminal is shown as connected on a peer that is
\* known to be gone, for any number of attempts, activations and terminals
\* (connectTarget, publish, disconnectPeer, resume).
THEOREM TargetsShown == Spec => []ShownIsConnected
BY TargetsAlways, TargetsSafe, PTL

\* No attempt that failed leaves a deadline, a session or a channel behind, and
\* a terminal is attached once at a time, to the peer its session names (fail,
\* close, disconnectAll, resume).
THEOREM TargetsLeaveNothing == Spec => []NothingLingers
BY TargetsAlways, TargetsSafe, PTL
=============================================================================
