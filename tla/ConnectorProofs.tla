--------------------------- MODULE ConnectorProofs ---------------------------
(***************************************************************************)
(* Proofs for the connectors, of each for itself: the MQTT, the REST and   *)
(* the request connector.  Each is shown to take only steps of             *)
(* ConnectorContract, or steps the gateway does not see, for any readings, *)
(* calls, workers, queues and limits.  (That calls and a close come to an  *)
(* end is checked on small instances.)                                     *)
(***************************************************************************)
EXTENDS MCConnectors, FiniteSetTheorems, TLAPS

-----------------------------------------------------------------------------
(* What the connectors' queues are made of.                                    *)

(* The rest of a queue, by its places in the whole.                            *)
LEMMA TailParts ==
  ASSUME NEW S, NEW s \in Seq(S), s # <<>>
  PROVE  /\ Tail(s) \in Seq(S) /\ 1 \in DOMAIN s /\ Head(s) = s[1] /\ s[1] \in S
         /\ \A i \in DOMAIN Tail(s) : /\ i \in Nat /\ i + 1 \in DOMAIN s /\ i + 1 # 1
                                      /\ Tail(s)[i] = s[i + 1]
  OBVIOUS

(* One more element at the end.                                                *)
LEMMA AppendParts ==
  ASSUME NEW S, NEW s \in Seq(S), NEW e \in S
  PROVE  /\ Append(s, e) \in Seq(S) /\ Len(s) + 1 \notin DOMAIN s
         /\ \A i \in DOMAIN Append(s, e) : \/ i \in DOMAIN s /\ Append(s, e)[i] = s[i]
                                           \/ i = Len(s) + 1 /\ Append(s, e)[i] = e
  OBVIOUS

(* The first n elements, and what is left.                                     *)
LEMMA SplitParts ==
  ASSUME NEW S, NEW s \in Seq(S), NEW n \in 1..Len(s)
  PROVE  /\ SubSeq(s, 1, n) \in Seq(S) /\ SubSeq(s, n + 1, Len(s)) \in Seq(S)
         /\ \A i \in DOMAIN SubSeq(s, 1, n) :
              /\ i \in Nat /\ i <= n /\ i \in DOMAIN s /\ SubSeq(s, 1, n)[i] = s[i]
         /\ \A i \in DOMAIN SubSeq(s, n + 1, Len(s)) :
              /\ i \in Nat /\ i + n \in DOMAIN s /\ i + n > n
              /\ SubSeq(s, n + 1, Len(s))[i] = s[i + n]
  <1>1. Len(s) \in Nat /\ DOMAIN s = 1..Len(s) /\ n \in Nat /\ n <= Len(s)
    OBVIOUS
  <1>2. /\ SubSeq(s, 1, n) = [i \in 1..n |-> s[i]]
        /\ SubSeq(s, n + 1, Len(s)) = [i \in 1..(Len(s) - n) |-> s[i + n]]
    BY <1>1
  <1>3. SubSeq(s, 1, n) \in Seq(S) /\ SubSeq(s, n + 1, Len(s)) \in Seq(S)
    BY <1>1
  <1>4. \A i \in 1..n : i \in Nat /\ i <= n /\ i \in DOMAIN s
    BY <1>1
  <1>5. \A i \in 1..(Len(s) - n) : i \in Nat /\ i + n \in DOMAIN s /\ i + n > n
    BY <1>1
  <1> QED BY <1>2, <1>3, <1>4, <1>5

(* One queue behind another.                                                   *)
LEMMA ConcatParts ==
  ASSUME NEW S, NEW s \in Seq(S), NEW t \in Seq(S)
  PROVE  /\ s \o t \in Seq(S) /\ Len(s) \in Nat
         /\ \A i \in DOMAIN (s \o t) :
              \/ i \in DOMAIN s /\ (s \o t)[i] = s[i]
              \/ /\ i \notin DOMAIN s /\ i \in Nat /\ i - Len(s) \in DOMAIN t
                 /\ (s \o t)[i] = t[i - Len(s)]
  OBVIOUS

(* The elements of a finite set in some order, none of them twice.             *)
LEMMA InSomeOrder ==
  ASSUME NEW S, IsFiniteSet(S)
  PROVE  /\ SetToSeq(S) \in Seq(S)
         /\ \A i, j \in DOMAIN SetToSeq(S) : SetToSeq(S)[i] = SetToSeq(S)[j] => i = j
  <1> DEFINE N == Cardinality(S)
  <1>1. N \in Nat /\ ExistsBijection(1..N, S)
    BY FS_CardinalityType
  <1>2. \E f \in [1..N -> S] : IsInjective(f)
    BY <1>1 DEF ExistsBijection, Bijection, Injection
  <1>3. SetToSeq(S) \in [1..N -> S] /\ IsInjective(SetToSeq(S))
    BY <1>2 DEF SetToSeq
  <1>4. SetToSeq(S) \in Seq(S)
    BY <1>1, <1>3
  <1> QED BY <1>3, <1>4 DEF IsInjective

(* What the gateway sees of a connector's calls when none of them ...          *)
LEMMA AsksStay ==
  ASSUME NEW f, NEW g, DOMAIN g = DOMAIN f, \A p \in DOMAIN f : g[p].caller = f[p].caller
  PROVE  Asks(g) = Asks(f)
  BY DEF Asks

(* ... or one of them is made ...                                              *)
LEMMA AsksOpen ==
  ASSUME NEW f, NEW g, DOMAIN g = DOMAIN f, NEW q \in DOMAIN f,
         \A p \in DOMAIN f : p # q => g[p].caller = f[p].caller,
         f[q].caller = "none", g[q].caller = "open"
  PROVE  Asks(f)[q] = "none" /\ Asks(g) = [Asks(f) EXCEPT ![q] = "open"]
  BY DEF Asks, Asked

(* ... or answered.                                                            *)
LEMMA AsksEnd ==
  ASSUME NEW f, NEW g, DOMAIN g = DOMAIN f, NEW q \in DOMAIN f,
         \A p \in DOMAIN f : p # q => g[p].caller = f[p].caller,
         f[q].caller = "open", g[q].caller \in {"ok", "error"}
  PROVE  Asks(f)[q] = "open" /\ Asks(g) = [Asks(f) EXCEPT ![q] = "answered"]
  BY DEF Asks, Asked

(* A sequence without repetitions, ...                                         *)
Once(s) == \A i, j \in DOMAIN s : s[i] = s[j] => i = j

(* ... what is left of it, ...                                                 *)
LEMMA OnceTail ==
  ASSUME NEW S, NEW s \in Seq(S), s # <<>>, Once(s)
  PROVE  /\ Tail(s) \in Seq(S) /\ Once(Tail(s)) /\ Head(s) \in S /\ Head(s) \in Range(s)
         /\ Range(Tail(s)) = Range(s) \ {Head(s)}
  <1>1. /\ Tail(s) \in Seq(S) /\ 1 \in DOMAIN s /\ Head(s) = s[1] /\ s[1] \in S
        /\ \A i \in DOMAIN Tail(s) : /\ i \in Nat /\ i + 1 \in DOMAIN s /\ i + 1 # 1
                                     /\ Tail(s)[i] = s[i + 1]
    BY TailParts
  <1>2. Once(Tail(s))
    <2> SUFFICES ASSUME NEW i \in DOMAIN Tail(s), NEW j \in DOMAIN Tail(s), Tail(s)[i] = Tail(s)[j]
                 PROVE i = j
      BY DEF Once
    <2>1. i \in Nat /\ j \in Nat BY <1>1
    <2>2. i + 1 = j + 1 BY <1>1 DEF Once
    <2> QED BY <2>1, <2>2
  <1>3. \A i \in DOMAIN s : i # 1 => i - 1 \in DOMAIN Tail(s) /\ Tail(s)[i - 1] = s[i]
    OBVIOUS
  <1>4. Range(Tail(s)) \subseteq Range(s) \ {Head(s)}
    BY <1>1 DEF Range, Once
  <1>5. Head(s) \in Range(s) /\ Range(s) \ {Head(s)} \subseteq Range(Tail(s))
    <2>1. Head(s) \in Range(s) BY <1>1 DEF Range
    <2>2. ASSUME NEW i \in DOMAIN s, s[i] # Head(s) PROVE s[i] \in Range(Tail(s))
      <3>1. i # 1 BY <1>1, <2>2
      <3>2. i - 1 \in DOMAIN Tail(s) /\ Tail(s)[i - 1] = s[i] BY <1>3, <3>1
      <3> QED BY <3>2 DEF Range
    <2> QED BY <2>1, <2>2 DEF Range
  <1> QED BY <1>1, <1>2, <1>4, <1>5

(* ... one more element, ...                                                   *)
LEMMA OnceAppend ==
  ASSUME NEW S, NEW s \in Seq(S), NEW e \in S, Once(s), e \notin Range(s)
  PROVE  Append(s, e) \in Seq(S) /\ Once(Append(s, e)) /\ Range(Append(s, e)) = Range(s) \cup {e}
  <1>1. /\ Append(s, e) \in Seq(S) /\ Len(s) + 1 \notin DOMAIN s
        /\ \A i \in DOMAIN Append(s, e) : \/ i \in DOMAIN s /\ Append(s, e)[i] = s[i]
                                          \/ i = Len(s) + 1 /\ Append(s, e)[i] = e
    BY AppendParts
  <1>2. \A i \in DOMAIN s : s[i] # e /\ i \in DOMAIN Append(s, e) /\ Append(s, e)[i] = s[i]
    BY DEF Range
  <1>3. Len(s) + 1 \in DOMAIN Append(s, e) /\ Append(s, e)[Len(s) + 1] = e
    OBVIOUS
  <1>4. Once(Append(s, e)) BY <1>1, <1>2 DEF Once
  <1>5. Range(Append(s, e)) \subseteq Range(s) \cup {e} BY <1>1 DEF Range
  <1>6. Range(s) \cup {e} \subseteq Range(Append(s, e)) BY <1>2, <1>3 DEF Range
  <1> QED BY <1>1, <1>4, <1>5, <1>6

(* ... and its two parts.                                                      *)
LEMMA OnceSplit ==
  ASSUME NEW S, NEW s \in Seq(S), NEW n \in 1..Len(s), Once(s)
  PROVE  LET t == SubSeq(s, 1, n)
             u == SubSeq(s, n + 1, Len(s))
         IN /\ t \in Seq(S) /\ u \in Seq(S) /\ Once(t) /\ Once(u)
            /\ Range(t) \subseteq Range(s) /\ Range(u) \subseteq Range(s)
            /\ Range(t) \cap Range(u) = {}
  <1> DEFINE t == SubSeq(s, 1, n)
             u == SubSeq(s, n + 1, Len(s))
  <1>1. /\ t \in Seq(S) /\ u \in Seq(S) /\ n \in Nat
        /\ \A i \in DOMAIN t : /\ i \in Nat /\ i <= n /\ i \in DOMAIN s /\ t[i] = s[i]
        /\ \A i \in DOMAIN u : /\ i \in Nat /\ i + n \in DOMAIN s /\ i + n > n /\ u[i] = s[i + n]
    BY SplitParts
  <1> HIDE DEF t, u
  <1>2. Once(t) BY <1>1 DEF Once
  <1>3. Once(u)
    <2> SUFFICES ASSUME NEW i \in DOMAIN u, NEW j \in DOMAIN u, u[i] = u[j] PROVE i = j
      BY DEF Once
    <2>1. i \in Nat /\ j \in Nat /\ n \in Nat BY <1>1
    <2>2. i + n = j + n BY <1>1 DEF Once
    <2> QED BY <2>1, <2>2
  <1>4. Range(t) \subseteq Range(s) /\ Range(u) \subseteq Range(s)
    BY <1>1 DEF Range
  <1>5. ASSUME NEW i \in DOMAIN t, NEW j \in DOMAIN u, t[i] = u[j] PROVE FALSE
    <2>1. i \in Nat /\ i <= n /\ j + n > n /\ n \in Nat /\ j \in Nat BY <1>1
    <2>2. i = j + n BY <1>1, <1>5 DEF Once
    <2> QED BY <2>1, <2>2
  <1>6. Range(t) \cap Range(u) = {} BY <1>5 DEF Range
  <1> QED BY <1>1, <1>2, <1>3, <1>4, <1>6 DEF t, u

\* What becomes of a reading, as in ConnectorContract.
FateType == {"unread", "held", "stored", "lost"}

------------------------------------------------------------------------------
(* That the rebuilding of the topic mapping hurts only messages of a former    *)
(* connection, for any topics, number of messages, workers and reconnections.  *)

RouteType ==
    /\ mqTodo \in Seq(Range(MqTopics)) /\ mqSubs \subseteq MqAllTopics
    /\ mqInbox \in Seq(MqMessages)
    /\ mqReader \in [at : {"idle", "matched", "dead", "error"}, message : MqMessages]
    /\ mqNet \in {"down", "setup", "up"} /\ mqMissed \in BOOLEAN

(* What the broker delivers has a handler.                                     *)
SubscribedInv == mqSubs \subseteq mqMapped \cup MqRequests

(* So has every message of this connection that waits, and the one in hand;    *)
(* while the mapping is being rebuilt no message of this connection waits.     *)
InboxInv ==
    \A i \in DOMAIN mqInbox : ~mqInbox[i].old
        => mqNet # "setup" /\ mqInbox[i].topic \in mqMapped \cup MqRequests
ReaderInv == mqReader.at = "matched" /\ ~mqReader.message.old => mqReader.message.topic \in mqMapped

RouteInv == RouteType /\ SubscribedInv /\ InboxInv /\ ReaderInv /\ CurrentTopicsAreMapped

(* No connection, no message.                                                  *)
LEMMA RouteInit == MqttInit => RouteInv
  <1> SUFFICES ASSUME MqttInit PROVE RouteInv
    OBVIOUS
  <1>1. \E t \in MqAllTopics : TRUE
    <2>1. 1 \in DOMAIN MqTopics BY MqttAssumption
    <2> QED BY <2>1 DEF MqAllTopics, Range
  <1>2. MqNoMessage \in MqMessages
    BY <1>1, MqttAssumption DEF MqNoMessage, MqMessages
  <1>3. RouteType
    <2>1. mqReader \in [at : {"idle", "matched", "dead", "error"}, message : MqMessages]
      BY <1>2 DEF MqttInit, MqNoReader
    <2>2. mqTodo \in Seq(Range(MqTopics)) /\ mqInbox \in Seq(MqMessages)
      BY DEF MqttInit
    <2>3. mqSubs \subseteq MqAllTopics /\ mqNet \in {"down", "setup", "up"} /\ mqMissed \in BOOLEAN
      BY DEF MqttInit
    <2> QED BY <2>1, <2>2, <2>3 DEF RouteType
  <1> QED BY <1>3 DEF MqttInit, RouteInv, SubscribedInv, InboxInv, ReaderInv, MqNoReader,
                      CurrentTopicsAreMapped

(* A step that is not about routing, or only loses what waits.                 *)
LEMMA NotRouting ==
  ASSUME RouteInv, UNCHANGED <<mqTodo, mqMapped, mqSubs, mqReader, mqMissed>>,
         mqInbox' \in {mqInbox, <<>>}, mqNet' \in {"down", "up", mqNet},
         mqNet' = "setup" => mqNet = "setup"
  PROVE  RouteInv'
  <1>0. mqInbox \in Seq(MqMessages) /\ mqNet \in {"down", "setup", "up"}
    BY DEF RouteInv, RouteType
  <1>1. mqInbox' \in Seq(MqMessages) /\ mqNet' \in {"down", "setup", "up"}
    <2>1. mqNet' \in {"down", "setup", "up"}
      BY <1>0
    <2>2. <<>> \in Seq(MqMessages)
      OBVIOUS
    <2> QED BY <1>0, <2>1, <2>2
  <1>2. InboxInv'
    <2>1. CASE mqInbox' = <<>>
      BY <2>1 DEF InboxInv
    <2>2. CASE mqInbox' = mqInbox
      BY <2>2 DEF RouteInv, InboxInv
    <2> QED BY <2>1, <2>2
  <1>3. RouteType'
    BY <1>1 DEF RouteInv, RouteType
  <1> QED BY <1>2, <1>3 DEF RouteInv, SubscribedInv, ReaderInv, CurrentTopicsAreMapped

(* The topics of the mapping, as a sequence of topics.                         *)
LEMMA TopicsAreTopics == MqTopics \in Seq(Range(MqTopics))
  <1>1. DOMAIN MqTopics = 1 .. Len(MqTopics) /\ Len(MqTopics) \in Nat
    BY MqttAssumption
  <1>2. \A i \in 1 .. Len(MqTopics) : MqTopics[i] \in Range(MqTopics)
    BY <1>1 DEF Range
  <1> HIDE DEF Range
  <1> QED BY <1>1, <1>2, MqttAssumption

(* Connecting ages every message before the mapping is emptied.                *)
LEMMA ConnectKeeps == RouteInv /\ MqOnConnect => RouteInv'
  <1> SUFFICES ASSUME RouteInv, MqOnConnect PROVE RouteInv'
    OBVIOUS
  <1>0. mqInbox \in Seq(MqMessages)
    BY DEF RouteInv, RouteType
  <1>1. /\ DOMAIN mqInbox' = DOMAIN mqInbox /\ Len(mqInbox) \in Nat
        /\ DOMAIN mqInbox = 1 .. Len(mqInbox)
    BY <1>0 DEF MqOnConnect
  <1>2. ASSUME NEW i \in DOMAIN mqInbox PROVE mqInbox'[i] \in MqMessages /\ mqInbox'[i].old
    <2>1. mqInbox[i] \in MqMessages
      BY <1>0
    <2>2. mqInbox'[i] = [mqInbox[i] EXCEPT !.old = TRUE]
      BY DEF MqOnConnect
    <2> QED BY <2>1, <2>2 DEF MqMessages
  <1>3. mqInbox' \in Seq(MqMessages)
    <2>1. mqInbox' = [i \in 1 .. Len(mqInbox) |-> mqInbox'[i]]
      BY <1>1 DEF MqOnConnect
    <2> QED BY <1>1, <1>2, <2>1
  <1>4. /\ mqReader' \in [at : {"idle", "matched", "dead", "error"}, message : MqMessages]
        /\ mqReader'.at \in {"matched", "dead"} => mqReader'.message.old
    BY DEF MqOnConnect, RouteInv, RouteType, MqMessages, CurrentTopicsAreMapped
  <1>5. RouteType'
    BY <1>3, <1>4, TopicsAreTopics DEF MqOnConnect, RouteInv, RouteType
  <1> QED BY <1>1, <1>2, <1>4, <1>5
          DEF MqOnConnect, RouteInv, SubscribedInv, InboxInv, ReaderInv, CurrentTopicsAreMapped

(* A topic is mapped before it is subscribed.                                  *)
LEMMA SetupKeeps == RouteInv /\ (MqSetupTopic \/ MqSetupEnds) => RouteInv'
  <1>1. ASSUME RouteInv, MqSetupTopic PROVE RouteInv'
    <2>1. mqTodo' \in Seq(Range(MqTopics)) /\ Head(mqTodo) \in MqAllTopics
      BY <1>1 DEF MqSetupTopic, RouteInv, RouteType, MqAllTopics
    <2>2. mqSubs' \subseteq MqAllTopics /\ SubscribedInv' /\ mqMapped \subseteq mqMapped'
      BY <1>1, <2>1 DEF MqSetupTopic, RouteInv, RouteType, SubscribedInv
    <2>3. UNCHANGED <<mqNet, mqInbox, mqReader, mqMissed>>
      BY <1>1 DEF MqSetupTopic
    <2> QED BY <1>1, <2>1, <2>2, <2>3
            DEF RouteInv, RouteType, InboxInv, ReaderInv, CurrentTopicsAreMapped
  <1>2. ASSUME RouteInv, MqSetupEnds PROVE RouteInv'
    <2>1. mqSubs' \subseteq MqAllTopics /\ SubscribedInv'
      BY <1>2 DEF MqSetupEnds, RouteInv, RouteType, SubscribedInv, MqAllTopics
    <2>2. UNCHANGED <<mqTodo, mqMapped, mqInbox, mqReader, mqMissed>> /\ mqNet' = "up"
      BY <1>2 DEF MqSetupEnds
    <2> QED BY <1>2, <2>1, <2>2
            DEF RouteInv, RouteType, InboxInv, ReaderInv, CurrentTopicsAreMapped
  <1> QED BY <1>1, <1>2

(* What arrives was subscribed on this connection.                             *)
LEMMA MessageKeeps == RouteInv /\ MqOnMessage => RouteInv'
  <1> SUFFICES ASSUME RouteInv, MqOnMessage PROVE RouteInv'
    OBVIOUS
  <1> DEFINE r == CHOOSE x \in MqUnread : TRUE
  <1>1. r \in MqReadings
    BY DEF MqOnMessage, MqUnread
  <1>2. PICK t \in mqSubs, odd \in BOOLEAN :
          mqInbox' = Append(mqInbox, [topic |-> t, reading |-> r, old |-> FALSE, odd |-> odd])
    BY DEF MqOnMessage, MqOdd
  <1> HIDE DEF r
  <1> DEFINE m == [topic |-> t, reading |-> r, old |-> FALSE, odd |-> odd]
  <1>3. m \in MqMessages /\ m.topic \in mqMapped \cup MqRequests
    BY <1>1 DEF MqMessages, RouteInv, RouteType, SubscribedInv
  <1> HIDE DEF m
  <1>4. mqInbox \in Seq(MqMessages)
    BY DEF RouteInv, RouteType
  <1>5. mqInbox' = Append(mqInbox, m)
    BY <1>2 DEF m
  <1>6. mqInbox' \in Seq(MqMessages)
    BY <1>3, <1>4, <1>5
  <1>7. UNCHANGED <<mqTodo, mqMapped, mqSubs, mqReader, mqMissed, mqNet>> /\ mqNet = "up"
    BY DEF MqOnMessage, mqRouting
  <1>8. \A i \in DOMAIN mqInbox' : mqInbox'[i] = m \/ (i \in DOMAIN mqInbox /\ mqInbox'[i] = mqInbox[i])
    BY <1>3, <1>4, <1>5
  <1> QED BY <1>3, <1>6, <1>7, <1>8
          DEF RouteInv, RouteType, SubscribedInv, InboxInv, ReaderInv, CurrentTopicsAreMapped

(* The On Message thread finds a handler for what is not old.                  *)
LEMMA MatchKeeps == RouteInv /\ MqMatch => RouteInv'
  <1> SUFFICES ASSUME RouteInv, MqMatch PROVE RouteInv'
    OBVIOUS
  <1> DEFINE m == Head(mqInbox)
  <1>0. mqInbox \in Seq(MqMessages) /\ mqInbox # <<>>
    BY DEF RouteInv, RouteType, MqMatch
  <1>1. m \in MqMessages /\ m = mqInbox[1] /\ 1 \in DOMAIN mqInbox
    BY <1>0
  <1>2. mqInbox' = Tail(mqInbox)
    BY DEF MqMatch
  <1>3. /\ mqInbox' \in Seq(MqMessages)
        /\ \A i \in DOMAIN mqInbox' : i + 1 \in DOMAIN mqInbox /\ mqInbox'[i] = mqInbox[i + 1]
    BY <1>0, <1>2
  <1>4. UNCHANGED <<mqNet, mqTodo, mqMapped, mqSubs>>
    BY DEF MqMatch, MqRouterOnly, mqRouting
  <1>5. InboxInv' /\ SubscribedInv'
    BY <1>3, <1>4 DEF RouteInv, InboxInv, SubscribedInv
  <1>6. m.old \/ (mqNet # "setup" /\ m.topic \in mqMapped \cup MqRequests)
    BY <1>1 DEF RouteInv, InboxInv
  <1>7. /\ mqMissed' = FALSE
        /\ \/ mqReader' = mqReader \/ mqReader' = [at |-> "error", message |-> m]
           \/ mqReader' = [at |-> "dead", message |-> m] /\ m.old
           \/ mqReader' = [at |-> "matched", message |-> m] /\ MqMatches(m)
    BY <1>6 DEF MqMatch, MqMatches, RouteInv, RouteType, CurrentTopicsAreMapped
  <1>8. /\ mqReader' \in [at : {"idle", "matched", "dead", "error"}, message : MqMessages]
        /\ ReaderInv' /\ CurrentTopicsAreMapped'
    BY <1>1, <1>4, <1>7 DEF RouteInv, RouteType, ReaderInv, MqMatches, CurrentTopicsAreMapped
  <1> QED BY <1>3, <1>4, <1>5, <1>7, <1>8 DEF RouteInv, RouteType

(* What was matched on this connection is still mapped when it is routed.      *)
LEMMA RouteKeeps == RouteInv /\ MqRoute => RouteInv'
  <1> SUFFICES ASSUME RouteInv, MqRoute PROVE RouteInv'
    OBVIOUS
  <1>1. UNCHANGED <<mqNet, mqTodo, mqMapped, mqSubs, mqInbox>>
    BY DEF MqRoute, MqRouterOnly, mqRouting
  <1>2. mqReader.message \in MqMessages /\ mqReader.at = "matched"
    BY DEF MqRoute, RouteInv, RouteType
  <1>3. /\ mqMissed' = FALSE
        /\ \/ mqReader' = MqNoReader
           \/ mqReader' = [at |-> "dead", message |-> mqReader.message] /\ mqReader.message.old
    BY DEF MqRoute, RouteInv, RouteType, ReaderInv, CurrentTopicsAreMapped
  <1>4. MqNoMessage \in MqMessages
    BY <1>2, MqttAssumption DEF MqNoMessage, MqMessages
  <1>5. /\ mqReader' \in [at : {"idle", "matched", "dead", "error"}, message : MqMessages]
        /\ mqReader'.at # "matched" /\ CurrentTopicsAreMapped'
    BY <1>2, <1>3, <1>4 DEF MqNoReader, CurrentTopicsAreMapped
  <1> QED BY <1>1, <1>3, <1>5
          DEF RouteInv, RouteType, SubscribedInv, InboxInv, ReaderInv, CurrentTopicsAreMapped

(* Every step of the connector's threads and callers keeps the invariant.      *)
LEMMA RouteStep == RouteInv /\ [MqttNext]_mqVars => RouteInv'
  <1> SUFFICES ASSUME RouteInv, [MqttNext]_mqVars PROVE RouteInv'
    OBVIOUS
  <1>1. CASE MqOpen \/ MqReconnect \/ MqConnectDone \/ MqManageThreads \/ MqDisconnected
             \/ MqClose \/ MqMainEnds \/ MqEnd
    BY <1>1, NotRouting DEF MqOpen, MqReconnect, MqConnectDone, MqManageThreads, MqDisconnected,
       MqClose, MqMainEnds, MqEnd, mqRouting
  <1>2. ASSUME NEW w \in MqWorkers, MqTakeBatch(w) \/ MqWorker(w) PROVE RouteInv'
    BY <1>2, NotRouting DEF MqTakeBatch, MqWorker, MqConvertItem, MqBatchFails, MqWorkerEnds,
       MqWorkerOnly, mqRouting
  <1>3. ASSUME NEW q \in MqCalls, MqRequest(q) \/ MqPublished(q) PROVE RouteInv'
    BY <1>3, NotRouting DEF MqRequest, MqUnhandled, MqOneWay, MqTwoWay, MqAttributeUpdate,
       MqPublished, MqCallOnly, mqRouting
  <1>4. CASE UNCHANGED mqVars
    BY <1>4, NotRouting DEF mqVars, mqRouting
  <1> QED
    BY <1>1, <1>2, <1>3, <1>4, ConnectKeeps, SetupKeeps, MessageKeeps, MatchKeeps, RouteKeeps
    DEF MqttNext

(* However often the connection is lost while messages wait, no message of     *)
(* the current connection is passed over because its filter is not mapped, and *)
(* the rebuilding of the mapping ends the On Message thread only over a message *)
(* of a former connection (mqtt_connector.py, _on_connect and                  *)
(* _process_on_message).  A filter whose pattern leaves its topics out, an      *)
(* invalid pattern, and what waits for a thread that has ended are not covered. *)
THEOREM CurrentMessagesFindTheirTopic == MqttSpec => []CurrentTopicsAreMapped
  <1>1. RouteInv => CurrentTopicsAreMapped
    BY DEF RouteInv
  <1> QED BY <1>1, RouteInit, RouteStep, PTL DEF MqttSpec

-----------------------------------------------------------------------------
(* The MQTT connector as the gateway sees it; its calls, which may wait for    *)
(* good, are left out.                                                         *)
MqGateway == INSTANCE ConnectorContract
    WITH Readings <- MqReadings, Calls <- {}, life <- mqLife, fate <- mqFate,
         call <- [q \in {} |-> "none"]

MqGatewaySafety == MqGateway!ContractInit /\ [][MqGateway!ContractNext]_(MqGateway!contractVars)

MqWorkType == [on : BOOLEAN, stopped : BOOLEAN, batch : Seq(MqReadings)]

MqPipeTypes ==
    /\ mqFate \in [MqReadings -> FateType] /\ RouteType
    /\ mqQueue \in Seq(MqReadings) /\ mqWork \in [MqWorkers -> MqWorkType]

(* What arrived, in its order; what is matched; what each worker has taken; and *)
(* what the connector holds.                                                   *)
MqArrived == [i \in DOMAIN mqInbox |-> mqInbox[i].reading]
MqInHand == IF mqReader.at = "matched" THEN {mqReader.message.reading} ELSE {}
MqTaken == [w \in MqWorkers |-> mqWork[w].batch]
MqHeld == {r \in MqReadings : mqFate[r] = "held"}

(* A reading that arrived (a), is matched (h), queued (q) or in a worker's     *)
(* batch (b) is held (H), and is at one place of one of them only.             *)
MqPlaced(a, h, q, b, H) ==
    /\ Range(a) \subseteq H /\ h \subseteq H /\ Range(q) \subseteq H
    /\ \A w \in MqWorkers : Range(b[w]) \subseteq H /\ Once(b[w])
    /\ Once(a) /\ Once(q)
    /\ Range(a) \cap h = {} /\ Range(a) \cap Range(q) = {} /\ h \cap Range(q) = {}
    /\ \A w \in MqWorkers : /\ Range(b[w]) \cap Range(a) = {} /\ Range(b[w]) \cap h = {}
                            /\ Range(b[w]) \cap Range(q) = {}
    /\ \A v, w \in MqWorkers : v # w => Range(b[v]) \cap Range(b[w]) = {}

MqPipeInv == MqPipeTypes /\ MqPlaced(MqArrived, MqInHand, mqQueue, MqTaken, MqHeld)

(* Only workers that are on have a batch, and they and the routing of a        *)
(* message in hand end before the connector is closed.                         *)
MqLifeInv ==
    /\ mqReader.at = "matched" => mqLife \in {"running", "stopping"}
    /\ \A w \in MqWorkers : /\ mqWork[w].batch # <<>> => mqWork[w].on
                            /\ mqWork[w].on => mqLife \in {"running", "stopping"}

MqInv == RouteInv /\ MqPipeInv /\ MqLifeInv

(* What arrived, in its order.                                                 *)
LEMMA MqArrivals ==
  ASSUME NEW inbox \in Seq(MqMessages)
  PROVE  LET arrived == [i \in DOMAIN inbox |-> inbox[i].reading] IN
         /\ arrived \in Seq(MqReadings)
         /\ inbox # <<>> => /\ arrived # <<>> /\ Head(inbox).reading = Head(arrived)
                            /\ Tail(arrived) = [i \in DOMAIN Tail(inbox) |-> Tail(inbox)[i].reading]
         /\ \A m \in MqMessages :
              Append(arrived, m.reading) =
                [i \in DOMAIN Append(inbox, m) |-> Append(inbox, m)[i].reading]
  <1> DEFINE arrived == [i \in DOMAIN inbox |-> inbox[i].reading]
  <1>1. DOMAIN inbox = 1..Len(inbox) /\ Len(inbox) \in Nat
    OBVIOUS
  <1>2. \A i \in 1..Len(inbox) : inbox[i] \in MqMessages /\ inbox[i].reading \in MqReadings
    <2>1. \A i \in 1..Len(inbox) : inbox[i] \in MqMessages OBVIOUS
    <2> QED BY <2>1 DEF MqMessages
  <1>3. arrived \in Seq(MqReadings) /\ Len(arrived) = Len(inbox) /\ DOMAIN arrived = 1..Len(inbox)
    BY <1>1, <1>2
  <1>4. ASSUME inbox # <<>>
        PROVE  /\ arrived # <<>> /\ Head(inbox).reading = Head(arrived)
               /\ Tail(arrived) = [i \in DOMAIN Tail(inbox) |-> Tail(inbox)[i].reading]
    <2>1. 1 \in 1..Len(inbox) /\ Head(inbox) = inbox[1] /\ arrived # <<>>
      BY <1>1, <1>3, <1>4
    <2>2. /\ DOMAIN Tail(inbox) = 1..(Len(inbox) - 1)
          /\ \A i \in 1..(Len(inbox) - 1) : Tail(inbox)[i] = inbox[i + 1] /\ i + 1 \in 1..Len(inbox)
      BY <1>1, <1>4
    <2>3. Head(arrived) = arrived[1] /\ Tail(arrived) = [i \in 1..(Len(inbox) - 1) |-> arrived[i + 1]]
      BY <1>3, <2>1
    <2>4. \A i \in 1..(Len(inbox) - 1) : arrived[i + 1] = Tail(inbox)[i].reading
      BY <1>1, <2>2
    <2> QED BY <1>1, <2>1, <2>2, <2>3, <2>4
  <1>5. ASSUME NEW m \in MqMessages
        PROVE  Append(arrived, m.reading) =
                 [i \in DOMAIN Append(inbox, m) |-> Append(inbox, m)[i].reading]
    <2>1. /\ DOMAIN Append(inbox, m) = 1..(Len(inbox) + 1)
          /\ \A i \in 1..(Len(inbox) + 1) : Append(inbox, m)[i] = IF i = Len(inbox) + 1 THEN m ELSE inbox[i]
      BY <1>1
    <2>2. Append(arrived, m.reading) =
            [i \in 1..(Len(inbox) + 1) |-> IF i = Len(inbox) + 1 THEN m.reading ELSE arrived[i]]
      BY <1>3
    <2>3. \A i \in 1..(Len(inbox) + 1) : i # Len(inbox) + 1 => i \in DOMAIN inbox
      BY <1>1
    <2>4. \A i \in 1..(Len(inbox) + 1) :
            (IF i = Len(inbox) + 1 THEN m.reading ELSE arrived[i]) = Append(inbox, m)[i].reading
      BY <2>1, <2>3
    <2> QED BY <2>1, <2>2, <2>4
  <1> HIDE DEF arrived
  <1>6. arrived = [i \in DOMAIN inbox |-> inbox[i].reading] BY DEF arrived
  <1> QED BY <1>3, <1>4, <1>5, <1>6

(* A message that arrives, ...                                                 *)
LEMMA MqPlacedArrival ==
  ASSUME NEW a \in Seq(MqReadings), NEW h, NEW q, NEW b, NEW H, MqPlaced(a, h, q, b, H),
         NEW r \in MqReadings, r \notin H
  PROVE  MqPlaced(Append(a, r), h, q, b, H \cup {r})
  <1>1. r \notin Range(a) BY DEF MqPlaced
  <1>2. Once(Append(a, r)) /\ Range(Append(a, r)) = Range(a) \cup {r}
    BY <1>1, OnceAppend DEF MqPlaced
  <1> QED BY <1>2 DEF MqPlaced

(* ... the matching of the first that did, which takes it in hand or lets it   *)
(* go, ...                                                                     *)
LEMMA MqPlacedMatch ==
  ASSUME NEW a \in Seq(MqReadings), NEW q, NEW b, NEW H, MqPlaced(a, {}, q, b, H), a # <<>>
  PROVE  /\ Head(a) \in MqReadings \cap H
         /\ MqPlaced(Tail(a), {Head(a)}, q, b, H) /\ MqPlaced(Tail(a), {}, q, b, H \ {Head(a)})
  <1>1. /\ Once(Tail(a)) /\ Head(a) \in MqReadings /\ Head(a) \in Range(a)
        /\ Range(Tail(a)) = Range(a) \ {Head(a)}
    BY OnceTail DEF MqPlaced
  <1> QED BY <1>1 DEF MqPlaced

(* ... the routing of what is in hand, ...                                     *)
LEMMA MqPlacedRoute ==
  ASSUME NEW a, NEW q \in Seq(MqReadings), NEW b, NEW H, NEW r \in MqReadings,
         MqPlaced(a, {r}, q, b, H)
  PROVE  /\ r \in H /\ MqPlaced(a, {}, Append(q, r), b, H) /\ MqPlaced(a, {}, q, b, H \ {r})
  <1>1. r \notin Range(q) BY DEF MqPlaced
  <1>2. Once(Append(q, r)) /\ Range(Append(q, r)) = Range(q) \cup {r}
    BY <1>1, OnceAppend DEF MqPlaced
  <1> QED BY <1>2 DEF MqPlaced

(* ... a batch that is taken from the queue, ...                               *)
LEMMA MqPlacedTake ==
  ASSUME NEW a, NEW h, NEW q \in Seq(MqReadings), NEW b \in [MqWorkers -> Seq(MqReadings)],
         NEW H, MqPlaced(a, h, q, b, H), NEW w \in MqWorkers, NEW n \in 1..Len(q)
  PROVE  MqPlaced(a, h, SubSeq(q, n + 1, Len(q)), [b EXCEPT ![w] = SubSeq(q, 1, n)], H)
  <1> DEFINE t == SubSeq(q, 1, n)
             u == SubSeq(q, n + 1, Len(q))
             c == [b EXCEPT ![w] = t]
  <1>1. /\ Once(t) /\ Once(u) /\ Range(t) \subseteq Range(q) /\ Range(u) \subseteq Range(q)
        /\ Range(t) \cap Range(u) = {}
    BY OnceSplit DEF MqPlaced
  <1> HIDE DEF t, u
  <1>2. c[w] = t /\ \A v \in MqWorkers : v # w => c[v] = b[v] OBVIOUS
  <1> HIDE DEF c
  <1>3. MqPlaced(a, h, u, c, H) BY <1>1, <1>2 DEF MqPlaced
  <1> QED BY <1>3 DEF t, u, c

(* ... and what a worker has done with of its batch.                           *)
LEMMA MqPlacedDone ==
  ASSUME NEW a, NEW h, NEW q, NEW b \in [MqWorkers -> Seq(MqReadings)],
         NEW H, MqPlaced(a, h, q, b, H), NEW w \in MqWorkers,
         NEW rest \in Seq(MqReadings), Once(rest), NEW done,
         done \subseteq Range(b[w]), Range(rest) = Range(b[w]) \ done
  PROVE  MqPlaced(a, h, q, [b EXCEPT ![w] = rest], H \ done)
  <1> DEFINE c == [b EXCEPT ![w] = rest]
  <1>1. c[w] = rest /\ \A v \in MqWorkers : v # w => c[v] = b[v] OBVIOUS
  <1> HIDE DEF c
  <1>2. MqPlaced(a, h, q, c, H \ done) BY <1>1 DEF MqPlaced
  <1> QED BY <1>2 DEF c

(* What is still queued is dropped when the connector is closed.               *)
LEMMA MqPlacedDropped ==
  ASSUME NEW a, NEW h, NEW q, NEW b, NEW H, MqPlaced(a, h, q, b, H)
  PROVE  MqPlaced(<<>>, h, <<>>, b, H)
  <1>1. Range(<<>>) = {} /\ Once(<<>>) BY DEF Range, Once
  <1> QED BY <1>1 DEF MqPlaced

(* The parts, from what the queues and the threads hold.                       *)
LEMMA MqParts ==
  ASSUME MqPipeTypes
  PROVE  /\ MqArrived \in Seq(MqReadings) /\ MqTaken \in [MqWorkers -> Seq(MqReadings)]
         /\ mqWork \in [MqWorkers -> MqWorkType] /\ mqFate \in [MqReadings -> FateType]
         /\ \A w \in MqWorkers : MqTaken[w] = mqWork[w].batch
         /\ mqReader.at = "matched" => MqInHand = {mqReader.message.reading}
         /\ mqReader.at # "matched" => MqInHand = {}
         /\ mqReader.message \in MqMessages /\ mqReader.message.reading \in MqReadings
  <1>1. mqInbox \in Seq(MqMessages) /\ mqReader.message \in MqMessages
    BY DEF MqPipeTypes, RouteType
  <1>2. MqArrived \in Seq(MqReadings)
    BY <1>1, MqArrivals DEF MqArrived
  <1>3. mqWork \in [MqWorkers -> MqWorkType] /\ mqFate \in [MqReadings -> FateType]
    BY DEF MqPipeTypes
  <1>4. \A w \in MqWorkers : mqWork[w].batch \in Seq(MqReadings)
    BY <1>3 DEF MqWorkType
  <1>5. MqTaken \in [MqWorkers -> Seq(MqReadings)] /\ \A w \in MqWorkers : MqTaken[w] = mqWork[w].batch
    BY <1>4 DEF MqTaken
  <1> QED BY <1>1, <1>2, <1>3, <1>5 DEF MqInHand, MqMessages

(* No message arrived yet.                                                     *)
LEMMA MqInvInit == MqttInit => MqInv
  <1> SUFFICES ASSUME MqttInit PROVE MqInv
    OBVIOUS
  <1>1. RouteInv BY RouteInit
  <1>2. MqFree \in MqWorkType /\ MqFree.batch = <<>> /\ ~MqFree.on
    BY DEF MqFree, MqWorkType
  <1>3. MqPipeTypes
    BY <1>1, <1>2 DEF MqttInit, MqPipeTypes, RouteInv, FateType
  <1>4. \A w \in MqWorkers : MqTaken[w] = <<>>
    BY <1>2 DEF MqttInit, MqTaken
  <1>5. MqArrived = <<>> /\ MqInHand = {} /\ mqQueue = <<>>
    BY DEF MqttInit, MqArrived, MqInHand, MqNoReader
  <1>6. Range(<<>>) = {} /\ Once(<<>>) BY DEF Range, Once
  <1>7. MqPlaced(MqArrived, MqInHand, mqQueue, MqTaken, MqHeld)
    BY <1>4, <1>5, <1>6 DEF MqPlaced
  <1>8. MqLifeInv BY <1>2 DEF MqttInit, MqLifeInv, MqNoReader
  <1> QED BY <1>1, <1>3, <1>7, <1>8 DEF MqInv, MqPipeInv

(* Messages whose places stay are only read again.                             *)
LEMMA MqStays ==
  ASSUME MqPipeInv, RouteType', UNCHANGED <<mqFate, mqQueue, MqArrived, MqInHand, MqTaken>>,
         mqWork' \in [MqWorkers -> MqWorkType]
  PROVE  MqPipeInv'
  <1>1. MqPipeTypes' BY DEF MqPipeInv, MqPipeTypes
  <1>2. MqHeld' = MqHeld BY DEF MqHeld
  <1> QED BY <1>1, <1>2 DEF MqPipeInv

(* Readings that are let go of are settled, as the contract has it.            *)
LEMMA MqSettles ==
  ASSUME mqFate \in [MqReadings -> FateType], mqLife \in {"running", "stopping"},
         UNCHANGED mqLife, NEW done \in SUBSET MqHeld, done # {}, NEW f \in {"stored", "lost"},
         mqFate' = [r \in MqReadings |-> IF r \in done THEN f ELSE mqFate[r]]
  PROVE  /\ mqFate' \in [MqReadings -> FateType] /\ MqHeld' = MqHeld \ done
         /\ [MqGateway!ContractNext]_(MqGateway!contractVars)
  <1>1. mqFate' \in [MqReadings -> FateType]
    BY DEF FateType
  <1>2. \A r \in MqReadings : mqFate'[r] = IF r \in done THEN f ELSE mqFate[r]
    OBVIOUS
  <1>3. MqHeld' = MqHeld \ done
    BY <1>2 DEF MqHeld
  <1>4. mqFate' # mqFate
    BY <1>2 DEF MqHeld
  <1>5. \A r \in MqReadings :
          mqFate'[r] = mqFate[r] \/ (mqFate[r] = "held" /\ mqFate'[r] \in {"stored", "lost"})
    BY <1>2 DEF MqHeld
  <1>6. MqGateway!Settle
    BY <1>1, <1>4, <1>5 DEF MqGateway!Settle, MqGateway!Alive, FateType
  <1> QED BY <1>1, <1>3, <1>6 DEF MqGateway!ContractNext

(* One of them alone.                                                          *)
LEMMA MqSettlesOne ==
  ASSUME mqFate \in [MqReadings -> FateType], mqLife \in {"running", "stopping"},
         UNCHANGED mqLife, NEW r \in MqHeld, NEW f \in {"stored", "lost"}, MqFinish(r, f)
  PROVE  /\ mqFate' \in [MqReadings -> FateType] /\ MqHeld' = MqHeld \ {r}
         /\ [MqGateway!ContractNext]_(MqGateway!contractVars)
  <1>1. mqFate' = [s \in MqReadings |-> IF s \in {r} THEN f ELSE mqFate[s]]
    BY DEF MqFinish
  <1> QED BY <1>1, MqSettles

(* The connector's thread and the network thread move no message.              *)
LEMMA MqLifeStep ==
  ASSUME MqInv, RouteInv',
         \/ MqOpen \/ MqReconnect \/ MqConnectDone \/ MqManageThreads \/ MqSetupTopic
         \/ MqSetupEnds \/ MqDisconnected \/ MqClose \/ MqMainEnds
  PROVE  MqInv' /\ [MqGateway!ContractNext]_(MqGateway!contractVars)
  <1>0. MqPipeInv /\ MqLifeInv /\ MqPipeTypes /\ RouteType'
    BY DEF MqInv, MqPipeInv, RouteInv
  <1>1. UNCHANGED <<mqInbox, mqReader, mqQueue, mqFate>>
    BY DEF MqOpen, MqReconnect, MqConnectDone, MqManageThreads, MqSetupTopic, MqSetupEnds,
           MqDisconnected, MqClose, MqMainEnds
  <1>2. /\ mqWork' \in [MqWorkers -> MqWorkType]
        /\ \A w \in MqWorkers : /\ mqWork'[w].batch = mqWork[w].batch
                                /\ mqWork[w].on => mqWork'[w].on
                                /\ mqWork'[w].on => mqWork[w].on \/ mqLife' = "running"
    <2>1. CASE MqManageThreads
      <3>1. mqWork \in [MqWorkers -> MqWorkType] /\ mqLife' = "running"
        BY <1>0, <2>1 DEF MqManageThreads, MqPipeTypes
      <3>2. \A w \in MqWorkers : mqWork[w] \in MqWorkType BY <3>1
      <3>3. \/ \E new : mqWork' = [w \in MqWorkers |-> [mqWork[w] EXCEPT !.on = @ \/ w \in new]]
            \/ \E w \in MqWorkers : mqWork' = [mqWork EXCEPT ![w].stopped = TRUE]
        BY <2>1, Zenon DEF MqManageThreads, MqRunning
      <3>4. CASE \E new : mqWork' = [w \in MqWorkers |-> [mqWork[w] EXCEPT !.on = @ \/ w \in new]]
        <4>1. PICK new : mqWork' = [w \in MqWorkers |-> [mqWork[w] EXCEPT !.on = @ \/ w \in new]]
          BY <3>4
        <4> DEFINE now(w) == mqWork[w].on \/ w \in new
        <4>2. mqWork' = [w \in MqWorkers |-> [mqWork[w] EXCEPT !.on = now(w)]]
          BY <4>1
        <4>3. \A w \in MqWorkers : now(w) \in BOOLEAN /\ (mqWork[w].on => now(w))
          OBVIOUS
        <4> HIDE DEF now
        <4> QED BY <3>1, <3>2, <4>2, <4>3 DEF MqWorkType
      <3>5. CASE \E w \in MqWorkers : mqWork' = [mqWork EXCEPT ![w].stopped = TRUE]
        <4>1. PICK w \in MqWorkers : mqWork' = [mqWork EXCEPT ![w].stopped = TRUE]
          BY <3>5
        <4> DEFINE d == [mqWork[w] EXCEPT !.stopped = TRUE]
        <4>2. d \in MqWorkType /\ d.on = mqWork[w].on /\ d.batch = mqWork[w].batch
          BY <3>2 DEF MqWorkType
        <4>3. mqWork' = [mqWork EXCEPT ![w] = d]
          BY <4>1
        <4> HIDE DEF d
        <4> QED BY <3>1, <4>2, <4>3
      <3> QED BY <3>3, <3>4, <3>5
    <2>2. CASE MqClose
      BY <1>0, <2>2 DEF MqClose, MqPipeTypes, MqWorkType
    <2>3. CASE UNCHANGED mqWork
      BY <1>0, <2>3 DEF MqPipeTypes
    <2> QED BY <2>1, <2>2, <2>3 DEF MqOpen, MqReconnect, MqConnectDone, MqSetupTopic, MqSetupEnds,
           MqDisconnected, MqMainEnds
  <1>3. MqPipeInv'
    <2>1. UNCHANGED <<MqArrived, MqInHand>> BY <1>1 DEF MqArrived, MqInHand
    <2>2. UNCHANGED MqTaken BY <1>2 DEF MqTaken
    <2> QED BY <1>0, <1>1, <1>2, <2>1, <2>2, MqStays
  <1>4. \/ UNCHANGED mqLife
        \/ mqLife = "new" /\ mqLife' = "running"
        \/ mqLife = "running" /\ mqLife' = "stopping"
    BY DEF MqOpen, MqReconnect, MqConnectDone, MqManageThreads, MqSetupTopic, MqSetupEnds,
           MqDisconnected, MqClose, MqMainEnds
  <1>5. MqLifeInv'
    BY <1>0, <1>1, <1>2, <1>4 DEF MqLifeInv
  <1>6. [MqGateway!ContractNext]_(MqGateway!contractVars)
    BY <1>1, <1>4 DEF MqGateway!ContractNext, MqGateway!contractVars, MqGateway!Open, MqGateway!Close
  <1> QED BY <1>3, <1>5, <1>6 DEF MqInv

(* A connection marks what is queued and in hand as old.                       *)
LEMMA MqConnectStep ==
  ASSUME MqInv, RouteInv', MqOnConnect
  PROVE  MqInv' /\ [MqGateway!ContractNext]_(MqGateway!contractVars)
  <1>0. MqPipeInv /\ MqLifeInv /\ MqPipeTypes /\ RouteType /\ RouteType'
    BY DEF MqInv, MqPipeInv, RouteInv
  <1>1. /\ mqInbox' = [i \in DOMAIN mqInbox |-> [mqInbox[i] EXCEPT !.old = TRUE]]
        /\ mqReader' = [mqReader EXCEPT !.message.old = @ \/ mqReader.at = "matched"]
        /\ UNCHANGED <<mqLife, mqQueue, mqWork, mqFate>>
    BY DEF MqOnConnect
  <1>2. UNCHANGED MqArrived
    <2>1. \A i \in DOMAIN mqInbox : mqInbox[i] \in MqMessages
      BY <1>0 DEF RouteType
    <2>2. DOMAIN mqInbox' = DOMAIN mqInbox /\ \A i \in DOMAIN mqInbox : mqInbox'[i].reading = mqInbox[i].reading
      BY <1>1, <2>1 DEF MqMessages
    <2> QED BY <2>2 DEF MqArrived
  <1>3. mqReader'.at = mqReader.at /\ mqReader'.message.reading = mqReader.message.reading
    <2>1. mqReader \in [at : {"idle", "matched", "dead", "error"}, message : MqMessages]
      BY <1>0 DEF RouteType
    <2>2. mqReader.message \in MqMessages BY <2>1
    <2> QED BY <1>1, <2>1, <2>2 DEF MqMessages
  <1>4. UNCHANGED <<MqInHand, MqTaken>>
    BY <1>1, <1>3 DEF MqInHand, MqTaken
  <1>5. MqPipeInv'
    BY <1>0, <1>1, <1>2, <1>4, MqStays DEF MqPipeTypes
  <1> QED BY <1>0, <1>1, <1>3, <1>5 DEF MqInv, MqLifeInv, MqGateway!contractVars

(* A message that arrives is taken over.                                       *)
LEMMA MqMessageStep ==
  ASSUME MqInv, RouteInv', MqOnMessage
  PROVE  MqInv' /\ [MqGateway!ContractNext]_(MqGateway!contractVars)
  <1>0. /\ MqPipeInv /\ MqLifeInv /\ MqPipeTypes /\ RouteType /\ RouteType'
        /\ MqPlaced(MqArrived, MqInHand, mqQueue, MqTaken, MqHeld)
    BY DEF MqInv, MqPipeInv, RouteInv
  <1>1. PICK r \in MqUnread : MqFinish(r, "held")
          /\ \E t \in mqSubs, odd \in BOOLEAN :
               mqInbox' = Append(mqInbox, [topic |-> t, reading |-> r, old |-> FALSE, odd |-> odd])
    BY DEF MqOnMessage, MqOdd
  <1>2. r \in MqReadings /\ mqFate[r] = "unread" /\ r \notin MqHeld
    BY <1>1 DEF MqUnread, MqHeld
  <1>3. mqFate \in [MqReadings -> FateType] /\ mqInbox \in Seq(MqMessages)
    BY <1>0 DEF MqPipeTypes, RouteType
  <1>4. mqFate' = [mqFate EXCEPT ![r] = "held"]
    BY <1>1 DEF MqFinish
  <1>5. MqArrived' = Append(MqArrived, r)
    <2>1. PICK t \in mqSubs, odd \in BOOLEAN :
            mqInbox' = Append(mqInbox, [topic |-> t, reading |-> r, old |-> FALSE, odd |-> odd])
      BY <1>1
    <2> DEFINE m == [topic |-> t, reading |-> r, old |-> FALSE, odd |-> odd]
    <2>2. m \in MqMessages /\ m.reading = r
      BY <1>0, <1>2, <2>1 DEF MqMessages, RouteType
    <2>3. mqInbox' = Append(mqInbox, m) BY <2>1
    <2> HIDE DEF m
    <2> QED BY <1>3, <2>2, <2>3, MqArrivals DEF MqArrived
  <1>6. MqHeld' = MqHeld \cup {r} /\ mqFate' \in [MqReadings -> FateType]
    BY <1>2, <1>3, <1>4 DEF MqHeld, FateType
  <1>7. UNCHANGED <<mqLife, mqReader, mqQueue, mqWork, MqInHand, MqTaken>>
    BY DEF MqOnMessage, MqInHand, MqTaken
  <1>8. MqPlaced(Append(MqArrived, r), MqInHand, mqQueue, MqTaken, MqHeld \cup {r})
    BY <1>0, <1>2, MqParts, MqPlacedArrival
  <1>9. MqPipeInv'
    BY <1>0, <1>5, <1>6, <1>7, <1>8 DEF MqPipeInv, MqPipeTypes
  <1>10. MqGateway!Take(r)
    BY <1>2, <1>4, <1>7 DEF MqOnMessage, MqGateway!Take, MqGateway!Alive
  <1>11. MqLifeInv' BY <1>0, <1>7 DEF MqLifeInv
  <1> QED BY <1>2, <1>9, <1>10, <1>11 DEF MqInv, MqGateway!ContractNext

(* The first of the queue is taken in hand, or is lost.                        *)
LEMMA MqMatchStep ==
  ASSUME MqInv, RouteInv', MqMatch
  PROVE  MqInv' /\ [MqGateway!ContractNext]_(MqGateway!contractVars)
  <1> DEFINE m == Head(mqInbox)
  <1>0. /\ MqPipeInv /\ MqLifeInv /\ MqPipeTypes /\ RouteType /\ RouteType'
        /\ MqPlaced(MqArrived, MqInHand, mqQueue, MqTaken, MqHeld)
    BY DEF MqInv, MqPipeInv, RouteInv
  <1>1. /\ mqLife = "running" /\ mqReader.at = "idle" /\ mqInbox # <<>> /\ mqInbox' = Tail(mqInbox)
        /\ UNCHANGED <<mqLife, mqQueue, mqWork>>
        /\ \/ mqReader' = [at |-> "matched", message |-> m] /\ UNCHANGED mqFate
           \/ mqReader'.at # "matched" /\ MqFinish(m.reading, "lost")
    BY DEF MqMatch, MqRouterOnly
  <1>2. mqInbox \in Seq(MqMessages) /\ mqFate \in [MqReadings -> FateType]
    BY <1>0 DEF RouteType, MqPipeTypes
  <1>3. /\ MqArrived # <<>> /\ m.reading = Head(MqArrived) /\ MqArrived' = Tail(MqArrived)
    BY <1>1, <1>2, MqArrivals DEF MqArrived
  <1>4. MqInHand = {} BY <1>1 DEF MqInHand
  <1>5. /\ m.reading \in MqHeld
        /\ MqPlaced(MqArrived', {m.reading}, mqQueue, MqTaken, MqHeld)
        /\ MqPlaced(MqArrived', {}, mqQueue, MqTaken, MqHeld \ {m.reading})
    BY <1>0, <1>3, <1>4, MqParts, MqPlacedMatch
  <1>6. UNCHANGED MqTaken BY <1>1 DEF MqTaken
  <1> HIDE DEF m
  <1>7. CASE mqReader' = [at |-> "matched", message |-> m] /\ UNCHANGED mqFate
    <2>1. MqInHand' = {m.reading} /\ MqHeld' = MqHeld
      BY <1>7 DEF MqInHand, MqHeld
    <2>2. MqPipeInv'
      BY <1>0, <1>1, <1>5, <1>6, <1>7, <2>1 DEF MqPipeInv, MqPipeTypes
    <2>3. MqLifeInv' BY <1>0, <1>1, <1>7 DEF MqLifeInv
    <2> QED BY <1>1, <1>7, <2>2, <2>3 DEF MqInv, MqGateway!contractVars
  <1>8. CASE mqReader'.at # "matched" /\ MqFinish(m.reading, "lost")
    <2>1. mqReader'.at # "matched" /\ MqInHand' = {}
      BY <1>1, <1>8 DEF MqInHand
    <2>2. /\ mqFate' \in [MqReadings -> FateType] /\ MqHeld' = MqHeld \ {m.reading}
          /\ [MqGateway!ContractNext]_(MqGateway!contractVars)
      BY <1>1, <1>2, <1>5, <1>8, MqSettlesOne
    <2>3. MqPipeInv'
      BY <1>0, <1>1, <1>5, <1>6, <2>1, <2>2 DEF MqPipeInv, MqPipeTypes
    <2>4. MqLifeInv' BY <1>0, <1>1, <2>1 DEF MqLifeInv
    <2> QED BY <2>2, <2>3, <2>4 DEF MqInv
  <1> QED BY <1>1, <1>7, <1>8

(* What was in hand is queued for the workers, or is lost.                     *)
LEMMA MqRouteStep ==
  ASSUME MqInv, RouteInv', MqRoute
  PROVE  MqInv' /\ [MqGateway!ContractNext]_(MqGateway!contractVars)
  <1> DEFINE r == mqReader.message.reading
  <1>0. /\ MqPipeInv /\ MqLifeInv /\ MqPipeTypes /\ RouteType /\ RouteType'
        /\ MqPlaced(MqArrived, MqInHand, mqQueue, MqTaken, MqHeld)
    BY DEF MqInv, MqPipeInv, RouteInv
  <1>1. /\ mqReader.at = "matched" /\ UNCHANGED <<mqLife, mqWork, mqInbox>>
        /\ mqReader' = MqNoReader \/ mqReader' = [at |-> "dead", message |-> mqReader.message]
        /\ \/ mqQueue' = Append(mqQueue, r) /\ UNCHANGED mqFate
           \/ UNCHANGED mqQueue /\ MqFinish(r, "lost")
    BY DEF MqRoute, MqRouterOnly
  <1>2. mqReader'.at # "matched" /\ MqInHand' = {}
    BY <1>1 DEF MqInHand, MqNoReader
  <1>3. UNCHANGED <<MqArrived, MqTaken>> BY <1>1 DEF MqArrived, MqTaken
  <1>4. /\ r \in MqReadings /\ MqInHand = {r} /\ mqFate \in [MqReadings -> FateType]
        /\ mqQueue \in Seq(MqReadings)
    BY <1>0, <1>1, MqParts DEF MqPipeTypes
  <1> HIDE DEF r
  <1>5. /\ r \in MqHeld /\ MqPlaced(MqArrived, {}, Append(mqQueue, r), MqTaken, MqHeld)
        /\ MqPlaced(MqArrived, {}, mqQueue, MqTaken, MqHeld \ {r})
    BY <1>0, <1>4, MqPlacedRoute
  <1>6. mqLife \in {"running", "stopping"} /\ MqLifeInv'
    BY <1>0, <1>1, <1>2 DEF MqLifeInv
  <1>7. CASE mqQueue' = Append(mqQueue, r) /\ UNCHANGED mqFate
    <2>1. MqHeld' = MqHeld /\ mqQueue' \in Seq(MqReadings)
      BY <1>4, <1>7 DEF MqHeld
    <2>2. MqPipeInv'
      BY <1>0, <1>1, <1>2, <1>3, <1>5, <1>7, <2>1 DEF MqPipeInv, MqPipeTypes
    <2> QED BY <1>1, <1>6, <1>7, <2>2 DEF MqInv, MqGateway!contractVars
  <1>8. CASE UNCHANGED mqQueue /\ MqFinish(r, "lost")
    <2>1. /\ mqFate' \in [MqReadings -> FateType] /\ MqHeld' = MqHeld \ {r}
          /\ [MqGateway!ContractNext]_(MqGateway!contractVars)
      BY <1>1, <1>4, <1>5, <1>6, <1>8, MqSettlesOne
    <2>2. MqPipeInv'
      BY <1>0, <1>1, <1>2, <1>3, <1>5, <1>8, <2>1 DEF MqPipeInv, MqPipeTypes
    <2> QED BY <1>6, <2>1, <2>2 DEF MqInv
  <1> QED BY <1>1, <1>7, <1>8

(* A worker takes a batch, ...                                                 *)
LEMMA MqTakeStep ==
  ASSUME MqInv, RouteInv', NEW w \in MqWorkers, MqTakeBatch(w)
  PROVE  MqInv' /\ [MqGateway!ContractNext]_(MqGateway!contractVars)
  <1>0. /\ MqPipeInv /\ MqLifeInv /\ MqPipeTypes /\ RouteType /\ RouteType'
        /\ MqPlaced(MqArrived, MqInHand, mqQueue, MqTaken, MqHeld)
        /\ mqWork \in [MqWorkers -> MqWorkType] /\ MqTaken \in [MqWorkers -> Seq(MqReadings)]
    BY MqParts DEF MqInv, MqPipeInv, RouteInv
  <1>1. PICK n \in 1..Len(mqQueue) :
          /\ mqWork' = [mqWork EXCEPT ![w].batch = SubSeq(mqQueue, 1, n)]
          /\ mqQueue' = SubSeq(mqQueue, n + 1, Len(mqQueue))
    BY DEF MqTakeBatch
  <1>2. /\ mqWork[w].on /\ UNCHANGED <<mqLife, mqInbox, mqReader, mqFate, MqArrived, MqInHand, MqHeld>>
    BY DEF MqTakeBatch, MqRunning, MqWorkerOnly, MqArrived, MqInHand, MqHeld
  <1> DEFINE t == SubSeq(mqQueue, 1, n)
             d == [mqWork[w] EXCEPT !.batch = t]
  <1>3. mqQueue \in Seq(MqReadings) /\ mqWork[w] \in MqWorkType
    BY <1>0 DEF MqPipeTypes
  <1>4. t \in Seq(MqReadings) /\ mqQueue' \in Seq(MqReadings)
    BY <1>1, <1>3, SplitParts
  <1>5. MqPlaced(MqArrived, MqInHand, mqQueue', [MqTaken EXCEPT ![w] = t], MqHeld)
    BY <1>0, <1>1, <1>3, MqPlacedTake
  <1>6. mqWork' = [mqWork EXCEPT ![w] = d]
    BY <1>1
  <1> HIDE DEF t
  <1>7. d \in MqWorkType /\ d.batch = t /\ d.on
    BY <1>2, <1>3, <1>4 DEF MqWorkType
  <1> HIDE DEF d
  <1>8. MqTaken' = [MqTaken EXCEPT ![w] = t] /\ mqWork' \in [MqWorkers -> MqWorkType]
    BY <1>0, <1>6, <1>7 DEF MqTaken
  <1>9. MqPipeInv'
    BY <1>0, <1>2, <1>4, <1>5, <1>8 DEF MqPipeInv, MqPipeTypes
  <1>10. MqLifeInv'
    BY <1>0, <1>2, <1>6, <1>7 DEF MqLifeInv
  <1> QED BY <1>2, <1>9, <1>10 DEF MqInv, MqGateway!contractVars

(* ... settles the readings of its batch, one or all, ...                      *)
LEMMA MqDoneStep ==
  ASSUME MqInv, RouteInv', NEW w \in MqWorkers, MqConvertItem(w) \/ MqBatchFails(w)
  PROVE  MqInv' /\ [MqGateway!ContractNext]_(MqGateway!contractVars)
  <1> DEFINE batch == mqWork[w].batch
  <1>0. /\ MqPipeInv /\ MqLifeInv /\ MqPipeTypes /\ RouteType /\ RouteType'
        /\ MqPlaced(MqArrived, MqInHand, mqQueue, MqTaken, MqHeld)
        /\ mqWork \in [MqWorkers -> MqWorkType] /\ MqTaken \in [MqWorkers -> Seq(MqReadings)]
        /\ MqTaken[w] = batch /\ mqFate \in [MqReadings -> FateType]
    BY MqParts DEF MqInv, MqPipeInv, RouteInv
  <1>1. /\ batch \in Seq(MqReadings) /\ Once(batch) /\ batch # <<>> /\ Range(batch) \subseteq MqHeld
        /\ UNCHANGED <<mqLife, mqInbox, mqReader, mqQueue, MqArrived, MqInHand>>
    BY <1>0 DEF MqConvertItem, MqBatchFails, MqWorkerOnly, MqArrived, MqInHand, MqPlaced
  <1>2. mqLife \in {"running", "stopping"} /\ mqWork[w].on
    BY <1>0, <1>1 DEF MqLifeInv
  <1>3. \E rest \in Seq(MqReadings), done \in SUBSET Range(batch), f \in {"stored", "lost"} :
          /\ Once(rest) /\ Range(rest) = Range(batch) \ done /\ done # {}
          /\ mqWork' = [mqWork EXCEPT ![w].batch = rest]
          /\ mqFate' = [r \in MqReadings |-> IF r \in done THEN f ELSE mqFate[r]]
    <2>1. CASE MqConvertItem(w)
      <3>1. PICK f \in {"stored", "lost"} : MqFinish(Head(batch), f)
        BY <2>1 DEF MqConvertItem
      <3>2. /\ Tail(batch) \in Seq(MqReadings) /\ Once(Tail(batch)) /\ Head(batch) \in Range(batch)
            /\ Range(Tail(batch)) = Range(batch) \ {Head(batch)}
        BY <1>1, OnceTail
      <3>3. mqFate' = [r \in MqReadings |-> IF r \in {Head(batch)} THEN f ELSE mqFate[r]]
        BY <1>0, <3>1 DEF MqFinish
      <3>4. mqWork' = [mqWork EXCEPT ![w].batch = Tail(batch)]
        BY <2>1 DEF MqConvertItem
      <3> HIDE DEF batch
      <3> QED BY <3>2, <3>3, <3>4
    <2>2. CASE MqBatchFails(w)
      <3>1. /\ mqWork' = [mqWork EXCEPT ![w].batch = <<>>]
            /\ mqFate' = [r \in MqReadings |-> IF r \in Range(batch) THEN "lost" ELSE mqFate[r]]
        BY <2>2 DEF MqBatchFails
      <3> HIDE DEF batch
      <3>2. <<>> \in Seq(MqReadings) /\ Once(<<>>) /\ Range(<<>>) = {}
        BY DEF Once, Range
      <3>3. Range(batch) # {} BY <1>1, OnceTail
      <3> QED BY <3>1, <3>2, <3>3
    <2> QED BY <2>1, <2>2
  <1>4. PICK rest \in Seq(MqReadings), done \in SUBSET Range(batch), f \in {"stored", "lost"} :
          /\ Once(rest) /\ Range(rest) = Range(batch) \ done /\ done # {}
          /\ mqWork' = [mqWork EXCEPT ![w].batch = rest]
          /\ mqFate' = [r \in MqReadings |-> IF r \in done THEN f ELSE mqFate[r]]
    BY <1>3, Zenon
  <1>5. MqPlaced(MqArrived, MqInHand, mqQueue, [MqTaken EXCEPT ![w] = rest], MqHeld \ done)
    BY <1>0, <1>4, MqPlacedDone
  <1>6. /\ mqFate' \in [MqReadings -> FateType] /\ MqHeld' = MqHeld \ done
        /\ [MqGateway!ContractNext]_(MqGateway!contractVars)
    <2>1. done \in SUBSET MqHeld BY <1>1, <1>4
    <2> QED BY <1>0, <1>1, <1>2, <1>4, <2>1, MqSettles
  <1> HIDE DEF batch
  <1> DEFINE d == [mqWork[w] EXCEPT !.batch = rest]
  <1>7. mqWork[w] \in MqWorkType /\ mqWork' = [mqWork EXCEPT ![w] = d]
    BY <1>0, <1>4
  <1>8. d \in MqWorkType /\ d.batch = rest /\ d.on
    BY <1>2, <1>7 DEF MqWorkType
  <1> HIDE DEF d
  <1>9. MqTaken' = [MqTaken EXCEPT ![w] = rest] /\ mqWork' \in [MqWorkers -> MqWorkType]
    BY <1>0, <1>7, <1>8 DEF MqTaken
  <1>10. MqPipeInv'
    BY <1>0, <1>1, <1>5, <1>6, <1>9 DEF MqPipeInv, MqPipeTypes
  <1>11. MqLifeInv'
    BY <1>0, <1>1, <1>2, <1>7, <1>8 DEF MqLifeInv
  <1> QED BY <1>6, <1>10, <1>11 DEF MqInv

(* ... and ends without one.                                                   *)
LEMMA MqWorkerEndsStep ==
  ASSUME MqInv, RouteInv', NEW w \in MqWorkers, MqWorkerEnds(w)
  PROVE  MqInv' /\ [MqGateway!ContractNext]_(MqGateway!contractVars)
  <1>0. /\ MqPipeInv /\ MqLifeInv /\ MqPipeTypes /\ RouteType'
        /\ mqWork \in [MqWorkers -> MqWorkType]
    BY MqParts DEF MqInv, MqPipeInv, RouteInv
  <1>1. /\ mqWork[w].batch = <<>> /\ mqWork' = [mqWork EXCEPT ![w] = MqFree]
        /\ UNCHANGED <<mqLife, mqInbox, mqReader, mqQueue, mqFate, MqArrived, MqInHand>>
    BY DEF MqWorkerEnds, MqWorkerOnly, MqArrived, MqInHand
  <1>2. MqFree \in MqWorkType /\ MqFree.batch = <<>> /\ ~MqFree.on
    BY DEF MqFree, MqWorkType
  <1>3. UNCHANGED MqTaken /\ mqWork' \in [MqWorkers -> MqWorkType]
    BY <1>0, <1>1, <1>2 DEF MqTaken
  <1>4. MqPipeInv' BY <1>0, <1>1, <1>3, MqStays
  <1>5. MqLifeInv' BY <1>0, <1>1, <1>2 DEF MqLifeInv
  <1> QED BY <1>1, <1>4, <1>5 DEF MqInv, MqGateway!contractVars

(* The connector is closed when no worker is on and nothing is in hand.        *)
LEMMA MqEndStep ==
  ASSUME MqInv, RouteInv', MqEnd
  PROVE  MqInv' /\ [MqGateway!ContractNext]_(MqGateway!contractVars)
  <1>0. /\ MqPipeInv /\ MqLifeInv /\ MqPipeTypes /\ RouteType'
        /\ MqPlaced(MqArrived, MqInHand, mqQueue, MqTaken, MqHeld)
    BY DEF MqInv, MqPipeInv, RouteInv
  <1>1. /\ mqLife = "stopping" /\ mqLife' = "closed" /\ mqInbox' = <<>> /\ mqQueue' = <<>>
        /\ mqReader.at # "matched" /\ \A w \in MqWorkers : ~mqWork[w].on
        /\ UNCHANGED <<mqReader, mqWork, mqFate, MqInHand, MqTaken, MqHeld>>
    BY DEF MqEnd, MqInHand, MqTaken, MqHeld
  <1>2. MqArrived' = <<>> BY <1>1 DEF MqArrived
  <1>3. MqPipeInv'
    BY <1>0, <1>1, <1>2, MqPlacedDropped DEF MqPipeInv, MqPipeTypes
  <1>4. MqLifeInv' BY <1>0, <1>1 DEF MqLifeInv
  <1>5. MqGateway!ThreadsEnd BY <1>1 DEF MqGateway!ThreadsEnd
  <1> QED BY <1>3, <1>4, <1>5 DEF MqInv, MqGateway!ContractNext

(* Every step keeps the invariant and is a step of the contract.               *)
LEMMA MqStep ==
  ASSUME MqInv, [MqttNext]_mqVars
  PROVE  MqInv' /\ [MqGateway!ContractNext]_(MqGateway!contractVars)
  <1> DEFINE Goal == MqInv' /\ [MqGateway!ContractNext]_(MqGateway!contractVars)
  <1> SUFFICES Goal
    OBVIOUS
  <1>0. RouteInv' /\ MqPipeInv /\ MqLifeInv BY RouteStep DEF MqInv
  <1>1. ASSUME UNCHANGED <<mqLife, mqInbox, mqReader, mqQueue, mqWork, mqFate>> PROVE Goal
    <2>1. MqPipeInv'
      BY <1>0, <1>1 DEF MqPipeInv, MqPipeTypes, RouteInv, MqArrived, MqInHand, MqTaken, MqHeld
    <2>2. MqLifeInv' BY <1>0, <1>1 DEF MqLifeInv
    <2> QED BY <1>0, <1>1, <2>1, <2>2 DEF MqInv, MqGateway!contractVars
  <1>2. CASE \/ MqOpen \/ MqReconnect \/ MqConnectDone \/ MqManageThreads \/ MqSetupTopic
             \/ MqSetupEnds \/ MqDisconnected \/ MqClose \/ MqMainEnds
    BY <1>0, <1>2, MqLifeStep
  <1>3. CASE MqOnConnect BY <1>0, <1>3, MqConnectStep
  <1>4. CASE MqOnMessage BY <1>0, <1>4, MqMessageStep
  <1>5. CASE MqMatch BY <1>0, <1>5, MqMatchStep
  <1>6. CASE MqRoute BY <1>0, <1>6, MqRouteStep
  <1>7. CASE MqEnd BY <1>0, <1>7, MqEndStep
  <1>8. ASSUME NEW w \in MqWorkers, MqTakeBatch(w) \/ MqWorker(w) PROVE Goal
    BY <1>0, <1>8, MqTakeStep, MqDoneStep, MqWorkerEndsStep DEF MqWorker
  <1>9. ASSUME NEW q \in MqCalls, MqRequest(q) \/ MqPublished(q) PROVE Goal
    BY <1>1, <1>9 DEF MqRequest, MqUnhandled, MqOneWay, MqTwoWay, MqAttributeUpdate, MqPublished,
       MqCallOnly
  <1>10. CASE UNCHANGED mqVars
    BY <1>1, <1>10 DEF mqVars
  <1> HIDE DEF Goal
  <1> QED BY <1>2, <1>3, <1>4, <1>5, <1>6, <1>7, <1>8, <1>9, <1>10 DEF MqttNext

(* To the gateway, its calls aside, the MQTT connector is a connector: opened  *)
(* and closed once, each message stored at most once, and none after its       *)
(* workers have ended, however often the connection is lost in between         *)
(* (mqtt_connector.py, _on_message to ConverterWorker.run).                    *)
THEOREM MqttRefinesContract == MqttSpec => MqGatewaySafety
  <1>1. MqttInit => MqGateway!ContractInit
    BY DEF MqttInit, MqGateway!ContractInit
  <1>2. MqInv /\ [MqttNext]_mqVars => MqInv' /\ [MqGateway!ContractNext]_(MqGateway!contractVars)
    BY MqStep
  <1> QED BY <1>1, <1>2, MqInvInit, PTL DEF MqttSpec, MqGatewaySafety

------------------------------------------------------------------------------
(* That every step of the REST connector is a step of ConnectorContract or     *)
(* changes nothing the gateway sees, for any number of requests, calls and     *)
(* attribute updates.  (That calls and a close come to an end is checked on    *)
(* small instances.)                                                           *)

(* A call as the gateway sees it: each ends with what it takes for an error.   *)
RsAsked == [q \in RsCalls |-> IF rsCall[q].caller = "error" THEN "answered" ELSE rsCall[q].caller]

RsGateway == INSTANCE ConnectorContract
    WITH Readings <- RsReadings, Calls <- RsCalls, life <- rsLife, fate <- rsFate, call <- RsAsked

(* The safety part of the contract.                                            *)
RsGatewaySafety == RsGateway!ContractInit /\ [][RsGateway!ContractNext]_(RsGateway!contractVars)

RsTypes ==
    /\ rsLife \in {"new", "running", "stopping", "closed"}
    /\ rsRequest \in [RsReadings -> {"none", "body", "waiting", "done"}]
    /\ rsFate \in [RsReadings -> {"unread", "held", "stored", "lost"}]
    /\ rsCall \in [RsCalls -> [kind : {"none", "reserved", "device"}, left : Nat,
                               caller : {"none", "open", "error"}]]

(* A reading is held exactly while its body is awaited, and the server serves  *)
(* only while the connector is open or being closed.                           *)
RsInv ==
    /\ RsTypes
    /\ \A r \in RsReadings : /\ rsRequest[r] = "none" => rsFate[r] = "unread"
                             /\ rsRequest[r] = "body" <=> rsFate[r] = "held"
    /\ rsServer = "serving" => rsLife \in {"running", "stopping"}

(* Nothing was requested yet.                                                  *)
LEMMA RsInvInit == RestInit => RsInv
  BY DEF RestInit, RsInv, RsTypes, RsNoCall

(* A step of the server or of the connector's life that moves no request.      *)
LEMMA RsLifeKeeps == RsInv /\ (RsOpen \/ RsRun \/ RsStop \/ RsAttributeUpdate) => RsInv'
  BY DEF RsInv, RsTypes, RsOpen, RsRun, RsStop, RsAttributeUpdate

(* A handler moves its own request and its reading together.                   *)
LEMMA RsHandlerKeeps ==
  ASSUME RsInv, NEW r \in RsReadings, RsReceive(r) \/ RsNoBody(r) \/ RsHandle(r) \/ RsRespond(r)
  PROVE  RsInv'
  <1>1. CASE RsReceive(r)
    BY <1>1 DEF RsReceive, RsInv, RsTypes
  <1>2. CASE RsNoBody(r)
    BY <1>2 DEF RsNoBody, RsInv, RsTypes
  <1>3. CASE RsHandle(r)
    <2>1. PICK c \in RsConversions \cup {"refused"} :
         /\ rsFate' = [rsFate EXCEPT ![r] = IF c = "points" THEN "stored" ELSE "lost"]
         /\ rsRequest' = [rsRequest EXCEPT ![r] =
                            IF c # "refused" /\ r \in RsExpecting THEN "waiting" ELSE "done"]
      BY <1>3 DEF RsHandle
    <2>2. RsTypes' /\ UNCHANGED <<rsLife, rsServer>>
      BY <1>3, <2>1 DEF RsHandle, RsInv, RsTypes
    <2> QED BY <2>1, <2>2 DEF RsInv, RsTypes
  <1>4. CASE RsRespond(r)
    BY <1>4 DEF RsRespond, RsInv, RsTypes
  <1> QED BY <1>1, <1>2, <1>3, <1>4

(* The end of the loop loses exactly the readings that are held.               *)
LEMMA RsEndKeeps == RsInv /\ RsEnd => RsInv'
  <1> SUFFICES ASSUME RsInv, RsEnd PROVE RsInv'
    OBVIOUS
  <1>1. CASE \E r \in RsReadings : rsRequest[r] = "body"
    BY <1>1 DEF RsEnd, RsInv, RsTypes
  <1>2. CASE ~\E r \in RsReadings : rsRequest[r] = "body"
    BY <1>2 DEF RsEnd, RsInv, RsTypes
  <1> QED BY <1>1, <1>2

(* A call changes nothing but itself.                                          *)
LEMMA RsCallKeeps ==
  ASSUME RsInv, NEW q \in RsCalls,
         RsCaller(q) \/ \E kind \in {"reserved", "device"} : RsAsk(q, kind)
  PROVE  RsInv'
  <1>1. UNCHANGED <<rsLife, rsServer, rsRequest, rsReplies, rsFate>>
    BY DEF RsCaller, RsSend, RsAllSent, RsUnformed, RsReturn, RsAsk
  <1>2. rsCall' \in [RsCalls -> [kind : {"none", "reserved", "device"}, left : Nat,
                                 caller : {"none", "open", "error"}]]
    <2>1. CASE RsSend(q)
      BY <2>1 DEF RsSend, RsInv, RsTypes
    <2>2. CASE RsReturn(q)
      BY <2>2 DEF RsReturn, RsInv, RsTypes
    <2>3. ASSUME NEW kind \in {"reserved", "device"}, RsAsk(q, kind)
          PROVE rsCall' \in [RsCalls -> [kind : {"none", "reserved", "device"}, left : Nat,
                                         caller : {"none", "open", "error"}]]
      <3>1. PICK n \in IF kind = "reserved" THEN {1} ELSE 0 .. RsMatches :
              rsCall' = [rsCall EXCEPT ![q] = [kind |-> kind, left |-> n, caller |-> "open"]]
        BY <2>3 DEF RsAsk
      <3>2. n \in Nat
        BY <3>1, RestAssumption
      <3> QED BY <3>1, <3>2 DEF RsInv, RsTypes
    <2> QED BY <2>1, <2>2, <2>3 DEF RsCaller, RsAllSent, RsUnformed
  <1> QED BY <1>1, <1>2 DEF RsInv, RsTypes

(* Every step keeps the invariant.                                             *)
LEMMA RsInvStep == RsInv /\ [RestNext]_rsVars => RsInv'
  <1> SUFFICES ASSUME RsInv, [RestNext]_rsVars PROVE RsInv'
    OBVIOUS
  <1>1. CASE UNCHANGED rsVars
    BY <1>1 DEF rsVars, RsInv, RsTypes
  <1>2. CASE RestNext
    BY <1>2, RsLifeKeeps, RsHandlerKeeps, RsEndKeeps, RsCallKeeps DEF RestNext
  <1> QED BY <1>1, <1>2

(* A handler's step is the taking or the settling of one reading, or hidden.   *)
LEMMA RsHandlerRefines ==
  ASSUME RsInv, NEW r \in RsReadings, RsReceive(r) \/ RsNoBody(r) \/ RsHandle(r) \/ RsRespond(r)
  PROVE  [RsGateway!ContractNext]_(RsGateway!contractVars)
  <1>0. UNCHANGED <<rsLife, rsCall>> /\ UNCHANGED RsAsked
    BY DEF RsReceive, RsNoBody, RsHandle, RsRespond, RsAsked
  <1>1. CASE UNCHANGED rsFate
    BY <1>0, <1>1 DEF RsGateway!contractVars
  <1>2. CASE rsFate' = [rsFate EXCEPT ![r] = "held"] /\ RsReceive(r)
    <2>1. RsGateway!Take(r)
      BY <1>0, <1>2 DEF RsReceive, RsInv, RsGateway!Take, RsGateway!Alive
    <2> QED BY <2>1 DEF RsGateway!ContractNext
  <1>3. ASSUME NEW f \in {"stored", "lost"}, rsFate' = [rsFate EXCEPT ![r] = f],
               RsServes, rsRequest[r] = "body"
        PROVE  [RsGateway!ContractNext]_(RsGateway!contractVars)
    <2>1. rsFate[r] = "held" /\ rsLife \in {"running", "stopping"}
      BY <1>3 DEF RsInv, RsServes
    <2>2. rsFate' # rsFate /\ rsFate' \in [RsReadings -> {"unread", "held", "stored", "lost"}]
      BY <1>3, <2>1 DEF RsInv, RsTypes
    <2>3. RsGateway!Settle
      BY <1>0, <1>3, <2>1, <2>2 DEF RsInv, RsTypes, RsGateway!Settle, RsGateway!Alive
    <2> QED BY <2>3 DEF RsGateway!ContractNext
  <1> QED BY <1>1, <1>2, <1>3 DEF RsReceive, RsNoBody, RsHandle, RsRespond

(* The steps of the connector's life are those of the contract; the loop's     *)
(* end first settles what is held.                                             *)
LEMMA RsLifeRefines ==
  ASSUME RsInv, RsOpen \/ RsRun \/ RsStop \/ RsEnd \/ RsAttributeUpdate
  PROVE  [RsGateway!ContractNext]_(RsGateway!contractVars)
  <1>0. UNCHANGED rsCall /\ UNCHANGED RsAsked
    BY DEF RsOpen, RsRun, RsStop, RsEnd, RsAttributeUpdate, RsAsked
  <1>1. CASE RsOpen
    BY <1>0, <1>1 DEF RsOpen, RsGateway!Open, RsGateway!ContractNext
  <1>2. CASE RsRun \/ RsAttributeUpdate
    BY <1>0, <1>2 DEF RsRun, RsAttributeUpdate, RsGateway!contractVars
  <1>3. CASE RsStop
    BY <1>0, <1>3 DEF RsStop, RsGateway!Close, RsGateway!ContractNext
  <1>4. CASE RsEnd /\ ~\E r \in RsReadings : rsRequest[r] = "body"
    BY <1>0, <1>4 DEF RsEnd, RsGateway!ThreadsEnd, RsGateway!ContractNext
  <1>5. CASE RsEnd /\ \E r \in RsReadings : rsRequest[r] = "body"
    <2>1. /\ rsFate' = [r \in RsReadings |-> IF rsRequest[r] = "body" THEN "lost" ELSE rsFate[r]]
          /\ UNCHANGED rsLife /\ rsLife = "stopping"
      BY <1>5 DEF RsEnd
    <2>2. rsFate' # rsFate
      BY <1>5, <2>1 DEF RsInv, RsTypes
    <2>3. rsFate' \in [RsReadings -> {"unread", "held", "stored", "lost"}]
      BY <2>1 DEF RsInv, RsTypes
    <2>4. RsGateway!Settle
      BY <1>0, <2>1, <2>2, <2>3 DEF RsInv, RsTypes, RsGateway!Settle, RsGateway!Alive
    <2> QED BY <2>4 DEF RsGateway!ContractNext
  <1> QED BY <1>1, <1>2, <1>3, <1>4, <1>5

(* A call is asked and answered once; what it sends meanwhile is hidden.       *)
LEMMA RsCallRefines ==
  ASSUME RsInv, NEW q \in RsCalls,
         RsCaller(q) \/ \E kind \in {"reserved", "device"} : RsAsk(q, kind)
  PROVE  [RsGateway!ContractNext]_(RsGateway!contractVars)
  <1>0. UNCHANGED <<rsLife, rsFate>>
    BY DEF RsCaller, RsSend, RsAllSent, RsUnformed, RsReturn, RsAsk
  <1>1. CASE RsSend(q)
    <2>1. \A p \in RsCalls : rsCall'[p].caller = rsCall[p].caller
      BY <1>1 DEF RsSend, RsInv, RsTypes
    <2>2. UNCHANGED RsAsked
      BY <2>1 DEF RsAsked
    <2> QED BY <1>0, <2>2 DEF RsGateway!contractVars
  <1>2. CASE RsReturn(q)
    <2>1. RsAsked[q] = "open" /\ RsAsked' = [RsAsked EXCEPT ![q] = "answered"]
      BY <1>2 DEF RsReturn, RsInv, RsTypes, RsAsked
    <2>2. RsGateway!Answer(q)
      BY <1>0, <2>1 DEF RsGateway!Answer
    <2> QED BY <2>2 DEF RsGateway!ContractNext
  <1>3. ASSUME NEW kind \in {"reserved", "device"}, RsAsk(q, kind)
        PROVE  [RsGateway!ContractNext]_(RsGateway!contractVars)
    <2>1. RsAsked[q] = "none" /\ RsAsked' = [RsAsked EXCEPT ![q] = "open"] /\ rsLife # "new"
      <3>1. PICK n : rsCall' = [rsCall EXCEPT ![q] = [kind |-> kind, left |-> n, caller |-> "open"]]
        BY <1>3 DEF RsAsk
      <3>2. \A p \in RsCalls : rsCall'[p].caller = IF p = q THEN "open" ELSE rsCall[p].caller
        BY <3>1 DEF RsInv, RsTypes
      <3>3. rsCall[q].caller = "none" /\ rsLife # "new"
        BY <1>3 DEF RsAsk
      <3> QED BY <3>2, <3>3 DEF RsAsked
    <2>2. RsGateway!Ask(q)
      BY <1>0, <2>1 DEF RsGateway!Ask
    <2> QED BY <2>2 DEF RsGateway!ContractNext
  <1> QED BY <1>1, <1>2, <1>3 DEF RsCaller, RsAllSent, RsUnformed

(* To the gateway the REST connector is a connector: opened and closed once,   *)
(* each request stored at most once and none after its loop has ended, each    *)
(* call asked and answered once (rest_connector.py).                           *)
THEOREM RestRefinesContract == RestSpec => RsGatewaySafety
  <1>1. RestInit => RsGateway!ContractInit
    BY DEF RestInit, RsNoCall, RsAsked, RsGateway!ContractInit
  <1>2. RsInv /\ [RestNext]_rsVars => [RsGateway!ContractNext]_(RsGateway!contractVars)
    <2> SUFFICES ASSUME RsInv, [RestNext]_rsVars
                 PROVE  [RsGateway!ContractNext]_(RsGateway!contractVars)
      OBVIOUS
    <2>1. CASE UNCHANGED rsVars
      BY <2>1 DEF rsVars, RsAsked, RsGateway!contractVars
    <2>2. CASE RestNext
      BY <2>2, RsLifeRefines, RsHandlerRefines, RsCallRefines DEF RestNext
    <2> QED BY <2>1, <2>2
  <1> QED BY <1>1, <1>2, RsInvInit, RsInvStep, PTL DEF RestSpec, RsGatewaySafety

-----------------------------------------------------------------------------
(* The request connector as the gateway sees it.                               *)
RqGateway == INSTANCE ConnectorContract
    WITH Readings <- RqReadings, Calls <- RqCalls, life <- rqLife, fate <- rqFate,
         call <- Asks(rqCall)

RqGatewaySafety == RqGateway!ContractInit /\ [][RqGateway!ContractNext]_(RqGateway!contractVars)

RqInHand(t) == rqThread[t].pc \in {"sub", "convert"}

(* A reading on its way is held, and by one thread or at one place of the      *)
(* queue.                                                                      *)
RqPipeInv ==
    /\ \A t \in RqThreads : RqInHand(t) =>
         rqThread[t].reading \in RqReadings /\ rqFate[rqThread[t].reading] = "held"
    /\ \A t, u \in RqThreads : RqInHand(t) /\ RqInHand(u) /\ rqThread[t].reading = rqThread[u].reading
                                 => t = u
    /\ \A i \in DOMAIN rqQueue : rqFate[rqQueue[i].reading] = "held"
    /\ \A i, j \in DOMAIN rqQueue : rqQueue[i].reading = rqQueue[j].reading => i = j
    /\ \A t \in RqThreads, i \in DOMAIN rqQueue :
         RqInHand(t) => rqThread[t].reading # rqQueue[i].reading

(* A thread outlives the loop only where it waits for room in the queue.       *)
RqLifeInv ==
    /\ rqLife = "new" => rqRound = "requests" /\ \A t \in RqThreads : rqThread[t].pc = "none"
    /\ rqLife = "closed" => /\ rqRound = "ended"
                            /\ \A t \in RqThreads : rqThread[t].pc \in {"none", "convert"}

RqInv == RequestTypeOK /\ RqPipeInv /\ RqLifeInv

RqItems == [reading : RqReadings, converted : {"points", "empty"}]
RqThreadType == [pc : {"none", "born", "sending", "sub", "convert"},
                 endpoint : RqEndpoints \cup {"none"}, reading : RqReadings \cup {"none"}]
RqCallType == [kind : RqKinds \cup {"none"}, left : 0 .. RqMatches,
               task : {"none", "sending", "answer", "nothing"},
               caller : {"none", "open", "ok", "error"}]

(* The shapes, by name.                                                        *)
LEMMA RqTypes ==
  RequestTypeOK <=>
    /\ rqLife \in {"new", "running", "stopping", "closed"}
    /\ rqRound \in {"requests", "data", "ended"} /\ rqDue \subseteq RqEndpoints
    /\ rqThread \in [RqThreads -> RqThreadType] /\ rqQueue \in Seq(RqItems)
    /\ Len(rqQueue) <= RqQueueBound /\ rqFate \in [RqReadings -> FateType]
    /\ rqCall \in [RqCalls -> RqCallType]
  BY Zenon DEF RequestTypeOK, RqThreadType, RqItems, FateType, RqCallType

(* Nothing was requested yet.                                                  *)
LEMMA RqInvInit == RequestInit => RqInv
  <1> SUFFICES ASSUME RequestInit PROVE RqInv
    OBVIOUS
  <1>1. RequestTypeOK
    <2>1. RqNoCall \in RqCallType /\ RqIdle \in RqThreadType /\ Len(<<>>) <= RqQueueBound
      BY RequestAssumption DEF RqNoCall, RqCallType, RqIdle, RqThreadType
    <2>2. rqQueue \in Seq(RqItems) BY DEF RequestInit
    <2> QED BY <2>1, <2>2, RqTypes DEF RequestInit, FateType
  <1>2. RqPipeInv /\ RqLifeInv
    BY DEF RequestInit, RqPipeInv, RqLifeInv, RqIdle, RqInHand
  <1> QED BY <1>1, <1>2 DEF RqInv

(* A settled reading is what the contract says.                                *)
LEMMA RqSettles ==
  ASSUME RequestTypeOK, rqLife \in {"running", "stopping"}, UNCHANGED <<rqLife, rqCall>>,
         NEW r \in RqReadings, NEW f \in {"stored", "lost"},
         rqFate' = [rqFate EXCEPT ![r] = f], rqFate[r] = "held"
  PROVE  [RqGateway!ContractNext]_(RqGateway!contractVars)
  <1>1. rqFate \in [RqReadings -> FateType] BY RqTypes
  <1>2. rqFate' # rqFate /\ rqFate' \in [RqReadings -> FateType]
    BY <1>1 DEF FateType
  <1>3. RqGateway!Settle
    BY <1>1, <1>2 DEF RqGateway!Settle, RqGateway!Alive, FateType
  <1> QED BY <1>3 DEF RqGateway!ContractNext

(* A thread that lets go of nothing, and takes nothing.                        *)
LEMMA RqThreadMoves ==
  ASSUME RqInv, NEW t \in RqThreads, NEW d \in RqThreadType,
         rqThread' = [rqThread EXCEPT ![t] = d],
         d.pc \in {"sub", "convert"} => RqInHand(t) /\ d.reading = rqThread[t].reading,
         rqLife # "new", rqLife = "closed" => d.pc \in {"none", "convert"},
         UNCHANGED <<rqLife, rqRound, rqQueue, rqFate, rqCall>>, rqDue' \subseteq rqDue
  PROVE  RqInv'
  <1>0. rqThread \in [RqThreads -> RqThreadType] BY RqTypes DEF RqInv
  <1>1. RequestTypeOK'
    <2>1. rqThread' \in [RqThreads -> RqThreadType] BY <1>0
    <2> QED BY <2>1, RqTypes DEF RqInv, RequestTypeOK, RqThreadType
  <1>2. \A u \in RqThreads : RqInHand(u)' => RqInHand(u) /\ rqThread'[u].reading = rqThread[u].reading
    BY <1>0 DEF RqInHand
  <1>3. RqPipeInv' BY <1>2 DEF RqInv, RqPipeInv
  <1>4. RqLifeInv' BY <1>0 DEF RqInv, RqLifeInv
  <1> QED BY <1>1, <1>3, <1>4 DEF RqInv

(* The loop: its requests are started, none of them twice in one thread.       *)
LEMMA RqSweepKeeps == RqInv /\ RqSweep => RqInv'
  <1> SUFFICES ASSUME RqInv, RqSweep PROVE RqInv'
    OBVIOUS
  <1>0. /\ rqThread \in [RqThreads -> RqThreadType] /\ rqDue \subseteq RqEndpoints
        /\ rqLife = "running" /\ rqRound' = "data"
        /\ UNCHANGED <<rqLife, rqDue, rqQueue, rqFate, rqCall>>
    BY RqTypes DEF RqInv, RqSweep
  <1>1. PICK chosen \in [rqDue -> {t \in RqThreads : rqThread[t] = RqIdle}] :
          rqThread' = [t \in RqThreads |->
              IF \E e \in rqDue : chosen[e] = t
              THEN [pc |-> "born", reading |-> "none",
                    endpoint |-> CHOOSE e \in rqDue : chosen[e] = t]
              ELSE rqThread[t]]
    BY DEF RqSweep
  <1>2. ASSUME NEW t \in RqThreads
        PROVE  /\ rqThread'[t] \in RqThreadType
               /\ RqInHand(t)' => RqInHand(t) /\ rqThread'[t].reading = rqThread[t].reading
    <2>1. CASE \E e \in rqDue : chosen[e] = t
      <3>1. (CHOOSE e \in rqDue : chosen[e] = t) \in RqEndpoints BY <1>0, <2>1
      <3>2. rqThread'[t] = [pc |-> "born", reading |-> "none",
                            endpoint |-> CHOOSE e \in rqDue : chosen[e] = t]
        BY <1>1, <2>1
      <3> QED BY <3>1, <3>2 DEF RqThreadType, RqInHand
    <2>2. CASE ~\E e \in rqDue : chosen[e] = t
      <3>1. rqThread'[t] = rqThread[t] BY <1>1, <2>2
      <3> QED BY <1>0, <3>1 DEF RqInHand
    <2> QED BY <2>1, <2>2
  <1>3. rqThread' \in [RqThreads -> RqThreadType]
    <2>1. DOMAIN rqThread' = RqThreads BY <1>1
    <2>2. rqThread' = [t \in RqThreads |-> rqThread'[t]] BY <1>1
    <2> QED BY <1>2, <2>1, <2>2
  <1>4. RequestTypeOK'
    BY <1>0, <1>3, RqTypes DEF RqInv, RequestTypeOK, RqThreadType
  <1>5. RqPipeInv' BY <1>0, <1>2 DEF RqInv, RqPipeInv
  <1>6. RqLifeInv' BY <1>0 DEF RqLifeInv
  <1> QED BY <1>4, <1>5, <1>6 DEF RqInv

(* The steps of the loop and of the connector's life.                          *)
LEMMA RqProcessStep ==
  ASSUME RqInv, RqProcess
  PROVE  RqInv' /\ [RqGateway!ContractNext]_(RqGateway!contractVars)
  <1>0. /\ RequestTypeOK /\ RqPipeInv /\ RqLifeInv /\ rqQueue \in Seq(RqItems)
        /\ rqFate \in [RqReadings -> FateType] /\ rqThread \in [RqThreads -> RqThreadType]
        /\ rqRound = "data" /\ rqRound' = "requests"
        /\ UNCHANGED <<rqLife, rqDue, rqThread, rqCall>>
    BY RqTypes DEF RqInv, RqProcess
  <1>1. rqLife \in {"running", "stopping"}
    BY <1>0 DEF RequestTypeOK, RqLifeInv
  <1>2. RqLifeInv' BY <1>0, <1>1 DEF RqLifeInv
  <1>3. CASE rqQueue = <<>>
    <2>1. UNCHANGED <<rqQueue, rqFate>> BY <1>3 DEF RqProcess
    <2>2. RequestTypeOK' BY <1>0, <2>1 DEF RequestTypeOK
    <2>3. RqPipeInv' BY <1>0, <2>1 DEF RqPipeInv, RqInHand
    <2> QED BY <1>0, <1>2, <2>1, <2>2, <2>3 DEF RqInv, RqGateway!contractVars
  <1>4. CASE rqQueue # <<>>
    <2> DEFINE item == rqQueue[1]
               r == item.reading
    <2>1. /\ rqQueue' = Tail(rqQueue)
          /\ \E f \in {"stored", "lost"} : rqFate' = [rqFate EXCEPT ![Head(rqQueue).reading] = f]
      BY <1>4 DEF RqProcess
    <2>2. /\ rqQueue' \in Seq(RqItems) /\ 1 \in DOMAIN rqQueue /\ Head(rqQueue) = item
          /\ item \in RqItems
          /\ \A i \in DOMAIN rqQueue' : /\ i \in Nat /\ i + 1 \in DOMAIN rqQueue /\ i + 1 # 1
                                        /\ rqQueue'[i] = rqQueue[i + 1]
      BY <1>0, <1>4, <2>1, TailParts
    <2>3. PICK f \in {"stored", "lost"} : rqFate' = [rqFate EXCEPT ![r] = f]
      BY <2>1, <2>2
    <2>4. r \in RqReadings /\ rqFate[r] = "held"
      BY <1>0, <2>2 DEF RqItems, RqPipeInv
    <2>5. Len(rqQueue') <= RqQueueBound
      <3>1. /\ Len(rqQueue) \in Nat /\ Len(rqQueue) <= RqQueueBound /\ RqQueueBound \in Nat
            /\ Len(Tail(rqQueue)) = Len(rqQueue) - 1
        BY <1>0, <1>4, RequestAssumption DEF RequestTypeOK
      <3> QED BY <2>1, <3>1
    <2>6. \A i \in DOMAIN rqQueue' : rqQueue'[i].reading # r /\ rqQueue'[i].reading \in RqReadings
      <3>1. \A i \in DOMAIN rqQueue' : rqQueue'[i] \in RqItems BY <2>2
      <3> QED BY <1>0, <2>2, <3>1 DEF RqPipeInv, RqItems
    <2>7. \A t \in RqThreads : RqInHand(t) => rqThread[t].reading # r
      BY <1>0, <2>2 DEF RqPipeInv
    <2> HIDE DEF r, item
    <2>8. rqFate' \in [RqReadings -> FateType] /\ \A x \in RqReadings : x # r => rqFate'[x] = rqFate[x]
      BY <1>0, <2>3, <2>4 DEF FateType
    <2>9. RequestTypeOK'
      BY <1>0, <2>2, <2>5, <2>8, RqTypes DEF RequestTypeOK, RqItems, FateType
    <2>10. \A i, j \in DOMAIN rqQueue' : rqQueue'[i].reading = rqQueue'[j].reading => i = j
      <3> SUFFICES ASSUME NEW i \in DOMAIN rqQueue', NEW j \in DOMAIN rqQueue',
                          rqQueue'[i].reading = rqQueue'[j].reading
                   PROVE i = j
        OBVIOUS
      <3>1. i \in Nat /\ j \in Nat BY <2>2
      <3>2. i + 1 = j + 1 BY <1>0, <2>2 DEF RqPipeInv
      <3> QED BY <3>1, <3>2
    <2>11. \A i \in DOMAIN rqQueue' : rqFate'[rqQueue'[i].reading] = "held"
      BY <1>0, <2>2, <2>6, <2>8 DEF RqPipeInv
    <2>12. \A t \in RqThreads : RqInHand(t) =>
             rqThread[t].reading \in RqReadings /\ rqFate'[rqThread[t].reading] = "held"
      BY <1>0, <2>7, <2>8 DEF RqPipeInv
    <2>13. \A t \in RqThreads : RqInHand(t)' <=> RqInHand(t) BY <1>0 DEF RqInHand
    <2>14. RqPipeInv'
      BY <1>0, <2>2, <2>10, <2>11, <2>12, <2>13 DEF RqPipeInv
    <2>15. [RqGateway!ContractNext]_(RqGateway!contractVars)
      BY <1>0, <1>1, <2>3, <2>4, RqSettles
    <2> QED BY <1>2, <2>9, <2>14, <2>15 DEF RqInv
  <1> QED BY <1>3, <1>4

(* The steps of one request's thread that move no reading.                     *)
LEMMA RqThreadSteps ==
  ASSUME RqInv, NEW t \in RqThreads,
         \/ RqBegin(t) \/ RqNoAnswer(t)
         \/ RqSubRequest(t) /\ UNCHANGED rqFate
  PROVE  RqInv' /\ [RqGateway!ContractNext]_(RqGateway!contractVars)
  <1>0. /\ RequestTypeOK /\ RqLifeInv /\ rqThread \in [RqThreads -> RqThreadType]
        /\ rqThread[t] \in RqThreadType
        /\ UNCHANGED <<rqLife, rqRound, rqQueue, rqFate, rqCall>> /\ rqDue' \subseteq rqDue
    BY RqTypes DEF RqInv, RqBegin, RqNoAnswer, RqSubRequest
  <1>1. rqThread[t].pc \in {"born", "sending", "sub"}
    BY DEF RqBegin, RqNoAnswer, RqSubRequest
  <1>2. rqLife # "new" /\ rqLife # "closed" BY <1>0, <1>1 DEF RqLifeInv
  <1>3. RqIdle \in RqThreadType BY DEF RqIdle, RqThreadType
  <1>4. \E d \in RqThreadType :
          /\ rqThread' = [rqThread EXCEPT ![t] = d]
          /\ d.pc \in {"sub", "convert"} => RqInHand(t) /\ d.reading = rqThread[t].reading
    <2>1. CASE rqThread' = [rqThread EXCEPT ![t] = RqIdle]
      BY <1>3, <2>1 DEF RqIdle
    <2>2. CASE RqBegin(t) /\ rqThread' = [rqThread EXCEPT ![t] = [@ EXCEPT !.pc = "sending"]]
      <3> DEFINE d == [rqThread[t] EXCEPT !.pc = "sending"]
      <3>1. d \in RqThreadType /\ d.pc = "sending" BY <1>0 DEF RqThreadType
      <3>2. rqThread' = [rqThread EXCEPT ![t] = d] BY <1>0, <2>2
      <3> QED BY <3>1, <3>2
    <2>3. CASE RqSubRequest(t) /\ rqThread' = [rqThread EXCEPT ![t].pc = "convert"]
      <3> DEFINE d == [rqThread[t] EXCEPT !.pc = "convert"]
      <3>1. d \in RqThreadType /\ d.reading = rqThread[t].reading BY <1>0 DEF RqThreadType
      <3>2. rqThread' = [rqThread EXCEPT ![t] = d] BY <1>0, <2>3
      <3>3. RqInHand(t) BY <2>3 DEF RqSubRequest, RqInHand
      <3> QED BY <3>1, <3>2, <3>3
    <2> QED BY <2>1, <2>2, <2>3 DEF RqBegin, RqNoAnswer, RqSubRequest
  <1>5. RqInv' BY <1>0, <1>2, <1>4, RqThreadMoves
  <1> QED BY <1>0, <1>5 DEF RqGateway!contractVars

(* An answer is one reading that was not read before.                          *)
LEMMA RqAnswerStep ==
  ASSUME RqInv, NEW t \in RqThreads, NEW r \in RqReadings, RqAnswer(t, r)
  PROVE  RqInv' /\ [RqGateway!ContractNext]_(RqGateway!contractVars)
  <1>0. /\ RequestTypeOK /\ RqPipeInv /\ RqLifeInv /\ rqThread \in [RqThreads -> RqThreadType]
        /\ rqThread[t] \in RqThreadType /\ rqFate \in [RqReadings -> FateType]
        /\ rqQueue \in Seq(RqItems) /\ rqThread[t].pc = "sending" /\ rqFate[r] = "unread"
        /\ rqFate' = [rqFate EXCEPT ![r] = "held"]
        /\ rqThread' = [rqThread EXCEPT ![t].reading = r, ![t].pc = "sub"]
        /\ UNCHANGED <<rqLife, rqRound, rqDue, rqQueue, rqCall>>
    BY RqTypes DEF RqInv, RqAnswer
  <1>1. rqLife \in {"running", "stopping"} BY <1>0 DEF RequestTypeOK, RqLifeInv
  <1>2. /\ rqFate' \in [RqReadings -> FateType] /\ rqFate'[r] = "held"
        /\ \A x \in RqReadings : rqFate[x] = "held" => rqFate'[x] = "held" /\ x # r
    BY <1>0 DEF FateType
  <1> DEFINE d == [rqThread[t] EXCEPT !.reading = r, !.pc = "sub"]
  <1>3. d \in RqThreadType /\ d.reading = r /\ d.pc = "sub" BY <1>0 DEF RqThreadType
  <1>4. rqThread' = [rqThread EXCEPT ![t] = d] BY <1>0
  <1> HIDE DEF d
  <1>5. rqThread' \in [RqThreads -> RqThreadType] BY <1>0, <1>3, <1>4
  <1>6. RequestTypeOK'
    BY <1>0, <1>2, <1>5, RqTypes DEF RequestTypeOK, RqThreadType, FateType
  <1>7. /\ rqThread'[t].reading = r /\ RqInHand(t)'
        /\ \A u \in RqThreads : u # t => rqThread'[u] = rqThread[u] /\ (RqInHand(u)' <=> RqInHand(u))
    BY <1>0, <1>3, <1>4 DEF RqInHand
  <1>8. /\ \A u \in RqThreads : RqInHand(u) => /\ rqThread[u].reading \in RqReadings
                                               /\ rqThread[u].reading # r
                                               /\ rqFate'[rqThread[u].reading] = "held"
        /\ \A i \in DOMAIN rqQueue : rqQueue[i].reading # r /\ rqFate'[rqQueue[i].reading] = "held"
    <2>1. \A i \in DOMAIN rqQueue : rqQueue[i] \in RqItems BY <1>0
    <2>2. \A i \in DOMAIN rqQueue : rqQueue[i].reading \in RqReadings BY <2>1 DEF RqItems
    <2> QED BY <1>0, <1>2, <2>2 DEF RqPipeInv
  <1>9. RqPipeInv' BY <1>0, <1>2, <1>7, <1>8 DEF RqPipeInv
  <1>10. RqLifeInv' BY <1>0, <1>1 DEF RqLifeInv
  <1>11. RqGateway!Take(r) BY <1>0, <1>1 DEF RqGateway!Take, RqGateway!Alive
  <1> QED BY <1>6, <1>9, <1>10, <1>11 DEF RqInv, RqGateway!ContractNext

(* A thread lets go of its reading, which is lost ...                          *)
LEMMA RqLetsGo ==
  ASSUME RqInv, NEW t \in RqThreads, RqInHand(t), rqThread' = [rqThread EXCEPT ![t] = RqIdle],
         rqFate' = [rqFate EXCEPT ![rqThread[t].reading] = "lost"], rqLife # "closed",
         UNCHANGED <<rqLife, rqRound, rqDue, rqQueue, rqCall>>
  PROVE  RqInv' /\ [RqGateway!ContractNext]_(RqGateway!contractVars)
  <1> DEFINE r == rqThread[t].reading
  <1>0. /\ RequestTypeOK /\ RqPipeInv /\ RqLifeInv /\ rqThread \in [RqThreads -> RqThreadType]
        /\ rqFate \in [RqReadings -> FateType] /\ rqQueue \in Seq(RqItems)
    BY RqTypes DEF RqInv
  <1>1. rqLife \in {"running", "stopping"} BY <1>0 DEF RequestTypeOK, RqLifeInv, RqInHand
  <1>2. r \in RqReadings /\ rqFate[r] = "held" BY <1>0 DEF RqPipeInv
  <1>3. \A u \in RqThreads : RqInHand(u)' => /\ RqInHand(u) /\ rqThread'[u] = rqThread[u]
                                             /\ rqThread[u].reading # r
    BY <1>0 DEF RqInHand, RqIdle, RqPipeInv
  <1>4. \A i \in DOMAIN rqQueue : rqQueue[i].reading # r /\ rqQueue[i].reading \in RqReadings
    <2>1. \A i \in DOMAIN rqQueue : rqQueue[i] \in RqItems BY <1>0
    <2>2. \A i \in DOMAIN rqQueue : rqQueue[i].reading \in RqReadings BY <2>1 DEF RqItems
    <2> QED BY <1>0, <2>2 DEF RqPipeInv
  <1>5. rqFate' = [rqFate EXCEPT ![r] = "lost"] OBVIOUS
  <1> HIDE DEF r
  <1>6. rqFate' \in [RqReadings -> FateType] /\ \A x \in RqReadings : x # r => rqFate'[x] = rqFate[x]
    BY <1>0, <1>5 DEF FateType
  <1>7. RequestTypeOK'
    <2>1. RqIdle \in RqThreadType BY DEF RqIdle, RqThreadType
    <2>2. rqThread' \in [RqThreads -> RqThreadType] BY <1>0, <2>1
    <2> QED BY <1>0, <1>6, <2>2, RqTypes DEF RequestTypeOK, RqThreadType, FateType
  <1>8. RqPipeInv' BY <1>0, <1>3, <1>4, <1>6 DEF RqPipeInv
  <1>9. RqLifeInv' BY <1>1 DEF RqLifeInv
  <1> QED BY <1>0, <1>1, <1>2, <1>5, <1>7, <1>8, <1>9, RqSettles DEF RqInv

(* ... or waits in the queue.                                                  *)
LEMMA RqPuts ==
  ASSUME RqInv, NEW t \in RqThreads, RqInHand(t), rqThread' = [rqThread EXCEPT ![t] = RqIdle],
         NEW c \in {"points", "empty"}, Len(rqQueue) < RqQueueBound,
         rqQueue' = Append(rqQueue, [reading |-> rqThread[t].reading, converted |-> c]),
         UNCHANGED <<rqLife, rqRound, rqDue, rqFate, rqCall>>
  PROVE  RqInv' /\ [RqGateway!ContractNext]_(RqGateway!contractVars)
  <1> DEFINE r == rqThread[t].reading
             x == [reading |-> r, converted |-> c]
  <1>0. /\ RequestTypeOK /\ RqPipeInv /\ RqLifeInv /\ rqThread \in [RqThreads -> RqThreadType]
        /\ rqFate \in [RqReadings -> FateType] /\ rqQueue \in Seq(RqItems)
    BY RqTypes DEF RqInv
  <1>1. r \in RqReadings /\ rqFate[r] = "held" BY <1>0 DEF RqPipeInv
  <1>2. x \in RqItems /\ x.reading = r /\ rqQueue' = Append(rqQueue, x) BY <1>1 DEF RqItems
  <1>3. \A u \in RqThreads : RqInHand(u)' => /\ RqInHand(u) /\ rqThread'[u] = rqThread[u]
                                             /\ rqThread[u].reading # r
    BY <1>0 DEF RqInHand, RqIdle, RqPipeInv
  <1>4. \A i \in DOMAIN rqQueue : rqQueue[i].reading # r
    BY <1>0 DEF RqPipeInv
  <1> HIDE DEF r, x
  <1>5. /\ rqQueue' \in Seq(RqItems) /\ Len(rqQueue) + 1 \notin DOMAIN rqQueue
        /\ \A i \in DOMAIN rqQueue' : \/ i \in DOMAIN rqQueue /\ rqQueue'[i] = rqQueue[i]
                                      \/ i = Len(rqQueue) + 1 /\ rqQueue'[i] = x
    BY <1>0, <1>2, AppendParts
  <1>6. Len(rqQueue') <= RqQueueBound
    BY <1>0, <1>2, RequestAssumption
  <1>7. RequestTypeOK'
    <2>1. RqIdle \in RqThreadType BY DEF RqIdle, RqThreadType
    <2>2. rqThread' \in [RqThreads -> RqThreadType] BY <1>0, <2>1
    <2> QED BY <1>0, <1>5, <1>6, <2>2, RqTypes DEF RequestTypeOK, RqThreadType, RqItems
  <1>8. RqPipeInv'
    <2>1. \A i, j \in DOMAIN rqQueue' : rqQueue'[i].reading = rqQueue'[j].reading => i = j
      BY <1>0, <1>2, <1>4, <1>5 DEF RqPipeInv
    <2>2. \A i \in DOMAIN rqQueue' : rqFate[rqQueue'[i].reading] = "held"
      BY <1>0, <1>1, <1>2, <1>5 DEF RqPipeInv
    <2>3. \A u \in RqThreads, i \in DOMAIN rqQueue' :
            RqInHand(u)' => rqThread[u].reading # rqQueue'[i].reading
      BY <1>0, <1>2, <1>3, <1>5 DEF RqPipeInv
    <2> QED BY <1>0, <1>3, <2>1, <2>2, <2>3 DEF RqPipeInv
  <1>9. RqLifeInv'
    BY <1>0 DEF RqLifeInv, RqIdle, RqInHand
  <1> QED BY <1>7, <1>8, <1>9 DEF RqInv, RqGateway!contractVars

(* A step of a request's thread.                                               *)
LEMMA RqSenderStep ==
  ASSUME RqInv, NEW t \in RqThreads, RqSender(t)
  PROVE  RqInv' /\ [RqGateway!ContractNext]_(RqGateway!contractVars)
  <1>1. CASE RqBegin(t) \/ RqNoAnswer(t) BY <1>1, RqThreadSteps
  <1>2. CASE \E r \in RqReadings : RqAnswer(t, r) BY <1>2, RqAnswerStep
  <1>3. CASE RqSubRequest(t)
    <2>1. CASE UNCHANGED rqFate BY <1>3, <2>1, RqThreadSteps
    <2>2. CASE ~UNCHANGED rqFate
      <3>1. /\ RqInHand(t) /\ rqThread' = [rqThread EXCEPT ![t] = RqIdle] /\ rqLife # "closed"
            /\ rqFate' = [rqFate EXCEPT ![rqThread[t].reading] = "lost"]
            /\ UNCHANGED <<rqLife, rqRound, rqDue, rqQueue, rqCall>>
        BY <1>3, <2>2 DEF RqSubRequest, RqInHand, RqInv, RqLifeInv
      <3> QED BY <3>1, RqLetsGo
    <2> QED BY <2>1, <2>2
  <1>4. CASE RqConvert(t)
    <2>0. /\ RqInHand(t) /\ rqThread' = [rqThread EXCEPT ![t] = RqIdle]
          /\ UNCHANGED <<rqLife, rqRound, rqDue, rqCall>>
      BY <1>4 DEF RqConvert, RqInHand
    <2>1. \/ \E c \in {"points", "empty"} :
               /\ Len(rqQueue) < RqQueueBound /\ UNCHANGED rqFate
               /\ rqQueue' = Append(rqQueue, [reading |-> rqThread[t].reading, converted |-> c])
          \/ /\ rqLife # "closed" /\ UNCHANGED rqQueue
             /\ rqFate' = [rqFate EXCEPT ![rqThread[t].reading] = "lost"]
      BY <1>4 DEF RqConvert, RqConversions
    <2> QED BY <2>0, <2>1, RqLetsGo, RqPuts
  <1> QED BY <1>1, <1>2, <1>3, <1>4 DEF RqSender

(* A call changes nothing but itself, and is seen when it is made and when it  *)
(* returns.                                                                    *)
LEMMA RqCallSteps ==
  ASSUME RequestTypeOK, NEW q \in RqCalls,
         RqCaller(q) \/ RqSent(q) \/ \E kind \in RqKinds : RqAsk(q, kind)
  PROVE  /\ UNCHANGED <<rqLife, rqRound, rqDue, rqThread, rqQueue, rqFate>>
         /\ rqCall' \in [RqCalls -> RqCallType]
         /\ \A p \in RqCalls : p # q => rqCall'[p].caller = rqCall[p].caller
         /\ \/ rqCall'[q].caller = rqCall[q].caller
            \/ rqLife # "new" /\ rqCall[q].caller = "none" /\ rqCall'[q].caller = "open"
            \/ rqCall[q].caller = "open" /\ rqCall'[q].caller \in {"ok", "error"}
  <1>0. rqCall \in [RqCalls -> RqCallType] /\ rqCall[q] \in RqCallType
    BY RqTypes
  <1>1. UNCHANGED <<rqLife, rqRound, rqDue, rqThread, rqQueue, rqFate>>
    BY DEF RqCaller, RqSent, RqAsk, RqNoMatch, RqBadParams, RqNotConverted, RqExecute, RqJoined,
           RqTimeout, RqNextUpdate, RqReturns
  <1> DEFINE Goal == /\ rqCall' \in [RqCalls -> RqCallType]
                     /\ \A p \in RqCalls : p # q => rqCall'[p].caller = rqCall[p].caller
                     /\ \/ rqCall'[q].caller = rqCall[q].caller
                        \/ rqLife # "new" /\ rqCall[q].caller = "none" /\ rqCall'[q].caller = "open"
                        \/ rqCall[q].caller = "open" /\ rqCall'[q].caller \in {"ok", "error"}
  <1> SUFFICES Goal
    BY <1>1
  <1>2. ASSUME NEW told \in {"ok", "error"}, RqReturns(q, told) PROVE Goal
    BY <1>0, <1>2 DEF RqReturns, RqCallType
  <1>3. CASE RqExecute(q)
    <2> DEFINE d == [rqCall[q] EXCEPT !.task = "sending", !.left = rqCall[q].left - 1]
    <2>1. rqCall[q].left \in 0 .. RqMatches /\ rqCall[q].left > 0 /\ RqMatches \in Nat
      BY <1>0, <1>3, RequestAssumption DEF RqExecute, RqCallType
    <2>2. rqCall[q].left - 1 \in 0 .. RqMatches
      BY <2>1
    <2>3. d \in RqCallType /\ d.caller = rqCall[q].caller
      BY <1>0, <2>2 DEF RqCallType
    <2>4. rqCall' = [rqCall EXCEPT ![q] = d]
      BY <1>0, <1>3 DEF RqExecute
    <2> HIDE DEF d
    <2> QED BY <1>0, <2>3, <2>4
  <1>4. CASE RqSent(q) \/ RqNextUpdate(q)
    <2>1. PICK o \in {"answer", "nothing", "none"} : rqCall' = [rqCall EXCEPT ![q].task = o]
      BY <1>4 DEF RqSent, RqNextUpdate
    <2> QED BY <1>0, <2>1 DEF RqCallType
  <1>5. ASSUME NEW kind \in RqKinds, RqAsk(q, kind) PROVE Goal
    <2>1. RqMatches \in Nat \ {0} BY RequestAssumption
    <2>2. \E n \in 0 .. RqMatches :
            rqCall' = [rqCall EXCEPT ![q] =
                         [kind |-> kind, left |-> n, task |-> "none", caller |-> "open"]]
      <3>1. 1 \in 0 .. RqMatches /\ 0 \in 0 .. RqMatches BY <2>1
      <3>2. CASE kind = "attribute" BY <1>5, <3>2 DEF RqAsk
      <3>3. CASE kind = "device" BY <1>5, <3>1, <3>3 DEF RqAsk
      <3>4. CASE kind # "attribute" /\ kind # "device"
        BY <1>5, <3>1, <3>4 DEF RqAsk
      <3> QED BY <3>2, <3>3, <3>4
    <2>3. PICK n \in 0 .. RqMatches :
            rqCall' = [rqCall EXCEPT ![q] =
                         [kind |-> kind, left |-> n, task |-> "none", caller |-> "open"]]
      BY <2>2
    <2> DEFINE d == [kind |-> kind, left |-> n, task |-> "none", caller |-> "open"]
    <2>4. d \in RqCallType /\ d.caller = "open" BY <2>3 DEF RqCallType
    <2>5. rqLife # "new" /\ rqCall[q].caller = "none" /\ rqCall' = [rqCall EXCEPT ![q] = d]
      BY <1>5, <2>3 DEF RqAsk
    <2> HIDE DEF d
    <2> QED BY <1>0, <2>4, <2>5
  <1>6. CASE RqNoMatch(q) \/ RqBadParams(q) \/ RqNotConverted(q) \/ RqTimeout(q)
    BY <1>2, <1>6 DEF RqNoMatch, RqBadParams, RqNotConverted, RqTimeout
  <1>7. CASE RqJoined(q)
    BY <1>2, <1>7 DEF RqJoined, RqTold
  <1> QED BY <1>3, <1>4, <1>5, <1>6, <1>7 DEF RqCaller

(* Every step keeps the invariant and is a step of the contract.               *)
LEMMA RqStep ==
  ASSUME RqInv, [RequestNext]_rqVars
  PROVE  RqInv' /\ [RqGateway!ContractNext]_(RqGateway!contractVars)
  <1> DEFINE Goal == RqInv' /\ [RqGateway!ContractNext]_(RqGateway!contractVars)
  <1> SUFFICES Goal
    OBVIOUS
  <1>0. RequestTypeOK /\ RqPipeInv /\ RqLifeInv BY DEF RqInv
  <1>1. ASSUME UNCHANGED <<rqThread, rqQueue, rqFate>> PROVE RqPipeInv'
    BY <1>0, <1>1 DEF RqPipeInv, RqInHand
  <1>2. CASE UNCHANGED rqVars
    BY <1>0, <1>1, <1>2 DEF rqVars, RqInv, RequestTypeOK, RqLifeInv, RqGateway!contractVars
  <1>3. CASE RqOpen
    <2>1. RequestTypeOK' /\ RqLifeInv' BY <1>0, <1>3 DEF RqOpen, RequestTypeOK, RqLifeInv
    <2>2. RqGateway!Open BY <1>3 DEF RqOpen, RqGateway!Open
    <2> QED BY <1>1, <1>3, <2>1, <2>2 DEF RqOpen, RqInv, RqGateway!ContractNext
  <1>4. CASE RqStop
    <2>1. RequestTypeOK' /\ RqLifeInv' BY <1>0, <1>4 DEF RqStop, RequestTypeOK, RqLifeInv
    <2>2. RqGateway!Close BY <1>4 DEF RqStop, RqGateway!Close
    <2> QED BY <1>1, <1>4, <2>1, <2>2 DEF RqStop, RqInv, RqGateway!ContractNext
  <1>5. CASE RqSweep
    <2>1. RqInv' BY <1>5, RqSweepKeeps
    <2> QED BY <1>5, <2>1 DEF RqSweep, RqGateway!contractVars
  <1>6. CASE RqProcess BY <1>6, RqProcessStep
  <1>7. CASE RqRunEnds
    <2>1. RequestTypeOK' /\ RqLifeInv' BY <1>0, <1>7 DEF RqRunEnds, RequestTypeOK, RqLifeInv
    <2> QED BY <1>1, <1>7, <2>1 DEF RqRunEnds, RqInv, RqGateway!contractVars
  <1>8. CASE RqEnd
    <2>1. RequestTypeOK' /\ RqLifeInv' BY <1>0, <1>8 DEF RqEnd, RequestTypeOK, RqLifeInv
    <2>2. RqGateway!ThreadsEnd BY <1>8 DEF RqEnd, RqGateway!ThreadsEnd
    <2> QED BY <1>1, <1>8, <2>1, <2>2 DEF RqEnd, RqInv, RqGateway!ContractNext
  <1>9. ASSUME NEW e \in RqEndpoints, RqLater(e) PROVE Goal
    <2>1. RequestTypeOK' /\ RqLifeInv' BY <1>0, <1>9 DEF RqLater, RequestTypeOK, RqLifeInv
    <2> QED BY <1>1, <1>9, <2>1 DEF RqLater, RqInv, RqGateway!contractVars
  <1>10. ASSUME NEW t \in RqThreads, RqSender(t) PROVE Goal
    BY <1>10, RqSenderStep
  <1>11. ASSUME NEW q \in RqCalls,
                RqCaller(q) \/ RqSent(q) \/ \E kind \in RqKinds : RqAsk(q, kind)
         PROVE Goal
    <2>0. /\ UNCHANGED <<rqLife, rqRound, rqDue, rqThread, rqQueue, rqFate>>
          /\ rqCall' \in [RqCalls -> RqCallType]
          /\ \A p \in RqCalls : p # q => rqCall'[p].caller = rqCall[p].caller
          /\ \/ rqCall'[q].caller = rqCall[q].caller
             \/ rqLife # "new" /\ rqCall[q].caller = "none" /\ rqCall'[q].caller = "open"
             \/ rqCall[q].caller = "open" /\ rqCall'[q].caller \in {"ok", "error"}
      BY <1>0, <1>11, RqCallSteps
    <2>1. RqInv'
      <3>1. RequestTypeOK' BY <1>0, <2>0, RqTypes DEF RequestTypeOK, RqCallType
      <3>2. RqLifeInv' BY <1>0, <2>0 DEF RqLifeInv
      <3> QED BY <1>1, <2>0, <3>1, <3>2 DEF RqInv
    <2>2. DOMAIN rqCall = RqCalls /\ DOMAIN rqCall' = RqCalls BY <1>0, <2>0, RqTypes
    <2>3. CASE rqCall'[q].caller = rqCall[q].caller
      <3>1. Asks(rqCall') = Asks(rqCall) BY <2>0, <2>2, <2>3, AsksStay
      <3> QED BY <2>0, <2>1, <3>1 DEF RqGateway!contractVars, Asks
    <2>4. CASE rqLife # "new" /\ rqCall[q].caller = "none" /\ rqCall'[q].caller = "open"
      <3>1. Asks(rqCall)[q] = "none" /\ Asks(rqCall') = [Asks(rqCall) EXCEPT ![q] = "open"]
        BY <2>0, <2>2, <2>4, AsksOpen
      <3>2. RqGateway!Ask(q) BY <2>0, <2>4, <3>1 DEF RqGateway!Ask, Asks
      <3> QED BY <2>1, <3>2 DEF RqGateway!ContractNext
    <2>5. CASE rqCall[q].caller = "open" /\ rqCall'[q].caller \in {"ok", "error"}
      <3>1. Asks(rqCall)[q] = "open" /\ Asks(rqCall') = [Asks(rqCall) EXCEPT ![q] = "answered"]
        BY <2>0, <2>2, <2>5, AsksEnd
      <3>2. RqGateway!Answer(q) BY <2>0, <3>1 DEF RqGateway!Answer, Asks
      <3> QED BY <2>1, <3>2 DEF RqGateway!ContractNext
    <2> QED BY <2>0, <2>3, <2>4, <2>5
  <1> HIDE DEF Goal
  <1> QED BY <1>2, <1>3, <1>4, <1>5, <1>6, <1>7, <1>8, <1>9, <1>10, <1>11 DEF RequestNext

(* To the gateway the request connector is a connector: opened and closed      *)
(* once, each answer stored at most once and none after its loop and the       *)
(* threads of its requests have ended, each call made and answered once        *)
(* (request_connector.py).                                                     *)
THEOREM RequestRefinesContract == RequestInit /\ [][RequestNext]_rqVars => RqGatewaySafety
  <1>1. RequestInit => RqGateway!ContractInit
    BY DEF RequestInit, RqNoCall, Asks, Asked, RqGateway!ContractInit
  <1>2. RqInv /\ [RequestNext]_rqVars
          => RqInv' /\ [RqGateway!ContractNext]_(RqGateway!contractVars)
    BY RqStep
  <1> QED BY <1>1, <1>2, RqInvInit, PTL DEF RqGatewaySafety

-----------------------------------------------------------------------------
(* The types of the MQTT and the REST connector.                               *)

(* What MqttTypeOK says beyond the routing and the pipeline.                   *)
MqTypeInv ==
    /\ mqLife \in {"new", "running", "stopping", "closed"}
    /\ mqMain \in {"loop", "connect", "ended"} /\ mqMapped \subseteq Range(MqTopics)
    /\ Len(mqQueue) <= MqQueueBound /\ mqDevice \in BOOLEAN
    /\ mqCall \in [MqCalls -> {"none", "publishing", "waiting", "returned"}]

(* Nothing was mapped, queued or asked yet.                                    *)
LEMMA MqTypeInit == MqttInit => MqTypeInv
  <1> SUFFICES ASSUME MqttInit PROVE MqTypeInv
    OBVIOUS
  <1>1. mqQueue = <<>> /\ Len(mqQueue) = 0
    BY DEF MqttInit
  <1>2. Len(mqQueue) <= MqQueueBound
    BY <1>1, MqttAssumption
  <1>3. mqCall \in [MqCalls -> {"none", "publishing", "waiting", "returned"}]
    BY DEF MqttInit
  <1>4. mqLife = "new" /\ mqMain = "loop" /\ mqMapped = {} /\ mqDevice = FALSE
    BY DEF MqttInit
  <1> QED BY <1>2, <1>3, <1>4 DEF MqTypeInv

(* A call's step.                                                              *)
LEMMA MqCallTyped ==
  ASSUME MqTypeInv, NEW q \in MqCalls, MqRequest(q) \/ MqPublished(q)
  PROVE  MqTypeInv'
  <1>1. PICK s \in {"none", "publishing", "waiting", "returned"} : mqCall' = [mqCall EXCEPT ![q] = s]
    BY DEF MqRequest, MqUnhandled, MqOneWay, MqTwoWay, MqAttributeUpdate, MqPublished
  <1>2. UNCHANGED <<mqLife, mqMain, mqRouting, mqQueue, mqDevice>>
    BY DEF MqCallOnly, MqRequest, MqUnhandled, MqOneWay, MqTwoWay, MqAttributeUpdate, MqPublished
  <1> QED BY <1>1, <1>2 DEF MqTypeInv, mqRouting

(* A worker's step only shortens the queue.                                    *)
LEMMA MqWorkerTyped ==
  ASSUME MqTypeInv, MqPipeTypes, NEW w \in MqWorkers, MqTakeBatch(w) \/ MqWorker(w)
  PROVE  MqTypeInv'
  <1>1. UNCHANGED <<mqLife, mqMain, mqRouting, mqDevice, mqCall>>
    BY DEF MqWorkerOnly, MqTakeBatch, MqWorker, MqConvertItem, MqBatchFails, MqWorkerEnds
  <1>2. Len(mqQueue') <= MqQueueBound
    <2>1. CASE MqWorker(w)
      BY <2>1 DEF MqTypeInv, MqWorker, MqConvertItem, MqBatchFails, MqWorkerEnds
    <2>2. CASE MqTakeBatch(w)
      <3>1. PICK n \in 1..Len(mqQueue) : mqQueue' = SubSeq(mqQueue, n + 1, Len(mqQueue))
        BY <2>2 DEF MqTakeBatch
      <3>2. mqQueue \in Seq(MqReadings)
        BY DEF MqPipeTypes
      <3>3. Len(mqQueue') <= Len(mqQueue) /\ Len(mqQueue') \in Nat /\ Len(mqQueue) \in Nat
        BY <3>1, <3>2
      <3> QED BY <3>3, MqttAssumption DEF MqTypeInv
    <2> QED BY <2>1, <2>2
  <1> QED BY <1>1, <1>2 DEF MqTypeInv, mqRouting

(* The routing thread's steps: the queue grows only below its bound.           *)
LEMMA MqRouterTyped ==
  ASSUME MqTypeInv, MqPipeTypes, MqMatch \/ MqRoute
  PROVE  MqTypeInv'
  <1>1. UNCHANGED <<mqLife, mqMain, mqRouting, mqCall>>
    BY DEF MqRouterOnly, MqMatch, MqRoute
  <1>2. Len(mqQueue') <= MqQueueBound
    <2>1. mqQueue \in Seq(MqReadings)
      BY DEF MqPipeTypes
    <2>2. CASE mqQueue' = mqQueue
      BY <2>2 DEF MqTypeInv
    <2>3. CASE Len(mqQueue) < MqQueueBound /\ mqQueue' = Append(mqQueue, mqReader.message.reading)
      BY <2>1, <2>3, MqttAssumption
    <2> QED BY <2>2, <2>3 DEF MqMatch, MqRoute
  <1>3. mqDevice' \in BOOLEAN
    BY DEF MqTypeInv, MqMatch, MqRoute, MqRequested, MqProcessConnect, MqProcessDisconnect
  <1> QED BY <1>1, <1>2, <1>3 DEF MqTypeInv, mqRouting

(* Every step of the connector.                                                *)
LEMMA MqTypeStep == MqInv /\ MqTypeInv /\ [MqttNext]_mqVars => MqTypeInv'
  <1> SUFFICES ASSUME MqInv, MqTypeInv, [MqttNext]_mqVars PROVE MqTypeInv'
    OBVIOUS
  <1>0. MqPipeTypes
    BY DEF MqInv, MqPipeInv
  <1>1. CASE MqOpen \/ MqReconnect \/ MqConnectDone \/ MqManageThreads \/ MqDisconnected
    BY <1>1 DEF MqOpen, MqReconnect, MqConnectDone, MqManageThreads, MqDisconnected, MqTypeInv, mqRouting
  <1>2. CASE MqOnConnect \/ MqSetupEnds \/ MqOnMessage
    BY <1>2 DEF MqOnConnect, MqSetupEnds, MqOnMessage, MqTypeInv, mqRouting
  <1>3. CASE MqSetupTopic
    <2>1. mqTodo \in Seq(Range(MqTopics)) /\ mqTodo # <<>>
      BY <1>0, <1>3 DEF MqPipeTypes, RouteType, MqSetupTopic
    <2>2. Head(mqTodo) \in Range(MqTopics)
      BY <2>1
    <2>3. mqMapped' \in {mqMapped, mqMapped \cup {Head(mqTodo)}}
          /\ UNCHANGED <<mqLife, mqMain, mqQueue, mqDevice, mqCall>>
      BY <1>3 DEF MqSetupTopic
    <2> QED BY <2>2, <2>3 DEF MqTypeInv
  <1>4. CASE MqClose \/ MqMainEnds
    BY <1>4 DEF MqClose, MqMainEnds, MqTypeInv, mqRouting
  <1>5. CASE MqEnd
    BY <1>5, MqttAssumption DEF MqEnd, MqTypeInv, mqRouting
  <1>6. CASE UNCHANGED mqVars
    BY <1>6 DEF mqVars, mqRouting, MqTypeInv
  <1> QED BY <1>0, <1>1, <1>2, <1>3, <1>4, <1>5, <1>6, MqRouterTyped, MqWorkerTyped, MqCallTyped DEF MqttNext

(* The invariants give the types.                                              *)
LEMMA MqShaped == MqInv /\ MqTypeInv => MqttTypeOK
  BY DEF MqInv, MqPipeInv, MqPipeTypes, MqWorkType, RouteType, FateType, MqTypeInv, MqttTypeOK

(* At most one request waits for a response.                                   *)
RsOneWaits == \A r, s \in RsReadings : rsRequest[r] = "waiting" /\ rsRequest[s] = "waiting" => r = s

(* What RestTypeOK says beyond the invariant of the refinement.                *)
RsTypeInv ==
    /\ rsServer \in {"none", "starting", "serving", "dead"}
    /\ rsReplies \in 0 .. RsReplyBound /\ RsOneWaits
    /\ rsCall \in [RsCalls -> [kind : {"none", "reserved", "device"}, left : 0 .. RsMatches,
                               caller : {"none", "open", "error"}]]

(* Nothing came in yet.                                                        *)
LEMMA RsTypeInit == RestInit => RsTypeInv
  BY RestAssumption DEF RestInit, RsTypeInv, RsOneWaits, RsNoCall

(* A handler's step: only RsHandle lets a request wait, and only while the     *)
(* server serves, which is while none waits.                                   *)
LEMMA RsHandlerTyped ==
  ASSUME RsInv, RsTypeInv, NEW r \in RsReadings, RsReceive(r) \/ RsNoBody(r) \/ RsHandle(r) \/ RsRespond(r)
  PROVE  RsTypeInv'
  <1>0. rsRequest \in [RsReadings -> {"none", "body", "waiting", "done"}] /\ UNCHANGED <<rsServer, rsCall>>
    BY DEF RsInv, RsTypes, RsReceive, RsNoBody, RsHandle, RsRespond
  <1>1. (rsReplies \in 0 .. RsReplyBound)'
    BY RestAssumption DEF RsTypeInv, RsReceive, RsNoBody, RsHandle, RsRespond
  <1>2. RsOneWaits'
    <2>1. CASE RsHandle(r)
      <3>1. \A s \in RsReadings : rsRequest[s] # "waiting"
        BY <2>1 DEF RsHandle, RsServes, RsBlocked
      <3>2. \A s \in RsReadings : s # r => rsRequest'[s] = rsRequest[s]
        BY <1>0, <2>1 DEF RsHandle
      <3> QED BY <3>1, <3>2 DEF RsOneWaits
    <2>2. CASE RsReceive(r) \/ RsNoBody(r) \/ RsRespond(r)
      <3>1. \A s \in RsReadings : rsRequest'[s] = "waiting" => rsRequest[s] = "waiting"
        BY <1>0, <2>2 DEF RsReceive, RsNoBody, RsRespond
      <3> QED BY <3>1 DEF RsTypeInv, RsOneWaits
    <2> QED BY <2>1, <2>2
  <1> QED BY <1>0, <1>1, <1>2 DEF RsTypeInv

(* A caller's step.                                                            *)
LEMMA RsCallerTyped ==
  ASSUME RsTypeInv, NEW q \in RsCalls, RsCaller(q) \/ \E kind \in {"reserved", "device"} : RsAsk(q, kind)
  PROVE  RsTypeInv'
  <1> DEFINE Call == [kind : {"none", "reserved", "device"}, left : 0 .. RsMatches,
                      caller : {"none", "open", "error"}]
  <1>0. UNCHANGED <<rsServer, rsReplies, rsRequest>> /\ rsCall \in [RsCalls -> Call]
    BY DEF RsTypeInv, RsCaller, RsSend, RsAllSent, RsUnformed, RsReturn, RsAsk
  <1>1. rsCall' \in [RsCalls -> Call]
    <2>1. CASE RsSend(q)
      <3>1. rsCall[q] \in Call /\ rsCall[q].left > 0 /\ rsCall[q].left \in 0 .. RsMatches
        BY <1>0, <2>1 DEF RsSend
      <3>2. rsCall[q].left - 1 \in 0 .. RsMatches
        BY <3>1, RestAssumption
      <3> QED BY <1>0, <2>1, <3>1, <3>2 DEF RsSend
    <2>2. CASE RsReturn(q)
      BY <1>0, <2>2 DEF RsReturn
    <2>3. ASSUME NEW kind \in {"reserved", "device"}, RsAsk(q, kind) PROVE rsCall' \in [RsCalls -> Call]
      <3>1. PICK n \in IF kind = "reserved" THEN {1} ELSE 0 .. RsMatches :
                 rsCall' = [rsCall EXCEPT ![q] = [kind |-> kind, left |-> n, caller |-> "open"]]
        BY <2>3 DEF RsAsk
      <3>2. n \in 0 .. RsMatches
        BY <3>1, RestAssumption
      <3> QED BY <1>0, <3>1, <3>2
    <2> QED BY <2>1, <2>2, <2>3 DEF RsCaller, RsAllSent, RsUnformed
  <1> QED BY <1>0, <1>1 DEF RsTypeInv, RsOneWaits

(* Every step of the connector.                                                *)
LEMMA RsTypeStep == RsInv /\ RsTypeInv /\ [RestNext]_rsVars => RsTypeInv'
  <1> SUFFICES ASSUME RsInv, RsTypeInv, [RestNext]_rsVars PROVE RsTypeInv'
    OBVIOUS
  <1>1. CASE RsOpen \/ RsRun \/ RsStop \/ RsAttributeUpdate
    BY <1>1, RestAssumption DEF RsTypeInv, RsOneWaits, RsOpen, RsRun, RsStop, RsAttributeUpdate
  <1>2. CASE RsEnd
    <2>1. \A s \in RsReadings : rsRequest'[s] = "waiting" => rsRequest[s] = "waiting"
      BY <1>2 DEF RsEnd
    <2> QED BY <1>2, <2>1 DEF RsEnd, RsTypeInv, RsOneWaits
  <1>3. CASE UNCHANGED rsVars
    BY <1>3 DEF rsVars, RsTypeInv, RsOneWaits
  <1> QED BY <1>1, <1>2, <1>3, RsHandlerTyped, RsCallerTyped DEF RestNext

(* The invariants give the types.                                              *)
LEMMA RsShaped == RsInv /\ RsTypeInv => RestTypeOK
  <1> SUFFICES ASSUME RsInv, RsTypeInv PROVE RestTypeOK
    OBVIOUS
  <1> DEFINE W == {r \in RsReadings : rsRequest[r] = "waiting"}
  <1>1. Cardinality(W) <= 1
    <2>1. CASE W = {}
      BY <2>1, FS_EmptySet
    <2>2. CASE W # {}
      <3>1. PICK r \in W : TRUE
        BY <2>2
      <3>2. W = {r}
        BY <3>1 DEF RsTypeInv, RsOneWaits
      <3> HIDE DEF W
      <3> QED BY <3>2, FS_Singleton
    <2> QED BY <2>1, <2>2
  <1> QED BY <1>1 DEF RsInv, RsTypes, RsTypeInv, RestTypeOK

=============================================================================
