------------------------------- MODULE RuntimeProofs ------------------------------
(* Proofs about the runtime coordinator, for any contexts, configurations and      *)
(* publications: what the operations of the arbiter keep, then how the events of   *)
(* the supervisor, in their order, let the contexts of a process outlive it only   *)
(* until their removal arrives.                                                    *)

EXTENDS Runtime, FiniteSetTheorems, SequenceTheorems, WellFoundedInduction, TLAPS

--------------------------------------------------------------------------------
(* The arbiter.                                                                    *)

ArbiterShape(arb) ==
  arb \in [contexts         : MapsOf(Keys, PublishedContext),
           activation       : {NoActivation} \cup [key : Keys, left : Lifetimes],
           held             : BOOLEAN,
           compact_default  : {Defaults["compact"]},
           expanded_default : {Defaults["expanded"]}]

\* A context is filed under its key; contexts that were instantiated by the same reload
\* are the only ones of the same age, and none is newer than the revision.
Ranked(arb, rev) ==
  /\ \A key \in Published(arb) : arb.contexts[key].key = key /\ arb.contexts[key].sequence <= rev
  /\ \A k, l \in Published(arb) :
       k # l /\ arb.contexts[k].sequence = arb.contexts[l].sequence
         => /\ k = Configured(k[1]) /\ arb.contexts[k].fallback_only
            /\ l = Configured(l[1]) /\ arb.contexts[l].fallback_only

Pinned(arb) == Activated(arb) => arb.activation.key \in Published(arb)

GoodArbiter(arb, rev) == ArbiterShape(arb) /\ Ranked(arb, rev) /\ Pinned(arb)

--------------------------------------------------------------------------------
(* The events on their way, and what the coordinator knows of the processes.       *)

Speech == {"ready", "publish", "data", "dismiss"}
EventRecord ==
  [kind : {"started", "removed"} \cup Speech, instance : Instances, generation : Nat,
   about : Publications \cup Keys \cup {NothingMore}]

\* An event of the instance i and its generation g is in the queue.
Queued(kind, i, g) ==
  \E n \in DOMAIN queue : queue[n].kind = kind /\ queue[n].instance = i /\ queue[n].generation = g

\* The process of a generation has ended.
HasEnded(i, g) == g < generation[i] \/ presence[i] = "absent"

Known(i, g) == i \in DOMAIN generations /\ generations[i] = g

\* Events of a process come in the order of its life, those of the next one after them.
Before(a, b) ==
  a.instance = b.instance
    => \/ a.generation < b.generation
       \/ a.generation = b.generation /\ a.kind # "removed" /\ b.kind # "started"

QueueOrdered == \A m, n \in DOMAIN queue : m < n => Before(queue[m], queue[n])

\* No event is older than what the coordinator knows, or newer than the processes.
QueueCurrent ==
  \A n \in DOMAIN queue :
    LET event == queue[n]
        i == event.instance
    IN  /\ i \in DOMAIN generations
             => \/ generations[i] < event.generation
                \/ generations[i] = event.generation /\ event.kind # "started"
        /\ event.generation <= generation[i]
        /\ event.generation = generation[i] /\ event.kind = "removed" => presence[i] = "absent"
        /\ event.generation = generation[i] /\ event.kind \in Speech => presence[i] # "starting"

\* What a process says follows its start, in the queue or before.
QueueAnnounced ==
  /\ \A n \in DOMAIN queue :
       queue[n].kind \in Speech
         => \/ Known(queue[n].instance, queue[n].generation)
            \/ \E m \in DOMAIN queue :
                 /\ m < n /\ queue[m].kind = "started" /\ queue[m].instance = queue[n].instance
                 /\ queue[m].generation = queue[n].generation
  /\ \A i \in Instances :
       presence[i] # "absent" => Known(i, generation[i]) \/ Queued("started", i, generation[i])

\* The removal of a process that has ended is on its way.
QueueEnds ==
  /\ \A n \in DOMAIN queue :
       LET event == queue[n]
       IN  event.kind # "removed" /\ HasEnded(event.instance, event.generation)
             => Queued("removed", event.instance, event.generation)
  /\ \A i \in DOMAIN generations :
       /\ generations[i] <= generation[i]
       /\ HasEnded(i, generations[i]) => Queued("removed", i, generations[i])

\* What an event is about.
QueueSays ==
  \A n \in DOMAIN queue :
    LET event == queue[n]
    IN  /\ event.kind = "publish" => event.about \in Publications /\ event.about.key[1] = event.instance
        /\ event.kind = "dismiss" => event.about \in Keys
        /\ event.kind = "data" => Configured(event.instance) \in Keys

EventsInv == QueueOrdered /\ QueueCurrent /\ QueueAnnounced /\ QueueEnds /\ QueueSays

--------------------------------------------------------------------------------
(* The contexts and the processes that they come from.                             *)

\* What a module published itself: a reload that changes a view instantiates it again, from
\* what a process that may have ended had sent.
Followed(key) == key # Configured(key[1])

\* The contexts that a refusal would bring back; with those that are there, they are at hand.
Waiting == {key \in DOMAIN pending : pending[key] # NoContext}

\* They come from a process whose removal the coordinator has not consumed.
Backed(key) ==
  LET i == key[1]
  IN  /\ i \in DOMAIN generations
      /\ presence[i] = "starting" => generations[i] < generation[i]

AtHand == Published(arbiter) \cup Waiting

BackedInv == \A key \in AtHand : Followed(key) => Backed(key)

ContextTypes ==
  /\ GoodArbiter(arbiter, revision) /\ revision \in Nat
  /\ DOMAIN pending \subseteq Keys
  /\ \A key \in Waiting : pending[key] \in PublishedContext /\ pending[key].key = key
  /\ DOMAIN accepted \subseteq Keys

ProcessTypes ==
  /\ config \in Configurations
  /\ snapshots \subseteq {i \in Instances : Configured(i) \in Keys} /\ ready \subseteq Instances
  /\ DOMAIN generations \subseteq Instances /\ generations \in [DOMAIN generations -> Nat]
  /\ visibility \in MapsOf(Instances, Slots \cup {"hidden"})
  /\ presence \in [Instances -> {"absent", "starting", "running"}]
  /\ generation \in [Instances -> Nat]
  /\ queue \in Seq(EventRecord)
  /\ seen \in [Instances -> Slots \cup {"hidden", "untold"}]

TypesInv == ContextTypes /\ ProcessTypes

RuntimeInv == TypesInv /\ EventsInv /\ BackedInv

--------------------------------------------------------------------------------
(* What the processes are told.                                                    *)

\* What is known of an instance is of a process that became ready.
Heard(i) ==
  /\ i \in DOMAIN generations
  /\ presence[i] = "starting" => generations[i] < generation[i]

HeardInv == \A i \in ready \cup DOMAIN visibility : Heard(i)

\* The process runs, no reload replaces it, and the coordinator has heard that it is ready.
Settled(i) ==
  presence[i] = "running" /\ i \notin orders /\ ~Queued("ready", i, generation[i])

ReadyInv == \A i \in Instances : Settled(i) => i \in ready /\ Known(i, generation[i])

\* The supervisor follows the configuration but for what it has been ordered.
SupervisedInv ==
  \A i \in Instances :
    /\ i \notin orders => (i \in supervised <=> config[i].enabled)
    /\ presence[i] # "absent" => i \in supervised

\* The visibility that is on record is the one that the process was told.
SyncedInv ==
  \A i \in DOMAIN visibility :
    presence[i] = "running" /\ Known(i, generation[i]) => seen[i] = visibility[i]

\* Between frames there is one on record for every settled process, and one is on show.
ToldInv ==
  phase = "start" =>
    /\ \A i \in Instances : Settled(i) => i \in DOMAIN visibility
    /\ \A i, j \in Instances :
         Settled(i) /\ Settled(j) /\ visibility[i] # "hidden" /\ visibility[j] # "hidden" => i = j

TellingInv == HeardInv /\ ReadyInv /\ SupervisedInv /\ SyncedInv /\ ToldInv

--------------------------------------------------------------------------------
(* Numbers, maps and the best of a set.                                            *)

LEMMA LeastNumber ==
  ASSUME NEW T \in SUBSET Nat, T # {}
  PROVE  \E least \in T : \A n \in T : least <= n
<1> DEFINE R == OpToRel(<, Nat)
<1>1. IsWellFoundedOn(R, Nat)
  BY NatLessThanWellFounded
<1>2. \A m, n \in Nat : m < n => <<m, n>> \in R
  BY DEF OpToRel
<1> HIDE DEF R
<1>3. PICK least \in T : \A n \in T : <<n, least>> \notin R
  BY <1>1, WFMin
<1>4. \A n \in T : ~(n < least)
  BY <1>2, <1>3
<1> QED
  BY <1>4

LEMMA MapsAre ==
  ASSUME NEW K, NEW V, NEW map \in MapsOf(K, V)
  PROVE  DOMAIN map \in SUBSET K /\ map \in [DOMAIN map -> V]
  BY DEF MapsOf

LEMMA IsMap ==
  ASSUME NEW K, NEW V, NEW D \in SUBSET K, NEW map \in [D -> V]
  PROVE  map \in MapsOf(K, V)
  BY DEF MapsOf

LEMMA OutrankingOrders ==
  ASSUME NEW a, NEW b, NEW c, {a.priority, b.priority, c.priority} \subseteq Int,
         {a.sequence, b.sequence, c.sequence} \subseteq Int
  PROVE  /\ a.sequence # b.sequence => Outranks(a, b) \/ Outranks(b, a)
         /\ Outranks(a, b) /\ Outranks(b, c) => Outranks(a, c)
  BY DEF Outranks

\* A finite set of contexts of different ages has a best one.
LEMMA BestExists ==
  ASSUME NEW S, IsFiniteSet(S), S # {},
         \A a \in S : a.priority \in Int /\ a.sequence \in Int,
         \A a, b \in S : a # b => a.sequence # b.sequence
  PROVE  \E best \in S : \A other \in S \ {best} : Outranks(best, other)
<1> DEFINE HasBest(T) == \E best \in T : \A other \in T \ {best} : Outranks(best, other)
           Bestless == {T \in SUBSET S : T # {} /\ ~HasBest(T)}
           Sizes == {Cardinality(T) : T \in Bestless}
<1>1. \A T \in SUBSET S : IsFiniteSet(T) /\ Cardinality(T) \in Nat
  BY FS_Subset, FS_CardinalityType
<1>2. Bestless = {}
  <2> SUFFICES ASSUME Bestless # {} PROVE FALSE
    OBVIOUS
  <2>1. Sizes \in SUBSET Nat /\ Sizes # {}
    BY <1>1
  <2>2. PICK least \in Sizes : \A size \in Sizes : least <= size
    BY <2>1, LeastNumber
  <2>3. PICK T \in Bestless : Cardinality(T) = least
    BY <2>2
  <2>4. T \in SUBSET S /\ T # {} /\ ~HasBest(T)
    BY <2>3
  <2>5. PICK x \in T : TRUE
    BY <2>4
  <2> DEFINE rest == T \ {x}
  <2>6. Cardinality(rest) = Cardinality(T) - 1 /\ Cardinality(T) \in Nat
    BY <1>1, <2>4, <2>5, FS_RemoveElement
  <2>7. rest \notin Bestless
    <3>1. \A size \in Sizes : size \in Nat /\ Cardinality(T) <= size
      BY <2>1, <2>2, <2>3
    <3>2. Cardinality(rest) \notin Sizes
      <4> HIDE DEF Sizes
      <4> QED
        BY <2>6, <3>1
    <3> QED
      BY <3>2
  <2>8. rest # {} /\ HasBest(rest)
    <3>1. rest # {}
      BY <2>4, <2>5
    <3> QED
      BY <2>4, <2>7, <3>1
  <2>9. PICK best \in rest : \A other \in rest \ {best} : Outranks(best, other)
    BY <2>8
  <2>10. best # x /\ best \in S /\ x \in S /\ best \in T
    BY <2>4, <2>5, <2>9
  <2>11. CASE Outranks(best, x)
    <3>1. \A other \in T \ {best} : Outranks(best, other)
      BY <2>9, <2>11
    <3> QED
      BY <2>4, <2>10, <3>1
  <2>12. CASE Outranks(x, best)
    <3>1. \A other \in T \ {x} : Outranks(x, other)
      BY <2>4, <2>9, <2>10, <2>12, OutrankingOrders
    <3> QED
      BY <2>4, <2>5, <3>1
  <2> QED
    BY <2>10, <2>11, <2>12, OutrankingOrders
<1> QED
  BY <1>2

LEMMA BestIsOne ==
  ASSUME NEW S, IsFiniteSet(S), S # {},
         \A a \in S : a.priority \in Int /\ a.sequence \in Int,
         \A a, b \in S : a # b => a.sequence # b.sequence
  PROVE  Best(S) \in S
  BY BestExists DEF Best

--------------------------------------------------------------------------------
(* What the operations of the arbiter keep.                                        *)

LEMMA ArbiterParts ==
  ASSUME NEW arb, ArbiterShape(arb)
  PROVE  /\ arb.contexts \in [Published(arb) -> PublishedContext] /\ Published(arb) \in SUBSET Keys
         /\ arb.activation \in {NoActivation} \cup [key : Keys, left : Lifetimes]
         /\ arb.held \in BOOLEAN
  BY MapsAre DEF ArbiterShape, Published

LEMMA WithContexts ==
  ASSUME NEW arb, ArbiterShape(arb), NEW D \in SUBSET Keys, NEW map \in [D -> PublishedContext]
  PROVE  LET y == [arb EXCEPT !.contexts = map]
         IN  /\ ArbiterShape(y) /\ y.contexts = map /\ Published(y) = D
             /\ y.activation = arb.activation /\ y.held = arb.held
<1>1. map \in MapsOf(Keys, PublishedContext)
  BY IsMap
<1> QED
  BY <1>1 DEF ArbiterShape, Published

LEMMA WithActivation ==
  ASSUME NEW arb, ArbiterShape(arb), NEW activation \in {NoActivation} \cup [key : Keys, left : Lifetimes]
  PROVE  LET y == [arb EXCEPT !.activation = activation]
         IN  /\ ArbiterShape(y) /\ y.contexts = arb.contexts /\ Published(y) = Published(arb)
             /\ y.activation = activation /\ y.held = arb.held
  BY DEF ArbiterShape, Published

LEMMA WithHold ==
  ASSUME NEW arb, ArbiterShape(arb), NEW held \in BOOLEAN
  PROVE  LET y == [arb EXCEPT !.held = held]
         IN  /\ ArbiterShape(y) /\ y.contexts = arb.contexts /\ Published(y) = Published(arb)
             /\ y.activation = arb.activation /\ y.held = held
  BY DEF ArbiterShape, Published

\* An arbiter with no other contexts than another one has.
NoMoreThan(y, arb) ==
  Published(y) \subseteq Published(arb) /\ \A key \in Published(y) : y.contexts[key] = arb.contexts[key]

LEMMA FewerRanked ==
  ASSUME NEW arb, NEW rev, Ranked(arb, rev), NEW y, NoMoreThan(y, arb)
  PROVE  Ranked(y, rev)
  BY DEF Ranked, NoMoreThan

LEMMA RankedLonger ==
  ASSUME NEW arb, NEW rev \in Nat, GoodArbiter(arb, rev)
  PROVE  GoodArbiter(arb, rev + 1) /\ GoodArbiter(arb, rev + 2)
<1>1. \A key \in Published(arb) : arb.contexts[key].sequence \in Nat
  BY ArbiterParts DEF GoodArbiter, PublishedContext
<1> QED
  BY <1>1 DEF GoodArbiter, Ranked

LEMMA ErasesWell ==
  ASSUME NEW arb, NEW rev, GoodArbiter(arb, rev), NEW keys
  PROVE  LET y == Erase(arb, keys)
         IN  /\ GoodArbiter(y, rev) /\ NoMoreThan(y, arb) /\ Published(y) = Published(arb) \ keys
             /\ y.held = arb.held
<1> DEFINE map == [key \in Published(arb) \ keys |-> arb.contexts[key]]
           activation == IF Activated(arb) /\ arb.activation.key \in keys THEN NoActivation
                         ELSE arb.activation
           z == [arb EXCEPT !.contexts = map]
           y == [z EXCEPT !.activation = activation]
<1>1. ArbiterShape(arb) /\ arb.contexts \in [Published(arb) -> PublishedContext]
      /\ Published(arb) \in SUBSET Keys /\ activation \in {NoActivation} \cup [key : Keys, left : Lifetimes]
  BY ArbiterParts DEF GoodArbiter
<1>2. map \in [Published(arb) \ keys -> PublishedContext] /\ Published(arb) \ keys \in SUBSET Keys
  BY <1>1
<1>3. Erase(arb, keys) = y
  BY <1>1 DEF Erase, Published, ArbiterShape
<1>4. ASSUME NEW key \in Published(arb) \ keys PROVE map[key] = arb.contexts[key]
  OBVIOUS
<1> HIDE DEF map
<1>5. /\ ArbiterShape(z) /\ z.contexts = map /\ Published(z) = Published(arb) \ keys
      /\ z.activation = arb.activation /\ z.held = arb.held
  BY <1>1, <1>2, WithContexts
<1> HIDE DEF z
<1>6. activation = NoActivation \/ (activation = arb.activation /\ arb.activation.key \notin keys)
      \/ (activation = arb.activation /\ ~Activated(arb))
  OBVIOUS
<1> HIDE DEF activation
<1>7. /\ ArbiterShape(y) /\ y.contexts = map /\ Published(y) = Published(arb) \ keys
      /\ y.activation = activation /\ y.held = arb.held
  BY <1>1, <1>5, WithActivation
<1> HIDE DEF y
<1>8. NoMoreThan(y, arb)
  BY <1>4, <1>7 DEF NoMoreThan
<1>9. Pinned(y)
  BY <1>6, <1>7 DEF GoodArbiter, Pinned, Activated
<1>10. GoodArbiter(y, rev)
  BY <1>7, <1>8, <1>9, FewerRanked DEF GoodArbiter
<1> QED
  BY <1>3, <1>7, <1>8, <1>10

LEMMA ExpiresWell ==
  ASSUME NEW arb, NEW rev, GoodArbiter(arb, rev)
  PROVE  GoodArbiter(Expire(arb), rev) /\ NoMoreThan(Expire(arb), arb)
<1> DEFINE gone == {key \in Published(arb) : arb.contexts[key].left = 0}
           alive == Erase(arb, gone)
           y == [alive EXCEPT !.activation = NoActivation]
<1>1. GoodArbiter(alive, rev) /\ NoMoreThan(alive, arb)
  BY ErasesWell
<1>2. Expire(arb) \in {alive, y}
  BY DEF Expire
<1> HIDE DEF alive
<1>3. /\ ArbiterShape(y) /\ y.contexts = alive.contexts /\ Published(y) = Published(alive)
      /\ y.activation = NoActivation
  BY <1>1, WithActivation DEF GoodArbiter
<1> HIDE DEF y
<1>4. NoMoreThan(y, alive) /\ NoMoreThan(y, arb)
  BY <1>1, <1>3 DEF NoMoreThan
<1>5. GoodArbiter(y, rev)
  BY <1>1, <1>3, <1>4, FewerRanked DEF GoodArbiter, Pinned, Activated
<1> QED
  BY <1>1, <1>2, <1>4, <1>5

LEMMA NewestIsNewest ==
  ASSUME NEW arb, NEW rev \in Nat, GoodArbiter(arb, rev)
  PROVE  /\ Newest(arb) \in 0..rev
         /\ \A key \in Published(arb) : arb.contexts[key].sequence <= Newest(arb)
<1> DEFINE ages == {arb.contexts[key].sequence : key \in Published(arb)}
           T == {u \in Nat : \A key \in Published(arb) : arb.contexts[key].sequence <= u}
<1>1. \A key \in Published(arb) : arb.contexts[key].sequence \in Nat /\ arb.contexts[key].sequence <= rev
  BY ArbiterParts DEF GoodArbiter, PublishedContext, Ranked
<1>2. PICK least \in T : \A u \in T : least <= u
  <2>1. rev \in T /\ T \in SUBSET Nat
    BY <1>1
  <2> QED
    BY <2>1, LeastNumber
<1>3. least \in {0} \cup ages
  <2> SUFFICES ASSUME least # 0, least \notin ages PROVE FALSE
    OBVIOUS
  <2>1. least - 1 \in Nat
    BY <1>2
  <2>2. \A key \in Published(arb) : arb.contexts[key].sequence <= least - 1
    BY <1>1, <1>2
  <2> QED
    BY <1>2, <2>1, <2>2
<1>4. Newest(arb) \in {0} \cup ages /\ \A key \in Published(arb) : arb.contexts[key].sequence <= Newest(arb)
  BY <1>2, <1>3 DEF Newest
<1> QED
  BY <1>1, <1>4

\* The contexts on show are of different ages, but for those of one reload, which are
\* fallbacks of different instances.
LEMMA ContextsAre ==
  ASSUME NEW arb, NEW rev \in Nat, GoodArbiter(arb, rev)
  PROVE  /\ IsFiniteSet(ContextsOf(arb))
         /\ \A c \in ContextsOf(arb) :
              c \in PublishedContext /\ c.key \in Published(arb) /\ arb.contexts[c.key] = c
         /\ \A a, b \in ContextsOf(arb) :
              a # b /\ a.sequence = b.sequence
                => a.fallback_only /\ b.fallback_only /\ InstanceOf(a) # InstanceOf(b)
<1>1. arb.contexts \in [Published(arb) -> PublishedContext] /\ Published(arb) \in SUBSET Keys
  BY ArbiterParts DEF GoodArbiter
<1>2. IsFiniteSet(Published(arb))
  BY <1>1, FS_Subset, RuntimeAssumption
<1>3. arb.contexts \in Surjection(Published(arb), ContextsOf(arb))
  BY <1>1 DEF ContextsOf, Surjection
<1>4. IsFiniteSet(ContextsOf(arb))
  BY <1>2, <1>3, FS_Surjection
<1>5. \A key \in Published(arb) : arb.contexts[key].key = key
  BY DEF GoodArbiter, Ranked
<1>6. ASSUME NEW a \in ContextsOf(arb), NEW b \in ContextsOf(arb), a # b, a.sequence = b.sequence
      PROVE  a.fallback_only /\ b.fallback_only /\ InstanceOf(a) # InstanceOf(b)
  <2>1. PICK k \in Published(arb) : a = arb.contexts[k]
    BY DEF ContextsOf
  <2>2. PICK l \in Published(arb) : b = arb.contexts[l]
    BY DEF ContextsOf
  <2>3. k # l /\ a.key = k /\ b.key = l
    BY <1>5, <1>6, <2>1, <2>2
  <2>4. k = Configured(k[1]) /\ a.fallback_only /\ l = Configured(l[1]) /\ b.fallback_only
    BY <1>6, <2>1, <2>2, <2>3 DEF GoodArbiter, Ranked
  <2> QED
    BY <2>3, <2>4 DEF InstanceOf
<1>7. \A c \in ContextsOf(arb) :
        c \in PublishedContext /\ c.key \in Published(arb) /\ arb.contexts[c.key] = c
  BY <1>1, <1>5 DEF ContextsOf
<1> QED
  BY <1>4, <1>6, <1>7

LEMMA BestIsChosen ==
  ASSUME NEW arb, NEW rev \in Nat, GoodArbiter(arb, rev), NEW S \in SUBSET ContextsOf(arb), S # {},
         \/ \A c \in S : ~c.fallback_only
         \/ \A a, b \in S : InstanceOf(a) = InstanceOf(b)
  PROVE  Best(S) \in S
<1>1. IsFiniteSet(S)
  BY ContextsAre, FS_Subset
<1>2. \A a \in S : a.priority \in Int /\ a.sequence \in Int
  BY ContextsAre DEF PublishedContext
<1>3. \A a, b \in S : a # b => a.sequence # b.sequence
  BY ContextsAre
<1> QED
  BY <1>1, <1>2, <1>3, BestIsOne

LEMMA ActiveIsThere ==
  ASSUME NEW arb, NEW rev \in Nat, GoodArbiter(arb, rev), NEW slot
  PROVE  /\ Active(arb, slot) \in ContextsOf(arb) \cup {NoContext}
         /\ Active(arb, slot) # NoContext => Contributes(Active(arb, slot), slot)
<1> DEFINE contributing == {c \in ContextsOf(arb) : Contributes(c, slot)}
           fallback == {c \in contributing : InstanceOf(c) = DefaultOf(arb, slot)}
           temporary == {c \in contributing \ fallback : ~c.fallback_only}
           pinned == {c \in contributing : Activated(arb) /\ c.key = arb.activation.key}
<1>1. pinned # {} => Best(pinned) \in pinned
  <2>1. pinned \in SUBSET ContextsOf(arb) /\ \A a, b \in pinned : InstanceOf(a) = InstanceOf(b)
    BY DEF InstanceOf
  <2> HIDE DEF pinned
  <2> QED
    BY <2>1, BestIsChosen
<1>2. temporary # {} => Best(temporary) \in temporary
  <2>1. temporary \in SUBSET ContextsOf(arb) /\ \A c \in temporary : ~c.fallback_only
    OBVIOUS
  <2> HIDE DEF temporary
  <2> QED
    BY <2>1, BestIsChosen
<1>3. fallback # {} => Best(fallback) \in fallback
  <2>1. fallback \in SUBSET ContextsOf(arb) /\ \A a, b \in fallback : InstanceOf(a) = InstanceOf(b)
    OBVIOUS
  <2> HIDE DEF fallback
  <2> QED
    BY <2>1, BestIsChosen
<1>4. fallback = {} => Best(fallback) = NoContext
  BY DEF Best
<1>5. /\ pinned \subseteq ContextsOf(arb) /\ temporary \subseteq ContextsOf(arb)
      /\ fallback \subseteq ContextsOf(arb)
      /\ \A c \in pinned \cup temporary \cup fallback : Contributes(c, slot)
  OBVIOUS
<1>6. CASE pinned # {}
  <2>1. Active(arb, slot) = Best(pinned)
    BY <1>6 DEF Active
  <2> HIDE DEF pinned
  <2> QED
    BY <1>1, <1>5, <1>6, <2>1
<1>7. CASE pinned = {} /\ temporary # {}
  <2>1. Active(arb, slot) = Best(temporary)
    BY <1>7 DEF Active
  <2> HIDE DEF temporary
  <2> QED
    BY <1>2, <1>5, <1>7, <2>1
<1>8. CASE pinned = {} /\ temporary = {}
  <2>1. Active(arb, slot) = Best(fallback)
    BY <1>8 DEF Active
  <2> HIDE DEF fallback
  <2> QED
    BY <1>3, <1>4, <1>5, <2>1
<1> HIDE DEF pinned, temporary, fallback
<1> QED
  BY <1>6, <1>7, <1>8

\* An arbiter with one more context than another one has, or a new version of it.
Adds(y, arb, context) ==
  /\ Published(y) = Published(arb) \cup {context.key}
  /\ \A key \in Published(arb) : key # context.key => y.contexts[key] = arb.contexts[key]
  /\ LET added == y.contexts[context.key]
     IN  /\ added.left = context.left /\ added.revision = context.revision
         /\ added.compact = context.compact /\ added.expanded = context.expanded

LEMMA PublishesWell ==
  ASSUME NEW arb, NEW rev \in Nat, GoodArbiter(arb, rev), NEW context \in PublishedContext
  PROVE  LET y == Publish(arb, context)
         IN  /\ GoodArbiter(y, rev + 1) /\ Published(y) \subseteq Published(arb) \cup {context.key}
             /\ context.left # 0 => Adds(y, arb, context)
<1>1. CASE context.left = 0
  <2>1. Publish(arb, context) = Erase(arb, {context.key})
    BY <1>1 DEF Publish, Dismiss
  <2>2. LET y == Erase(arb, {context.key}) IN GoodArbiter(y, rev) /\ NoMoreThan(y, arb)
    BY ErasesWell
  <2>3. GoodArbiter(Erase(arb, {context.key}), rev + 1)
    BY <2>2, RankedLonger
  <2> QED
    BY <1>1, <2>1, <2>2, <2>3 DEF NoMoreThan
<1>2. CASE context.left # 0
  <2> DEFINE added == [context EXCEPT !.sequence = Newest(arb) + 1]
             D == Published(arb) \cup {context.key}
             map == [key \in D |-> IF key = context.key THEN added ELSE arb.contexts[key]]
             y == [arb EXCEPT !.contexts = map]
  <2>1. ArbiterShape(arb) /\ arb.contexts \in [Published(arb) -> PublishedContext]
        /\ Published(arb) \in SUBSET Keys
    BY ArbiterParts DEF GoodArbiter
  <2>2. Publish(arb, context) = y
    BY <1>2, <2>1 DEF Publish, Published, ArbiterShape
  <2>3. /\ Newest(arb) \in 0..rev
        /\ \A key \in Published(arb) : arb.contexts[key].sequence <= Newest(arb)
    BY NewestIsNewest
  <2>4. /\ added \in PublishedContext /\ added.key = context.key /\ added.sequence = Newest(arb) + 1
        /\ added.left = context.left /\ added.revision = context.revision
        /\ added.compact = context.compact /\ added.expanded = context.expanded
    BY <2>3 DEF PublishedContext
  <2>5. D \in SUBSET Keys /\ context.key \in D
    BY <2>1 DEF PublishedContext
  <2>6. map[context.key] = added
    BY <2>5
  <2>7. \A key \in D : key # context.key => key \in Published(arb) /\ map[key] = arb.contexts[key]
    OBVIOUS
  <2> HIDE DEF added
  <2>8. map \in [D -> PublishedContext]
    BY <2>1, <2>4
  <2> HIDE DEF map
  <2>9. ArbiterShape(y) /\ y.contexts = map /\ Published(y) = D /\ y.activation = arb.activation
    BY <2>1, <2>5, <2>8, WithContexts
  <2> HIDE DEF y
  <2>10. \A key \in Published(arb) : /\ arb.contexts[key].sequence \in Nat
                                     /\ arb.contexts[key].sequence <= rev
                                     /\ arb.contexts[key].key = key
    BY <2>1 DEF PublishedContext, GoodArbiter, Ranked
  <2>11. \A key \in D : map[key].key = key /\ map[key].sequence <= rev + 1
    BY <2>3, <2>4, <2>6, <2>7, <2>10
  <2>12. ASSUME NEW k \in D, NEW l \in D, k # l, map[k].sequence = map[l].sequence
         PROVE  k \in Published(arb) /\ l \in Published(arb) /\ map[k] = arb.contexts[k]
                /\ map[l] = arb.contexts[l]
    BY <2>3, <2>4, <2>6, <2>7, <2>10, <2>12
  <2>13. Ranked(y, rev + 1)
    BY <2>9, <2>11, <2>12 DEF Ranked, GoodArbiter
  <2>14. Pinned(y)
    BY <2>9 DEF GoodArbiter, Pinned, Activated
  <2>15. Adds(y, arb, context)
    BY <2>4, <2>6, <2>7, <2>9 DEF Adds
  <2> QED
    BY <2>2, <2>9, <2>13, <2>14, <2>15 DEF GoodArbiter
<1> QED
  BY <1>1, <1>2

LEMMA PublicationsAreContexts ==
  ASSUME NEW rev \in Nat
  PROVE  /\ \A publication \in Publications :
              /\ Received(publication, rev) \in PublishedContext
              /\ Received(publication, rev).key = publication.key
         /\ \A i \in Instances, view \in STRING :
              Configured(i) \in Keys
                => /\ Instantiated(i, view, rev) \in PublishedContext
                   /\ Instantiated(i, view, rev).key = Configured(i)
                   /\ Instantiated(i, view, rev).fallback_only
<1>1. Forever \in Lifetimes
  BY DEF Lifetimes
<1>2. ASSUME NEW publication \in Publications
      PROVE  /\ Received(publication, rev) \in PublishedContext
             /\ Received(publication, rev).key = publication.key
  BY <1>2, RuntimeAssumption DEF Received, PublishedContext
<1>3. ASSUME NEW i \in Instances, NEW view \in STRING, Configured(i) \in Keys
      PROVE  /\ Instantiated(i, view, rev) \in PublishedContext
             /\ Instantiated(i, view, rev).key = Configured(i)
             /\ Instantiated(i, view, rev).fallback_only
  <2> HIDE DEF Configured
  <2> QED
    BY <1>1, <1>3 DEF Instantiated, PublishedContext
<1> QED
  BY <1>2, <1>3

LEMMA ClearsWell ==
  ASSUME NEW arb, NEW rev, GoodArbiter(arb, rev), NEW keys
  PROVE  LET y == ClearActivation(arb, keys)
         IN  GoodArbiter(y, rev) /\ NoMoreThan(y, arb) /\ Published(y) = Published(arb)
<1> DEFINE activation == IF Activated(arb) /\ arb.activation.key \in keys THEN NoActivation
                         ELSE arb.activation
           z == [arb EXCEPT !.activation = activation]
           y == [z EXCEPT !.held = FALSE]
<1>1. ArbiterShape(arb) /\ activation \in {NoActivation, arb.activation}
      /\ arb.activation \in {NoActivation} \cup [key : Keys, left : Lifetimes]
  BY ArbiterParts DEF GoodArbiter
<1>2. ClearActivation(arb, keys) = y
  BY <1>1 DEF ClearActivation, ArbiterShape
<1> HIDE DEF activation
<1>3. /\ ArbiterShape(z) /\ z.contexts = arb.contexts /\ Published(z) = Published(arb)
      /\ z.activation = activation
  BY <1>1, WithActivation
<1> HIDE DEF z
<1>4. /\ ArbiterShape(y) /\ y.contexts = arb.contexts /\ Published(y) = Published(arb)
      /\ y.activation = activation
  BY <1>3, WithHold
<1> HIDE DEF y
<1>5. NoMoreThan(y, arb)
  BY <1>4 DEF NoMoreThan
<1>6. GoodArbiter(y, rev)
  BY <1>1, <1>4, <1>5, FewerRanked DEF GoodArbiter, Pinned, Activated
<1> QED
  BY <1>2, <1>4, <1>5, <1>6

LEMMA HoldsWell ==
  ASSUME NEW arb, NEW rev, GoodArbiter(arb, rev), NEW held \in BOOLEAN
  PROVE  LET y == [arb EXCEPT !.held = held] IN GoodArbiter(y, rev) /\ NoMoreThan(y, arb)
<1> DEFINE y == [arb EXCEPT !.held = held]
<1>1. /\ ArbiterShape(y) /\ y.contexts = arb.contexts /\ Published(y) = Published(arb)
      /\ y.activation = arb.activation
  BY WithHold DEF GoodArbiter
<1> HIDE DEF y
<1>2. NoMoreThan(y, arb)
  BY <1>1 DEF NoMoreThan
<1>3. GoodArbiter(y, rev)
  BY <1>1, <1>2, FewerRanked DEF GoodArbiter, Pinned, Activated
<1> QED
  BY <1>2, <1>3 DEF y

LEMMA ActivatesWell ==
  ASSUME NEW arb, NEW rev \in Nat, GoodArbiter(arb, rev), NEW instance, Available(arb, instance),
         NEW left \in Lifetimes
  PROVE  LET y == Activate(arb, instance, left) IN GoodArbiter(y, rev) /\ NoMoreThan(y, arb)
<1> DEFINE S == {c \in ContextsOf(arb) : InstanceOf(c) = instance}
           activation == [key |-> Best(S).key, left |-> left]
           y == [arb EXCEPT !.activation = activation]
<1>1. S \in SUBSET ContextsOf(arb) /\ S # {} /\ \A a, b \in S : InstanceOf(a) = InstanceOf(b)
  BY DEF Available
<1>2. Activate(arb, instance, left) = y
  BY DEF Activate
<1> HIDE DEF S
<1>3. Best(S) \in ContextsOf(arb)
  BY <1>1, BestIsChosen
<1>4. Best(S).key \in Published(arb) /\ Published(arb) \in SUBSET Keys
  BY <1>3, ContextsAre, ArbiterParts DEF GoodArbiter
<1>5. activation \in {NoActivation} \cup [key : Keys, left : Lifetimes] /\ activation.key = Best(S).key
  BY <1>4
<1> HIDE DEF activation
<1>6. /\ ArbiterShape(y) /\ y.contexts = arb.contexts /\ Published(y) = Published(arb)
      /\ y.activation = activation
  BY <1>5, WithActivation DEF GoodArbiter
<1> HIDE DEF y
<1>7. NoMoreThan(y, arb)
  BY <1>6 DEF NoMoreThan
<1>8. GoodArbiter(y, rev)
  BY <1>4, <1>5, <1>6, <1>7, FewerRanked DEF GoodArbiter, Pinned
<1> QED
  BY <1>2, <1>7, <1>8

LEMMA AgesWell ==
  ASSUME NEW arb, NEW rev, GoodArbiter(arb, rev)
  PROVE  /\ GoodArbiter(Aged(arb), rev) /\ Published(Aged(arb)) = Published(arb)
         /\ \A key \in Published(arb) : Aged(arb).contexts[key] = Older(arb.contexts[key])
<1> DEFINE map == [key \in Published(arb) |-> Older(arb.contexts[key])]
           activation == IF Activated(arb) THEN Older(arb.activation) ELSE arb.activation
           z == [arb EXCEPT !.contexts = map]
           y == [z EXCEPT !.activation = activation]
<1>1. ArbiterShape(arb) /\ arb.contexts \in [Published(arb) -> PublishedContext]
      /\ Published(arb) \in SUBSET Keys /\ arb.activation \in {NoActivation} \cup [key : Keys, left : Lifetimes]
  BY ArbiterParts DEF GoodArbiter
<1>2. \A left \in Lifetimes : Elapse(left) \in Lifetimes
  BY ArbiterAssumption DEF Lifetimes, Elapse, Forever
<1>3. \A c \in PublishedContext :
        LET d == Older(c)
        IN  /\ d \in PublishedContext /\ d.key = c.key /\ d.sequence = c.sequence
            /\ d.fallback_only = c.fallback_only
  BY <1>2 DEF PublishedContext, Older
<1>4. Aged(arb) = y
  <2> HIDE DEF map, activation
  <2>1. Aged(arb) = [arb EXCEPT !.contexts = map, !.activation = activation]
    BY DEF Aged, Published, map, activation
  <2> QED
    BY <1>1, <2>1 DEF ArbiterShape
<1>5. map \in [Published(arb) -> PublishedContext]
  BY <1>1, <1>3
<1>6. \A key \in Published(arb) :
        /\ map[key].key = arb.contexts[key].key /\ map[key].sequence = arb.contexts[key].sequence
        /\ map[key].fallback_only = arb.contexts[key].fallback_only
        /\ map[key] = Older(arb.contexts[key])
  BY <1>1, <1>3
<1>7. /\ activation \in {NoActivation} \cup [key : Keys, left : Lifetimes]
      /\ Activated(arb) => activation.key = arb.activation.key
      /\ ~Activated(arb) => activation = NoActivation
  BY <1>1, <1>2 DEF Activated, Older
<1> HIDE DEF map
<1>8. ArbiterShape(z) /\ z.contexts = map /\ Published(z) = Published(arb)
  BY <1>1, <1>5, WithContexts
<1> HIDE DEF z, activation
<1>9. ArbiterShape(y) /\ y.contexts = map /\ Published(y) = Published(arb) /\ y.activation = activation
  BY <1>7, <1>8, WithActivation
<1> HIDE DEF y
<1>10. Ranked(y, rev)
  BY <1>6, <1>9 DEF GoodArbiter, Ranked
<1>11. Pinned(y)
  BY <1>7, <1>9 DEF GoodArbiter, Pinned, Activated
<1> QED
  BY <1>4, <1>6, <1>9, <1>10, <1>11 DEF GoodArbiter

LEMMA ConfiguredIs ==
  ASSUME NEW i
  PROVE  Configured(i)[1] = i
  BY DEF Configured

\* A view that is instantiated again.
IsNewView(key, old, new) ==
  key = Configured(key[1]) /\ key[1] \in Instances /\ KindOfChange(key[1], old, new) = "view"

\* The arbiter of a reload: what was there, and the views that are instantiated again.
LEMMA PreparesWell ==
  ASSUME TypesInv, NEW new \in Configurations
  PROVE  /\ GoodArbiter(PreparedArbiter(new), revision + 1)
         /\ \A key \in Published(PreparedArbiter(new)) :
              LET context == PreparedArbiter(new).contexts[key]
              IN  \/ key \in Published(arbiter) /\ context = arbiter.contexts[key]
                  \/ IsNewView(key, config, new) /\ context.revision = revision + 1
<1> DEFINE changed(kind) == {i \in Instances : KindOfChange(i, config, new) = kind}
           updated == {i \in changed("view") : new[i].enabled}
           again == {i \in updated \cap snapshots : new[i].view # NoView}
           erased == {key \in Keys : key[1] \in changed("process")}
                       \cup {Configured(i) : i \in updated \ again}
           kept == Erase(arbiter, erased)
           V == {Configured(i) : i \in again}
           views == [key \in V |->
                       [Instantiated(key[1], new[key[1]].view, revision + 1)
                          EXCEPT !.sequence = Newest(kept) + 1]]
           map == Over(views, kept.contexts)
           y == [kept EXCEPT !.contexts = map]
<1>1. GoodArbiter(arbiter, revision) /\ revision \in Nat /\ revision + 1 \in Nat
      /\ snapshots \subseteq {i \in Instances : Configured(i) \in Keys}
  BY DEF TypesInv, ContextTypes, ProcessTypes
<1>2. PreparedArbiter(new) = Expire(y)
  BY DEF PreparedArbiter
<1>3. GoodArbiter(kept, revision) /\ NoMoreThan(kept, arbiter)
  BY <1>1, ErasesWell
<1>4. /\ again \subseteq Instances /\ \A i \in again : KindOfChange(i, config, new) = "view"
      /\ \A i \in again : Configured(i) \in Keys /\ new[i].view \in STRING
  BY <1>1, RuntimeAssumption
<1> HIDE DEF changed, updated, again, erased, kept
<1>5. /\ Newest(kept) \in 0..revision
      /\ \A key \in Published(kept) : kept.contexts[key].sequence <= Newest(kept)
  BY <1>1, <1>3, NewestIsNewest
<1>6. /\ ArbiterShape(kept) /\ kept.contexts \in [Published(kept) -> PublishedContext]
      /\ Published(kept) \in SUBSET Keys
  BY <1>3, ArbiterParts DEF GoodArbiter
<1>7. \A key \in V : key = Configured(key[1]) /\ key[1] \in again
  BY ConfiguredIs
<1>8. ASSUME NEW key \in V
      PROVE  /\ views[key] \in PublishedContext /\ views[key].key = key
             /\ views[key].sequence = Newest(kept) + 1 /\ views[key].fallback_only
             /\ views[key].revision = revision + 1
  <2> DEFINE context == Instantiated(key[1], new[key[1]].view, revision + 1)
  <2>1. /\ context \in PublishedContext /\ context.key = key /\ context.fallback_only
        /\ context.revision = revision + 1
    BY <1>1, <1>4, <1>7, PublicationsAreContexts DEF Instantiated
  <2>2. Newest(kept) + 1 \in Nat
    BY <1>1, <1>5
  <2>3. views[key] = [context EXCEPT !.sequence = Newest(kept) + 1]
    OBVIOUS
  <2> HIDE DEF context, views
  <2> QED
    BY <2>1, <2>2, <2>3 DEF PublishedContext
<1>9. views \in [V -> PublishedContext] /\ V \in SUBSET Keys
  BY <1>4, <1>7, <1>8
<1> HIDE DEF views, V
<1>10. /\ map \in [V \cup Published(kept) -> PublishedContext]
       /\ \A k \in V : map[k] = views[k]
       /\ \A k \in Published(kept) \ V : map[k] = kept.contexts[k]
  <2>1. DOMAIN views = V /\ DOMAIN kept.contexts = Published(kept)
    BY <1>6, <1>9
  <2> QED
    BY <1>6, <1>9, <2>1 DEF Over
<1> HIDE DEF map
<1>11. /\ ArbiterShape(y) /\ y.contexts = map /\ Published(y) = V \cup Published(kept)
       /\ y.activation = kept.activation
  BY <1>6, <1>9, <1>10, WithContexts
<1> HIDE DEF y
<1>12. \A k \in Published(kept) : /\ kept.contexts[k].sequence \in Nat
                                  /\ kept.contexts[k].sequence <= revision
                                  /\ kept.contexts[k].key = k
  BY <1>3, <1>6 DEF GoodArbiter, Ranked, PublishedContext
<1>13. \A k \in Published(y) : map[k].key = k /\ map[k].sequence <= revision + 1
  BY <1>1, <1>5, <1>8, <1>10, <1>11, <1>12
<1>14. ASSUME NEW k \in Published(y), NEW l \in Published(y), k # l, map[k].sequence = map[l].sequence
       PROVE  /\ k = Configured(k[1]) /\ map[k].fallback_only
              /\ l = Configured(l[1]) /\ map[l].fallback_only
  <2>1. CASE k \in V /\ l \in V
    BY <1>7, <1>8, <1>10, <2>1 DEF V
  <2>2. CASE k \notin V /\ l \notin V
    BY <1>3, <1>10, <1>11, <1>14, <2>2 DEF GoodArbiter, Ranked
  <2>3. CASE (k \in V) # (l \in V)
    <3>1. PICK a \in V, b \in Published(kept) \ V : {a, b} = {k, l}
      BY <1>11, <2>3
    <3>2. map[a].sequence = Newest(kept) + 1 /\ map[b].sequence <= Newest(kept)
      BY <1>5, <1>8, <1>10, <3>1
    <3>3. map[b].sequence \in Nat
      BY <1>10, <1>12, <3>1
    <3> QED
      BY <1>5, <1>14, <3>1, <3>2, <3>3
  <2> QED
    BY <2>1, <2>2, <2>3
<1>15. GoodArbiter(y, revision + 1)
  <2>1. Ranked(y, revision + 1)
    BY <1>11, <1>13, <1>14 DEF Ranked
  <2>2. Pinned(y)
    BY <1>3, <1>11 DEF GoodArbiter, Pinned, Activated
  <2> QED
    BY <1>11, <2>1, <2>2 DEF GoodArbiter
<1>16. GoodArbiter(Expire(y), revision + 1) /\ NoMoreThan(Expire(y), y)
  BY <1>15, ExpiresWell
<1>17. ASSUME NEW key \in Published(y)
       PROVE  \/ key \in Published(arbiter) /\ map[key] = arbiter.contexts[key]
              \/ IsNewView(key, config, new) /\ map[key].revision = revision + 1
  <2>1. CASE key \in V
    <3>1. IsNewView(key, config, new)
      BY <1>4, <1>7, <2>1 DEF IsNewView
    <3> QED
      BY <1>8, <1>10, <2>1, <3>1
  <2>2. CASE key \notin V
    BY <1>3, <1>10, <1>11, <2>2 DEF NoMoreThan
  <2> QED
    BY <2>1, <2>2
<1> QED
  BY <1>2, <1>11, <1>16, <1>17 DEF NoMoreThan

\* What is selected, refused or validated is on show.
LEMMA SelectedAreThere ==
  ASSUME NEW arb, NEW rev \in Nat, GoodArbiter(arb, rev)
  PROVE  /\ Refused(Selections(arb)) \in ContextsOf(arb) \cup {NoContext}
         /\ KeysIn(Selections(arb)) \subseteq Published(arb)
<1> DEFINE selection == Selections(arb)
<1>1. \A slot \in Slots : selection[slot] \in ContextsOf(arb) \cup {NoContext}
  BY ActiveIsThere DEF Selections
<1>2. "compact" \in Slots /\ "expanded" \in Slots
  BY DEF Slots
<1> HIDE DEF selection
<1>3. Refused(selection) \in {selection["compact"], selection["expanded"], NoContext}
  BY DEF Refused
<1>4. \A context \in ContextsOf(arb) : context.key \in Published(arb)
  BY ContextsAre
<1>5. KeysIn(selection) \subseteq Published(arb)
  BY <1>1, <1>4 DEF KeysIn
<1> QED
  BY <1>1, <1>2, <1>3, <1>5 DEF selection

--------------------------------------------------------------------------------
(* The events, consumed in their order.                                            *)

LEMMA QueueIs ==
  ASSUME TypesInv
  PROVE  /\ Len(queue) \in Nat /\ DOMAIN queue = 1..Len(queue)
         /\ \A n \in DOMAIN queue : queue[n] \in EventRecord
  BY ElementOfSeq DEF TypesInv, ProcessTypes

LEMMA TailIs ==
  ASSUME TypesInv, queue # << >>, queue' = Tail(queue)
  PROVE  /\ 1 \in DOMAIN queue /\ queue[1] = Head(queue)
         /\ \A n \in DOMAIN queue' : n \in Nat /\ n + 1 \in DOMAIN queue /\ queue'[n] = queue[n + 1]
         /\ \A n \in DOMAIN queue : n # 1 => n - 1 \in DOMAIN queue' /\ queue'[n - 1] = queue[n]
         /\ queue' \in Seq(EventRecord)
<1>1. queue \in Seq(EventRecord) /\ Len(queue) \in Nat \ {0} /\ DOMAIN queue = 1..Len(queue)
  BY QueueIs, EmptySeq DEF TypesInv, ProcessTypes
<1>2. /\ queue' \in Seq(EventRecord) /\ Len(queue') = Len(queue) - 1
      /\ \A n \in 1..Len(queue') : queue'[n] = queue[n + 1]
  BY <1>1, HeadTailProperties
<1>3. DOMAIN queue' = 1..Len(queue')
  BY <1>2
<1>4. queue[1] = Head(queue)
  BY <1>1
<1> QED
  BY <1>1, <1>2, <1>3, <1>4

\* An event that is not at the head stays in the queue.
LEMMA QueuedLater ==
  ASSUME TypesInv, queue # << >>, queue' = Tail(queue), NEW kind, NEW i, NEW g, Queued(kind, i, g),
         ~(Head(queue).kind = kind /\ Head(queue).instance = i /\ Head(queue).generation = g)
  PROVE  Queued(kind, i, g)'
  BY TailIs DEF Queued

\* What follows the head of the queue.
LEMMA HeadComesFirst ==
  ASSUME TypesInv, EventsInv, queue # << >>, queue' = Tail(queue), NEW n \in DOMAIN queue', NEW i,
         i = Head(queue).instance, queue'[n].instance = i
  PROVE  \/ Head(queue).generation < queue'[n].generation
         \/ /\ Head(queue).generation = queue'[n].generation
            /\ Head(queue).kind # "removed" /\ queue'[n].kind # "started"
<1>1. 1 \in DOMAIN queue /\ n + 1 \in DOMAIN queue /\ 1 < n + 1 /\ queue'[n] = queue[n + 1]
      /\ queue[1] = Head(queue)
  <2>1. n \in Nat /\ n \in DOMAIN queue' /\ DOMAIN queue' = 1..Len(queue') /\ Len(queue') \in Nat
    BY TailIs
  <2> QED
    BY <2>1, TailIs
<1>2. Before(queue[1], queue[n + 1])
  BY <1>1 DEF EventsInv, QueueOrdered
<1> QED
  BY <1>1, <1>2 DEF Before

LEMMA HeadIs ==
  ASSUME TypesInv, EventsInv, queue # << >>, NEW i, i = Head(queue).instance, NEW g,
         g = Head(queue).generation
  PROVE  /\ i \in Instances /\ g \in Nat /\ generation[i] \in Nat /\ g <= generation[i]
         /\ i \in DOMAIN generations => generations[i] \in Nat
         /\ i \in DOMAIN generations
              => generations[i] < g \/ (generations[i] = g /\ Head(queue).kind # "started")
         /\ g = generation[i] /\ Head(queue).kind = "removed" => presence[i] = "absent"
         /\ g = generation[i] /\ Head(queue).kind \in Speech => presence[i] # "starting"
         /\ Head(queue).kind \in Speech => Known(i, g)
         /\ Head(queue).kind # "removed" /\ HasEnded(i, g) => Queued("removed", i, g)
<1>1. 1 \in DOMAIN queue /\ queue[1] = Head(queue) /\ \A m \in DOMAIN queue : ~(m < 1)
  <2>1. Len(queue) \in Nat \ {0} /\ DOMAIN queue = 1..Len(queue)
    BY QueueIs, EmptySeq DEF TypesInv, ProcessTypes
  <2> QED
    BY <2>1
<1>2. queue[1] \in EventRecord
  BY <1>1, QueueIs
<1>3. i \in Instances /\ g \in Nat /\ generation[i] \in Nat
      /\ (i \in DOMAIN generations => generations[i] \in Nat)
  BY <1>1, <1>2 DEF EventRecord, TypesInv, ProcessTypes
<1>4. /\ g <= generation[i]
      /\ i \in DOMAIN generations
           => generations[i] < g \/ (generations[i] = g /\ Head(queue).kind # "started")
      /\ g = generation[i] /\ Head(queue).kind = "removed" => presence[i] = "absent"
      /\ g = generation[i] /\ Head(queue).kind \in Speech => presence[i] # "starting"
  BY <1>1 DEF EventsInv, QueueCurrent
<1>5. Head(queue).kind \in Speech => Known(i, g)
  BY <1>1 DEF EventsInv, QueueAnnounced
<1>6. Head(queue).kind # "removed" /\ HasEnded(i, g) => Queued("removed", i, g)
  BY <1>1 DEF EventsInv, QueueEnds
<1> QED
  BY <1>3, <1>4, <1>5, <1>6

\* Order and contents do not depend on what is known.
LEMMA TailOrdered ==
  ASSUME TypesInv, EventsInv, queue # << >>, queue' = Tail(queue)
  PROVE  QueueOrdered' /\ QueueSays'
<1>1. ASSUME NEW m \in DOMAIN queue', NEW n \in DOMAIN queue', m < n
      PROVE  Before(queue'[m], queue'[n])
  <2>1. /\ m + 1 \in DOMAIN queue /\ n + 1 \in DOMAIN queue /\ m \in Nat /\ n \in Nat
        /\ queue'[m] = queue[m + 1] /\ queue'[n] = queue[n + 1]
    BY TailIs
  <2>2. m + 1 < n + 1
    BY <1>1, <2>1
  <2> QED
    BY <2>1, <2>2 DEF EventsInv, QueueOrdered
<1>2. QueueSays'
  BY TailIs DEF EventsInv, QueueSays
<1> QED
  BY <1>1, <1>2 DEF QueueOrdered, Before

\* Nothing that matters to the queue changes.
LEMMA EventsSame ==
  ASSUME EventsInv, UNCHANGED <<queue, generations, presence, generation>>
  PROVE  EventsInv'
  BY DEF EventsInv, QueueOrdered, QueueCurrent, QueueAnnounced, QueueEnds, QueueSays, Before, Queued,
         HasEnded, Known

\* What was known is no longer: the parts of EventsInv that the generations enter, for the
\* events of the others.
LEMMA EventsConsumedQuietly ==
  ASSUME TypesInv, EventsInv, queue # << >>, queue' = Tail(queue),
         UNCHANGED <<generations, presence, generation>>,
         \/ Head(queue).kind \in Speech
         \/ Head(queue).kind = "removed" /\ ~Matches(Head(queue))
  PROVE  EventsInv'
<1> DEFINE e == Head(queue)
<1>1. QueueOrdered' /\ QueueSays'
  BY TailOrdered
<1>2. QueueCurrent'
  BY TailIs DEF EventsInv, QueueCurrent
<1>3. e.kind # "started"
  BY DEF Speech
<1>4. ASSUME NEW i, NEW g, Queued("started", i, g)
      PROVE  Queued("started", i, g)'
  BY <1>3, <1>4, QueuedLater
<1>5. ASSUME NEW n \in DOMAIN queue', NEW i, NEW g, queue'[n].instance = i, queue'[n].generation = g,
             queue'[n].kind \in Speech, ~Known(i, g)'
      PROVE  \E m \in DOMAIN queue' :
               m < n /\ queue'[m].kind = "started" /\ queue'[m].instance = i
               /\ queue'[m].generation = g
  <2>1. n + 1 \in DOMAIN queue /\ n \in Nat /\ queue'[n] = queue[n + 1] /\ ~Known(i, g)
    BY <1>5, TailIs DEF Known
  <2>2. PICK m \in DOMAIN queue :
          m < n + 1 /\ queue[m].kind = "started" /\ queue[m].instance = i /\ queue[m].generation = g
    BY <1>5, <2>1 DEF EventsInv, QueueAnnounced
  <2>3. m # 1 /\ m \in Nat
    BY <1>3, <2>2, TailIs, QueueIs
  <2>4. m - 1 \in DOMAIN queue' /\ queue'[m - 1] = queue[m] /\ m - 1 < n
    BY <2>1, <2>2, <2>3, TailIs
  <2> QED
    BY <2>2, <2>4
<1>6. ASSUME NEW i \in Instances, presence[i] # "absent", NEW g, g = generation[i]
      PROVE  Known(i, g)' \/ Queued("started", i, g)'
  <2>1. Known(i, g) \/ Queued("started", i, g)
    BY <1>6 DEF EventsInv, QueueAnnounced
  <2>2. Known(i, g) => Known(i, g)'
    BY DEF Known
  <2> QED
    BY <1>4, <2>1, <2>2
<1>7. QueueAnnounced'
  BY <1>5, <1>6 DEF QueueAnnounced, Known, Queued
<1>8. ASSUME NEW i, NEW g, Queued("removed", i, g),
             e.kind = "removed" => e.instance # i \/ e.generation # g
      PROVE  Queued("removed", i, g)'
  BY <1>8, QueuedLater
<1>9. ASSUME NEW n \in DOMAIN queue', NEW i, NEW g, queue'[n].instance = i, queue'[n].generation = g,
             queue'[n].kind # "removed", HasEnded(i, g)
      PROVE  Queued("removed", i, g)'
  <2>1. n + 1 \in DOMAIN queue /\ queue'[n] = queue[n + 1]
    BY TailIs
  <2>2. Queued("removed", i, g)
    BY <1>9, <2>1 DEF EventsInv, QueueEnds
  <2>3. queue[n + 1] \in EventRecord
    BY <2>1, QueueIs
  <2>4. e.kind = "removed" => e.instance # i \/ e.generation # g
    BY <1>9, <2>1, <2>3, HeadComesFirst DEF EventRecord
  <2> QED
    BY <1>8, <2>2, <2>4
<1>10. ASSUME NEW i \in DOMAIN generations, HasEnded(i, generations[i])
       PROVE  Queued("removed", i, generations[i])'
  <2>1. Queued("removed", i, generations[i])
    BY <1>10 DEF EventsInv, QueueEnds
  <2>2. e.kind = "removed" => e.instance # i \/ e.generation # generations[i]
    BY DEF Matches, Speech
  <2>3. ASSUME NEW g, g = generations[i] PROVE Queued("removed", i, g)'
    BY <1>8, <2>1, <2>2, <2>3
  <2> QED
    BY <2>3 DEF Queued
<1>11. QueueEnds'
  BY <1>9, <1>10 DEF EventsInv, QueueEnds, HasEnded, Queued
<1> QED
  BY <1>1, <1>2, <1>7, <1>11 DEF EventsInv

\* A start makes its generation the one that is known.
LEMMA EventsConsumedStart ==
  ASSUME TypesInv, EventsInv, queue # << >>, queue' = Tail(queue), UNCHANGED <<presence, generation>>,
         Head(queue).kind = "started",
         generations' = Put(generations, Head(queue).instance, Head(queue).generation)
  PROVE  EventsInv'
<1>1. PICK i, g : i = Head(queue).instance /\ g = Head(queue).generation
  OBVIOUS
<1>2. /\ i \in Instances /\ g \in Nat /\ generation[i] \in Nat /\ g <= generation[i]
      /\ i \in DOMAIN generations => generations[i] \in Nat /\ generations[i] < g
      /\ HasEnded(i, g) => Queued("removed", i, g)
  BY <1>1, HeadIs
<1>3. /\ DOMAIN generations' = DOMAIN generations \cup {i} /\ generations'[i] = g
      /\ \A j \in DOMAIN generations : j # i => generations'[j] = generations[j]
  BY <1>1 DEF Put
<1>4. QueueOrdered' /\ QueueSays'
  BY TailOrdered
<1>5. ASSUME NEW n \in DOMAIN queue', queue'[n].instance = i
      PROVE  g < queue'[n].generation \/ (g = queue'[n].generation /\ queue'[n].kind # "started")
  BY <1>1, <1>5, HeadComesFirst
<1>6. QueueCurrent'
  <2> SUFFICES ASSUME NEW n \in DOMAIN queue', NEW e, e = queue'[n], NEW j, j = e.instance
               PROVE  /\ j \in DOMAIN generations'
                           => \/ generations'[j] < e.generation
                              \/ generations'[j] = e.generation /\ e.kind # "started"
                      /\ e.generation <= generation[j]
                      /\ e.generation = generation[j] /\ e.kind = "removed" => presence[j] = "absent"
                      /\ e.generation = generation[j] /\ e.kind \in Speech => presence[j] # "starting"
    BY DEF QueueCurrent
  <2>1. n + 1 \in DOMAIN queue /\ e = queue[n + 1]
    BY TailIs
  <2>2. /\ j \in DOMAIN generations
             => \/ generations[j] < e.generation
                \/ generations[j] = e.generation /\ e.kind # "started"
        /\ e.generation <= generation[j]
        /\ e.generation = generation[j] /\ e.kind = "removed" => presence[j] = "absent"
        /\ e.generation = generation[j] /\ e.kind \in Speech => presence[j] # "starting"
    BY <2>1 DEF EventsInv, QueueCurrent
  <2>3. j = i => g < e.generation \/ (g = e.generation /\ e.kind # "started")
    BY <1>5
  <2> QED
    BY <1>3, <2>2, <2>3
<1>7. ASSUME NEW j, NEW h, Queued("started", j, h), ~(j = i /\ h = g)
      PROVE  Queued("started", j, h)'
  BY <1>1, <1>7, QueuedLater
<1>8. ASSUME NEW n \in DOMAIN queue', NEW j, NEW h, queue'[n].instance = j, queue'[n].generation = h,
             queue'[n].kind \in Speech, ~Known(j, h)'
      PROVE  \E m \in DOMAIN queue' :
               m < n /\ queue'[m].kind = "started" /\ queue'[m].instance = j
               /\ queue'[m].generation = h
  <2>1. n + 1 \in DOMAIN queue /\ n \in Nat /\ queue'[n] = queue[n + 1]
    BY TailIs
  <2>2. ~Known(j, h)
    <3>1. CASE j # i
      BY <1>3, <1>8, <3>1 DEF Known
    <3>2. CASE j = i
      <4>1. h \in Nat
        BY <1>8, <2>1, QueueIs DEF EventRecord
      <4>2. g <= h
        BY <1>2, <1>5, <1>8, <3>2, <4>1
      <4> QED
        BY <1>2, <3>2, <4>1, <4>2 DEF Known
    <3> QED
      BY <3>1, <3>2
  <2>3. PICK m \in DOMAIN queue :
          m < n + 1 /\ queue[m].kind = "started" /\ queue[m].instance = j /\ queue[m].generation = h
    BY <1>8, <2>1, <2>2 DEF EventsInv, QueueAnnounced
  <2>4. m # 1
    <3> SUFFICES ASSUME m = 1 PROVE FALSE
      OBVIOUS
    <3>1. queue[1] = Head(queue)
      BY TailIs
    <3>2. j = i /\ h = g
      BY <1>1, <2>3, <3>1
    <3> QED
      BY <1>3, <1>8, <3>2 DEF Known
  <2>5. m - 1 \in DOMAIN queue' /\ queue'[m - 1] = queue[m] /\ m - 1 < n
    BY <2>1, <2>3, <2>4, TailIs, QueueIs
  <2> QED
    BY <2>3, <2>5
<1>9. ASSUME NEW j \in Instances, presence[j] # "absent", NEW h, h = generation[j]
      PROVE  Known(j, h)' \/ Queued("started", j, h)'
  <2>1. Known(j, h) \/ Queued("started", j, h)
    BY <1>9 DEF EventsInv, QueueAnnounced
  <2>2. CASE j = i /\ h = g
    BY <1>3, <2>2 DEF Known
  <2>3. CASE j = i /\ h # g
    <3>1. ~Known(j, h)
      BY <1>2, <1>9, <2>3 DEF Known
    <3> QED
      BY <1>7, <2>1, <2>3, <3>1
  <2>4. CASE j # i
    <3>1. Known(j, h) => Known(j, h)'
      BY <1>3, <2>4 DEF Known
    <3> QED
      BY <1>7, <2>1, <2>4, <3>1
  <2> QED
    BY <2>2, <2>3, <2>4
<1>10. QueueAnnounced'
  BY <1>8, <1>9 DEF QueueAnnounced, Known, Queued
<1>11. ASSUME NEW j, NEW h, Queued("removed", j, h)
       PROVE  Queued("removed", j, h)'
  BY <1>11, QueuedLater
<1>12. ASSUME NEW n \in DOMAIN queue', NEW j, NEW h, queue'[n].instance = j, queue'[n].generation = h,
              queue'[n].kind # "removed", HasEnded(j, h)
       PROVE  Queued("removed", j, h)'
  <2>1. n + 1 \in DOMAIN queue /\ queue'[n] = queue[n + 1]
    BY TailIs
  <2>2. Queued("removed", j, h)
    BY <1>12, <2>1 DEF EventsInv, QueueEnds
  <2> QED
    BY <1>11, <2>2
<1>13. ASSUME NEW j \in DOMAIN generations', NEW h, h = generations'[j]
       PROVE  h <= generation[j] /\ (HasEnded(j, h) => Queued("removed", j, h)')
  <2>1. CASE j = i
    BY <1>2, <1>3, <1>11, <1>13, <2>1
  <2>2. CASE j # i
    <3>1. j \in DOMAIN generations /\ h = generations[j]
      BY <1>3, <1>13, <2>2
    <3>2. h <= generation[j] /\ (HasEnded(j, h) => Queued("removed", j, h))
      BY <3>1 DEF EventsInv, QueueEnds
    <3> QED
      BY <1>11, <3>2
  <2> QED
    BY <2>1, <2>2
<1>14. QueueEnds'
  BY <1>12, <1>13 DEF QueueEnds, HasEnded, Queued
<1> QED
  BY <1>4, <1>6, <1>10, <1>14 DEF EventsInv

\* A removal makes its generation unknown.
LEMMA EventsConsumedRemoval ==
  ASSUME TypesInv, EventsInv, queue # << >>, queue' = Tail(queue), UNCHANGED <<presence, generation>>,
         Head(queue).kind = "removed", Matches(Head(queue)),
         NEW i, i = Head(queue).instance, DOMAIN generations' = DOMAIN generations \ {i},
         \A j \in DOMAIN generations' : generations'[j] = generations[j]
  PROVE  EventsInv'
<1>1. PICK g : g = Head(queue).generation
  OBVIOUS
<1>2. /\ i \in Instances /\ g \in Nat /\ generation[i] \in Nat /\ g <= generation[i]
      /\ g = generation[i] => presence[i] = "absent"
      /\ i \in DOMAIN generations => generations[i] = g
  BY <1>1, HeadIs DEF Matches
<1>3. \A j \in DOMAIN generations : j # i => j \in DOMAIN generations' /\ generations'[j] = generations[j]
  OBVIOUS
<1>4. QueueOrdered' /\ QueueSays'
  BY TailOrdered
<1>5. ASSUME NEW n \in DOMAIN queue', queue'[n].instance = i
      PROVE  g < queue'[n].generation /\ queue'[n].generation # g
  <2>1. queue'[n].generation \in Nat
    BY TailIs, QueueIs DEF EventRecord
  <2> QED
    BY <1>1, <1>2, <1>5, <2>1, HeadComesFirst
<1>6. QueueCurrent'
  <2> SUFFICES ASSUME NEW n \in DOMAIN queue', NEW e, e = queue'[n], NEW j, j = e.instance
               PROVE  /\ j \in DOMAIN generations'
                           => \/ generations'[j] < e.generation
                              \/ generations'[j] = e.generation /\ e.kind # "started"
                      /\ e.generation <= generation[j]
                      /\ e.generation = generation[j] /\ e.kind = "removed" => presence[j] = "absent"
                      /\ e.generation = generation[j] /\ e.kind \in Speech => presence[j] # "starting"
    BY DEF QueueCurrent
  <2>1. n + 1 \in DOMAIN queue /\ e = queue[n + 1]
    BY TailIs
  <2>2. /\ j \in DOMAIN generations
             => \/ generations[j] < e.generation
                \/ generations[j] = e.generation /\ e.kind # "started"
        /\ e.generation <= generation[j]
        /\ e.generation = generation[j] /\ e.kind = "removed" => presence[j] = "absent"
        /\ e.generation = generation[j] /\ e.kind \in Speech => presence[j] # "starting"
    BY <2>1 DEF EventsInv, QueueCurrent
  <2> QED
    BY <1>3, <2>2
<1>7. ASSUME NEW j, NEW h, Queued("started", j, h)
      PROVE  Queued("started", j, h)'
  BY <1>7, QueuedLater
<1>8. ASSUME NEW n \in DOMAIN queue', NEW j, NEW h, queue'[n].instance = j, queue'[n].generation = h,
             queue'[n].kind \in Speech, ~Known(j, h)'
      PROVE  \E m \in DOMAIN queue' :
               m < n /\ queue'[m].kind = "started" /\ queue'[m].instance = j
               /\ queue'[m].generation = h
  <2>1. n + 1 \in DOMAIN queue /\ n \in Nat /\ queue'[n] = queue[n + 1]
    BY TailIs
  <2>2. ~Known(j, h)
    BY <1>2, <1>3, <1>5, <1>8 DEF Known
  <2>3. PICK m \in DOMAIN queue :
          m < n + 1 /\ queue[m].kind = "started" /\ queue[m].instance = j /\ queue[m].generation = h
    BY <1>8, <2>1, <2>2 DEF EventsInv, QueueAnnounced
  <2>4. m # 1
    BY <2>3, TailIs
  <2>5. m - 1 \in DOMAIN queue' /\ queue'[m - 1] = queue[m] /\ m - 1 < n
    BY <2>1, <2>3, <2>4, TailIs, QueueIs
  <2> QED
    BY <2>3, <2>5
<1>9. ASSUME NEW j \in Instances, presence[j] # "absent", NEW h, h = generation[j]
      PROVE  Known(j, h)' \/ Queued("started", j, h)'
  <2>1. Known(j, h) \/ Queued("started", j, h)
    BY <1>9 DEF EventsInv, QueueAnnounced
  <2>2. Known(j, h) => Known(j, h)'
    BY <1>2, <1>3, <1>9 DEF Known
  <2> QED
    BY <1>7, <2>1, <2>2
<1>10. QueueAnnounced'
  BY <1>8, <1>9 DEF QueueAnnounced, Known, Queued
<1>11. ASSUME NEW j, NEW h, Queued("removed", j, h), ~(j = i /\ h = g)
       PROVE  Queued("removed", j, h)'
  BY <1>1, <1>11, QueuedLater
<1>12. ASSUME NEW n \in DOMAIN queue', NEW j, NEW h, queue'[n].instance = j, queue'[n].generation = h,
              queue'[n].kind # "removed", HasEnded(j, h)
       PROVE  Queued("removed", j, h)'
  <2>1. n + 1 \in DOMAIN queue /\ queue'[n] = queue[n + 1]
    BY TailIs
  <2>2. Queued("removed", j, h)
    BY <1>12, <2>1 DEF EventsInv, QueueEnds
  <2> QED
    BY <1>5, <1>11, <1>12, <2>2
<1>13. ASSUME NEW j \in DOMAIN generations', NEW h, h = generations'[j]
       PROVE  h <= generation[j] /\ (HasEnded(j, h) => Queued("removed", j, h)')
  <2>1. j \in DOMAIN generations /\ h = generations[j] /\ j # i
    BY <1>3, <1>13
  <2>2. h <= generation[j] /\ (HasEnded(j, h) => Queued("removed", j, h))
    BY <2>1 DEF EventsInv, QueueEnds
  <2> QED
    BY <1>11, <2>1, <2>2
<1>14. QueueEnds'
  BY <1>12, <1>13 DEF QueueEnds, HasEnded, Queued
<1> QED
  BY <1>4, <1>6, <1>10, <1>14 DEF EventsInv

\* The supervisor and the modules append events in the order of the life of a process.
LEMMA EventsEmitted ==
  ASSUME TypesInv, EventsInv, NEW e \in EventRecord, NEW i, i = e.instance, queue' = Append(queue, e),
         UNCHANGED generations, e.generation = generation'[i],
         \A j \in Instances : j # i => presence'[j] = presence[j] /\ generation'[j] = generation[j],
         \/ /\ presence[i] = "absent" /\ generation'[i] = generation[i] + 1
            /\ \/ e.kind = "started" /\ presence'[i] = "starting"
               \/ e.kind = "removed" /\ presence'[i] = "absent"
         \/ /\ presence[i] # "absent" /\ generation'[i] = generation[i]
            /\ \/ e.kind \in Speech /\ presence'[i] = "running"
               \/ e.kind = "removed" /\ presence'[i] = "absent",
         e.kind = "publish" => e.about \in Publications /\ e.about.key[1] = i,
         e.kind = "dismiss" => e.about \in Keys,
         e.kind = "data" => Configured(i) \in Keys
  PROVE  EventsInv' /\ queue' \in Seq(EventRecord)
<1>1. /\ queue \in Seq(EventRecord) /\ Len(queue) \in Nat /\ DOMAIN queue = 1..Len(queue)
      /\ i \in Instances /\ e.generation \in Nat
  BY QueueIs DEF TypesInv, ProcessTypes, EventRecord
<1>2. /\ queue' \in Seq(EventRecord) /\ Len(queue') = Len(queue) + 1
      /\ \A n \in 1..Len(queue) : queue'[n] = queue[n]
      /\ queue'[Len(queue) + 1] = e
  BY <1>1, AppendProperties
<1>3. DOMAIN queue' = 1..(Len(queue) + 1)
  BY <1>2
<1>4. \A n \in DOMAIN queue :
        n \in DOMAIN queue' /\ n < Len(queue) + 1 /\ queue'[n] = queue[n] /\ n \in Nat
        /\ queue[n].instance \in Instances /\ queue[n].generation \in Nat
  BY <1>1, <1>2, <1>3, QueueIs DEF EventRecord
<1>5. Len(queue) + 1 \in DOMAIN queue' /\ queue'[Len(queue) + 1] = e
  BY <1>1, <1>2, <1>3
<1>6. \A n \in DOMAIN queue' : n \in DOMAIN queue \/ n = Len(queue) + 1
  BY <1>1, <1>3
<1>7. \A j \in Instances : generation[j] \in Nat /\ (j \in DOMAIN generations => generations[j] \in Nat)
  BY DEF TypesInv, ProcessTypes
<1>8. \A j \in Instances : generation[j] <= generation'[j]
  BY <1>7
<1>9. \A n \in DOMAIN queue :
        /\ queue[n].instance \in DOMAIN generations
             => \/ generations[queue[n].instance] < queue[n].generation
                \/ generations[queue[n].instance] = queue[n].generation /\ queue[n].kind # "started"
        /\ queue[n].generation <= generation[queue[n].instance]
        /\ queue[n].generation = generation[queue[n].instance] /\ queue[n].kind = "removed"
             => presence[queue[n].instance] = "absent"
        /\ queue[n].generation = generation[queue[n].instance] /\ queue[n].kind \in Speech
             => presence[queue[n].instance] # "starting"
  BY DEF EventsInv, QueueCurrent
<1>10. \A j \in DOMAIN generations :
         j \in Instances /\ generations[j] <= generation[j] /\ generations[j] \in Nat
  BY DEF EventsInv, QueueEnds, TypesInv, ProcessTypes
<1>11. QueueOrdered'
  <2>1. ASSUME NEW n \in DOMAIN queue PROVE Before(queue[n], e)
    <3> SUFFICES ASSUME queue[n].instance = i
                 PROVE  \/ queue[n].generation < e.generation
                        \/ /\ queue[n].generation = e.generation
                           /\ queue[n].kind # "removed" /\ e.kind # "started"
      BY DEF Before
    <3>1. /\ queue[n].generation <= generation[i] /\ queue[n].generation \in Nat
          /\ queue[n].generation = generation[i] /\ queue[n].kind = "removed" => presence[i] = "absent"
      BY <1>4, <1>9
    <3>2. CASE generation'[i] = generation[i] + 1
      BY <1>1, <1>7, <3>1, <3>2
    <3>3. CASE generation'[i] = generation[i] /\ presence[i] # "absent"
      BY <1>1, <1>7, <3>1, <3>3 DEF Speech
    <3> QED
      BY <3>2, <3>3
  <2>2. ASSUME NEW m \in DOMAIN queue', NEW n \in DOMAIN queue', m < n
        PROVE  Before(queue'[m], queue'[n])
    <3>1. m \in DOMAIN queue
      BY <1>1, <1>3, <2>2
    <3>2. CASE n \in DOMAIN queue
      BY <1>4, <2>2, <3>1, <3>2 DEF EventsInv, QueueOrdered
    <3>3. CASE n = Len(queue) + 1
      BY <1>4, <1>5, <2>1, <3>1, <3>3
    <3> QED
      BY <1>6, <3>2, <3>3
  <2> QED
    BY <2>2 DEF QueueOrdered, Before
<1>12. QueueCurrent'
  <2> SUFFICES ASSUME NEW n \in DOMAIN queue', NEW x, x = queue'[n], NEW j, j = x.instance
               PROVE  /\ j \in DOMAIN generations
                           => \/ generations[j] < x.generation
                              \/ generations[j] = x.generation /\ x.kind # "started"
                      /\ x.generation <= generation'[j]
                      /\ x.generation = generation'[j] /\ x.kind = "removed" => presence'[j] = "absent"
                      /\ x.generation = generation'[j] /\ x.kind \in Speech => presence'[j] # "starting"
    BY DEF QueueCurrent
  <2>1. CASE n \in DOMAIN queue
    <3>1. /\ j \in Instances /\ x.generation \in Nat /\ x.generation <= generation[j]
          /\ j \in DOMAIN generations
               => \/ generations[j] < x.generation
                  \/ generations[j] = x.generation /\ x.kind # "started"
          /\ x.generation = generation[j] /\ x.kind = "removed" => presence[j] = "absent"
          /\ x.generation = generation[j] /\ x.kind \in Speech => presence[j] # "starting"
      BY <1>4, <1>9, <2>1
    <3>2. CASE j # i
      BY <3>1, <3>2
    <3>3. CASE j = i /\ generation'[i] = generation[i] + 1
      <4>1. x.generation <= generation'[j] /\ x.generation # generation'[j]
        BY <1>7, <3>1, <3>3
      <4> QED
        BY <3>1, <4>1
    <3>4. CASE j = i /\ generation'[i] = generation[i] /\ presence[i] # "absent"
      BY <3>1, <3>4
    <3> QED
      BY <3>2, <3>3, <3>4
  <2>2. CASE n = Len(queue) + 1
    <3>1. x = e /\ j = i
      BY <1>5, <2>2
    <3> QED
      BY <1>1, <1>7, <1>10, <3>1 DEF Speech
  <2> QED
    BY <1>6, <2>1, <2>2
<1>13. ASSUME NEW kind, NEW j, NEW h, Queued(kind, j, h)
       PROVE  Queued(kind, j, h)'
  BY <1>4, <1>13 DEF Queued
<1>14. ASSUME NEW j \in Instances, presence[j] # "absent", NEW h, h = generation[j]
       PROVE  Known(j, h) \/ Queued("started", j, h)
  BY <1>14 DEF EventsInv, QueueAnnounced
<1>15. ASSUME NEW n \in DOMAIN queue', NEW j, NEW h, queue'[n].instance = j, queue'[n].generation = h,
              queue'[n].kind \in Speech, ~Known(j, h)
       PROVE  \E m \in DOMAIN queue' :
                m < n /\ queue'[m].kind = "started" /\ queue'[m].instance = j
                /\ queue'[m].generation = h
  <2>1. CASE n \in DOMAIN queue
    <3>1. PICK m \in DOMAIN queue :
            m < n /\ queue[m].kind = "started" /\ queue[m].instance = j /\ queue[m].generation = h
      BY <1>4, <1>15, <2>1 DEF EventsInv, QueueAnnounced
    <3> QED
      BY <1>4, <3>1
  <2>2. CASE n = Len(queue) + 1
    <3>1. j = i /\ e.kind \in Speech /\ h = e.generation
      BY <1>5, <1>15, <2>2
    <3>2. presence[i] # "absent" /\ h = generation[i]
      BY <3>1 DEF Speech
    <3>3. Queued("started", i, h)
      BY <1>1, <1>14, <1>15, <3>1, <3>2
    <3> QED
      BY <1>4, <2>2, <3>1, <3>3 DEF Queued
  <2> QED
    BY <1>6, <2>1, <2>2
<1>16. ASSUME NEW j \in Instances, presence'[j] # "absent", NEW h, h = generation'[j]
       PROVE  Known(j, h) \/ Queued("started", j, h)'
  <2>1. CASE j = i /\ e.kind = "started"
    BY <1>5, <1>16, <2>1 DEF Queued
  <2>2. CASE ~(j = i /\ e.kind = "started")
    <3>1. presence[j] # "absent" /\ h = generation[j]
      BY <1>16, <2>2
    <3> QED
      BY <1>13, <1>14, <3>1
  <2> QED
    BY <2>1, <2>2
<1>17. QueueAnnounced'
  BY <1>15, <1>16 DEF QueueAnnounced, Known, Queued
\* What has ended now had ended before, or its removal has just been announced.
<1>18. ASSUME NEW j \in Instances, NEW h \in Nat, h <= generation[j], HasEnded(j, h)',
              ~Queued("removed", j, h)'
       PROVE  HasEnded(j, h)
  <2>1. CASE j # i
    BY <1>18, <2>1 DEF HasEnded
  <2>2. CASE j = i /\ presence[i] = "absent"
    BY <2>2 DEF HasEnded
  <2>3. CASE j = i /\ presence[i] # "absent" /\ presence'[i] # "absent"
    BY <1>18, <2>3 DEF HasEnded
  <2>4. CASE j = i /\ presence[i] # "absent" /\ presence'[i] = "absent"
    <3>1. e.kind = "removed" /\ e.generation = generation[i]
      BY <2>4
    <3>2. h # generation[i]
      <4> SUFFICES ASSUME h = generation[i] PROVE FALSE
        OBVIOUS
      <4> QED
        BY <1>5, <1>18, <2>4, <3>1 DEF Queued
    <3> QED
      BY <1>7, <1>18, <2>4, <3>2 DEF HasEnded
  <2> QED
    BY <2>1, <2>2, <2>3, <2>4
<1>19. ASSUME NEW n \in DOMAIN queue', NEW j, NEW h, queue'[n].instance = j, queue'[n].generation = h,
              queue'[n].kind # "removed", HasEnded(j, h)'
       PROVE  Queued("removed", j, h)'
  <2>1. CASE n \in DOMAIN queue
    <3>1. j \in Instances /\ h \in Nat /\ h <= generation[j]
      BY <1>4, <1>9, <1>19, <2>1
    <3>2. HasEnded(j, h) => Queued("removed", j, h)
      BY <1>4, <1>19, <2>1 DEF EventsInv, QueueEnds
    <3> QED
      BY <1>13, <1>18, <1>19, <3>1, <3>2
  <2>2. CASE n = Len(queue) + 1
    <3>1. j = i /\ h = e.generation /\ presence'[i] # "absent" /\ h = generation'[i]
      BY <1>5, <1>19, <2>2
    <3>2. ~HasEnded(j, h)'
      BY <1>1, <3>1 DEF HasEnded
    <3> QED
      BY <1>19, <3>2
  <2> QED
    BY <1>6, <2>1, <2>2
<1>20. ASSUME NEW j \in DOMAIN generations, NEW h, h = generations[j]
       PROVE  h <= generation'[j] /\ (HasEnded(j, h)' => Queued("removed", j, h)')
  <2>1. j \in Instances /\ h \in Nat /\ h <= generation[j] /\ generation[j] <= generation'[j]
        /\ generation[j] \in Nat
    BY <1>7, <1>8, <1>10, <1>20
  <2>2. HasEnded(j, h) => Queued("removed", j, h)
    BY <1>20 DEF EventsInv, QueueEnds
  <2>3. generation'[j] \in Nat
    BY <1>1, <1>7, <2>1
  <2> QED
    BY <1>13, <1>18, <2>1, <2>2, <2>3
<1>21. QueueEnds'
  BY <1>19, <1>20 DEF QueueEnds, HasEnded, Queued
<1>22. QueueSays'
  <2> SUFFICES ASSUME NEW n \in DOMAIN queue', NEW x, x = queue'[n]
               PROVE  /\ x.kind = "publish" => x.about \in Publications /\ x.about.key[1] = x.instance
                      /\ x.kind = "dismiss" => x.about \in Keys
                      /\ x.kind = "data" => Configured(x.instance) \in Keys
    BY DEF QueueSays
  <2>1. CASE n \in DOMAIN queue
    BY <1>4, <2>1 DEF EventsInv, QueueSays
  <2>2. CASE n = Len(queue) + 1
    BY <1>5, <2>2
  <2> QED
    BY <1>6, <2>1, <2>2
<1> QED
  BY <1>2, <1>11, <1>12, <1>17, <1>21, <1>22 DEF EventsInv

--------------------------------------------------------------------------------
(* The frame, save the events: nobody's contexts come to be at hand.               *)

LEMMA GoodSame ==
  ASSUME NEW arb, arb = arbiter', NEW rev, rev = revision', GoodArbiter(arb, rev)
  PROVE  GoodArbiter(arbiter, revision)'
  BY DEF GoodArbiter, ArbiterShape, Ranked, Pinned, Published, Activated

LEMMA FewerKept ==
  ASSUME NEW a, NEW b, NEW c, NoMoreThan(a, b), NoMoreThan(b, c)
  PROVE  NoMoreThan(a, c)
  BY DEF NoMoreThan

\* A map with no more than another one has.
Part(new, old) == DOMAIN new \subseteq DOMAIN old /\ \A k \in DOMAIN new : new[k] = old[k]

LEMMA PartsAre ==
  ASSUME NEW map
  PROVE  /\ \A keys : Part(Within(map, keys), map) /\ Part(Remove(map, keys), map)
         /\ \A arb : Part(Prune(map, arb), map)
         /\ Part(<< >>, map) /\ Part(map, map)
  BY DEF Part, Within, Remove, Prune

LEMMA FewerContexts ==
  ASSUME ContextTypes, NEW arb, arb = arbiter', NEW rev \in Nat, rev = revision',
         GoodArbiter(arb, rev), Published(arb) \subseteq AtHand,
         Part(pending', pending), DOMAIN accepted' \subseteq Keys
  PROVE  ContextTypes' /\ AtHand' \subseteq AtHand
<1>1. GoodArbiter(arbiter, revision)'
  BY GoodSame
<1>2. Waiting' \subseteq Waiting /\ \A key \in Waiting' : pending'[key] = pending[key]
  BY DEF Waiting, Part
<1>3. Published(arbiter') \subseteq AtHand
  OBVIOUS
<1> QED
  BY <1>1, <1>2, <1>3 DEF ContextTypes, Part, AtHand

LEMMA StillAcceptedTyped ==
  ASSUME ContextTypes, NEW arb
  PROVE  DOMAIN StillAccepted(arb) \subseteq Keys
  BY DEF ContextTypes, StillAccepted, Within

LEMMA SameTypes ==
  ASSUME TypesInv,
         UNCHANGED <<config, snapshots, ready, generations, visibility, presence, generation, queue,
                     seen>>
  PROVE  ProcessTypes'
  BY DEF TypesInv, ProcessTypes

LEMMA AskedWell ==
  ASSUME ContextTypes, NEW arb, NEW rev \in Nat, rev = revision', GoodArbiter(arb, rev),
         NoMoreThan(arb, arbiter), Asked(arb)
  PROVE  ContextTypes' /\ AtHand' \subseteq AtHand
<1>1. arbiter' = Expire(arb) /\ pending' = Prune(pending, Expire(arb))
      /\ accepted' = StillAccepted(Expire(arb))
  BY DEF Asked
<1>2. GoodArbiter(Expire(arb), rev) /\ NoMoreThan(Expire(arb), arb)
  BY ExpiresWell
<1>3. Published(Expire(arb)) \subseteq AtHand
  BY <1>2 DEF NoMoreThan, AtHand
<1>4. Part(pending', pending) /\ DOMAIN accepted' \subseteq Keys
  BY <1>1, PartsAre, StillAcceptedTyped
<1> QED
  BY <1>1, <1>2, <1>3, <1>4, FewerContexts

\* What an arbiter expires to has no other contexts.
LEMMA ExpiredIs ==
  ASSUME ContextTypes
  PROVE  /\ GoodArbiter(arbiter, revision) /\ revision \in Nat
         /\ GoodArbiter(Expire(arbiter), revision) /\ NoMoreThan(Expire(arbiter), arbiter)
         /\ NoMoreThan(arbiter, arbiter)
  BY ExpiresWell DEF ContextTypes, NoMoreThan

LEMMA HoldActivationKeeps ==
  ASSUME TypesInv, HoldActivation
  PROVE  TypesInv' /\ AtHand' \subseteq AtHand
<1>1. PICK held \in BOOLEAN : Asked([arbiter EXCEPT !.held = held])
  BY DEF HoldActivation
<1> DEFINE arb == [arbiter EXCEPT !.held = held]
<1>2. revision' = revision /\ ContextTypes
  BY DEF HoldActivation, TypesInv
<1>3. GoodArbiter(arb, revision) /\ NoMoreThan(arb, arbiter)
  BY <1>2, ExpiredIs, HoldsWell
<1>4. Asked(arb)
  BY <1>1
<1> HIDE DEF arb
<1>5. ContextTypes' /\ AtHand' \subseteq AtHand
  BY <1>2, <1>3, <1>4, ExpiredIs, AskedWell
<1>6. ProcessTypes'
  BY SameTypes DEF HoldActivation, modules
<1> QED
  BY <1>5, <1>6 DEF TypesInv

LEMMA BeginRenderKeeps ==
  ASSUME TypesInv, BeginRender
  PROVE  TypesInv' /\ AtHand' \subseteq AtHand
<1>1. revision' = revision /\ ContextTypes /\ Asked(arbiter)
  BY DEF BeginRender, TypesInv
<1>2. ContextTypes' /\ AtHand' \subseteq AtHand
  BY <1>1, ExpiredIs, AskedWell
<1>3. ProcessTypes'
  BY SameTypes DEF BeginRender, modules
<1> QED
  BY <1>2, <1>3 DEF TypesInv

LEMMA ActivateCommandKeeps ==
  ASSUME TypesInv, NEW instance \in Instances, ActivateCommand(instance)
  PROVE  TypesInv' /\ AtHand' \subseteq AtHand
<1>1. /\ revision' = revision + 1 /\ ContextTypes /\ revision \in Nat
      /\ Available(Expire(arbiter), instance)
  BY DEF ActivateCommand, TypesInv, ContextTypes
<1>2. PICK left \in {Forever} \cup 1..MaxLifetime : Asked(Activate(Expire(arbiter), instance, left))
  BY DEF ActivateCommand
<1>3. left \in Lifetimes
  BY <1>2, ArbiterAssumption DEF Lifetimes
<1> DEFINE arb == Activate(Expire(arbiter), instance, left)
<1>4. GoodArbiter(arb, revision) /\ NoMoreThan(arb, Expire(arbiter))
  BY <1>1, <1>3, ExpiredIs, ActivatesWell
<1>5. Asked(arb)
  BY <1>2
<1> HIDE DEF arb
<1>6. GoodArbiter(arb, revision + 1) /\ NoMoreThan(arb, arbiter)
  BY <1>1, <1>4, ExpiredIs, FewerKept, RankedLonger
<1>7. ContextTypes' /\ AtHand' \subseteq AtHand
  BY <1>1, <1>5, <1>6, AskedWell
<1>8. ProcessTypes'
  BY SameTypes DEF ActivateCommand, modules
<1> QED
  BY <1>7, <1>8 DEF TypesInv

LEMMA ActivateOpenRefusedKeeps ==
  ASSUME TypesInv, NEW instance \in Instances, ActivateOpenRefused(instance)
  PROVE  TypesInv' /\ AtHand' \subseteq AtHand
<1> DEFINE first == Activate(Expire(arbiter), instance, Forever)
           second == Expire(first)
           arb == ClearActivation(second, {second.activation.key})
<1>1. /\ revision' = revision + 2 /\ ContextTypes /\ revision \in Nat
      /\ Available(Expire(arbiter), instance)
  BY DEF ActivateOpenRefused, TypesInv, ContextTypes
<1>2. Asked(arb)
  BY DEF ActivateOpenRefused
<1>3. Forever \in Lifetimes
  BY DEF Lifetimes
<1>4. GoodArbiter(first, revision) /\ NoMoreThan(first, Expire(arbiter))
  BY <1>1, <1>3, ExpiredIs, ActivatesWell
<1> HIDE DEF first
<1>5. GoodArbiter(second, revision) /\ NoMoreThan(second, first)
  BY <1>4, ExpiresWell
<1> HIDE DEF second
<1>6. GoodArbiter(arb, revision) /\ NoMoreThan(arb, second)
  BY <1>5, ClearsWell
<1> HIDE DEF arb
<1>7. NoMoreThan(arb, arbiter)
  BY <1>1, <1>4, <1>5, <1>6, ExpiredIs, FewerKept
<1>8. GoodArbiter(arb, revision + 2) /\ revision + 2 \in Nat
  BY <1>1, <1>6, RankedLonger
<1>9. ContextTypes' /\ AtHand' \subseteq AtHand
  BY <1>1, <1>2, <1>7, <1>8, AskedWell
<1>10. ProcessTypes'
  BY SameTypes DEF ActivateOpenRefused, modules
<1> QED
  BY <1>9, <1>10 DEF TypesInv

LEMMA ClearsKeeps ==
  ASSUME TypesInv, NEW keys, Clears(keys)
  PROVE  TypesInv' /\ AtHand' \subseteq AtHand
<1> DEFINE arb == ClearActivation(arbiter, keys)
<1>1. arbiter' = arb /\ revision' \in {revision, revision + 1} /\ pending' = pending
      /\ accepted' = accepted /\ ContextTypes /\ revision \in Nat /\ DOMAIN accepted \subseteq Keys
  BY DEF Clears, TypesInv, ContextTypes
<1>2. GoodArbiter(arb, revision) /\ NoMoreThan(arb, arbiter)
  BY <1>1, ExpiredIs, ClearsWell
<1> HIDE DEF arb
<1>3. GoodArbiter(arb, revision + 1) /\ revision + 1 \in Nat
  BY <1>1, <1>2, RankedLonger
<1>4. Published(arb) \subseteq AtHand /\ Part(pending', pending)
  BY <1>1, <1>2, PartsAre DEF NoMoreThan, AtHand
<1>5. PICK rev \in Nat : rev = revision' /\ GoodArbiter(arb, rev)
  BY <1>1, <1>2, <1>3
<1>6. ContextTypes' /\ AtHand' \subseteq AtHand
  BY <1>1, <1>4, <1>5, FewerContexts
<1>7. ProcessTypes'
  BY SameTypes DEF Clears, modules
<1> QED
  BY <1>6, <1>7 DEF TypesInv

LEMMA DismissCommandKeeps ==
  ASSUME TypesInv, NEW slot \in Slots, DismissCommand(slot)
  PROVE  TypesInv' /\ AtHand' \subseteq AtHand
<1>1. PICK key : /\ arbiter' = Dismiss(Expire(arbiter), key)
                 /\ accepted' = Remove(StillAccepted(Expire(arbiter)), {key})
  BY DEF DismissCommand
<1> DEFINE arb == Dismiss(Expire(arbiter), key)
<1>2. revision' = revision + 1 /\ pending' = pending /\ ContextTypes /\ revision \in Nat
  BY DEF DismissCommand, TypesInv, ContextTypes
<1>3. GoodArbiter(arb, revision) /\ NoMoreThan(arb, Expire(arbiter))
  BY <1>2, ExpiredIs, ErasesWell DEF Dismiss
<1>4. arbiter' = arb
  BY <1>1
<1> HIDE DEF arb
<1>5. GoodArbiter(arb, revision + 1) /\ NoMoreThan(arb, arbiter) /\ revision + 1 \in Nat
  BY <1>2, <1>3, ExpiredIs, FewerKept, RankedLonger
<1>6. Published(arb) \subseteq AtHand /\ Part(pending', pending)
  BY <1>2, <1>5, PartsAre DEF NoMoreThan, AtHand
<1>7. DOMAIN accepted' \subseteq Keys
  BY <1>1, <1>2, StillAcceptedTyped DEF Remove
<1>8. ContextTypes' /\ AtHand' \subseteq AtHand
  BY <1>2, <1>4, <1>5, <1>6, <1>7, FewerContexts
<1>9. ProcessTypes'
  BY SameTypes DEF DismissCommand, modules
<1> QED
  BY <1>8, <1>9 DEF TypesInv

LEMMA RenderAcceptedKeeps ==
  ASSUME TypesInv, RenderAccepted
  PROVE  TypesInv' /\ AtHand' \subseteq AtHand
<1>1. /\ arbiter' = arbiter /\ revision' = revision /\ ContextTypes /\ revision \in Nat
      /\ accepted' = Over(Within(arbiter.contexts, KeysIn(Selected)), accepted)
      /\ DOMAIN accepted \subseteq Keys /\ pending' = Remove(pending, KeysIn(Selected))
  BY DEF RenderAccepted, Accept, TypesInv, ContextTypes
<1>2. Published(arbiter) \subseteq Keys
  BY <1>1, ExpiredIs, ArbiterParts DEF GoodArbiter
<1>3. DOMAIN accepted' \subseteq Keys
  BY <1>1, <1>2 DEF Over, Within, Published
<1>4. Published(arbiter) \subseteq AtHand /\ Part(pending', pending)
  BY <1>1, PartsAre DEF AtHand
<1>5. ContextTypes' /\ AtHand' \subseteq AtHand
  BY <1>1, <1>3, <1>4, ExpiredIs, FewerContexts
<1>6. ProcessTypes'
  BY SameTypes DEF RenderAccepted, modules
<1> QED
  BY <1>5, <1>6 DEF TypesInv

\* What is published again was at hand.
LEMMA RenderRejectedKeeps ==
  ASSUME TypesInv, RenderRejected
  PROVE  TypesInv' /\ AtHand' \subseteq AtHand
<1>1. PICK key : key = Refused(Selected).key
  OBVIOUS
<1> DEFINE restores == key \in DOMAIN pending /\ pending[key] # NoContext
           arb == IF restores THEN Publish(arbiter, pending[key]) ELSE Dismiss(arbiter, key)
<1>2. /\ arbiter' = arb /\ accepted' = StillAccepted(arb) /\ pending' = Remove(pending, {key})
      /\ revision' = revision + 1 /\ ContextTypes /\ revision \in Nat
  BY <1>1 DEF RenderRejected, Rejected, TypesInv, ContextTypes
<1>3. /\ GoodArbiter(arbiter, revision) /\ \A k \in Waiting : pending[k] \in PublishedContext
      /\ \A k \in Waiting : pending[k].key = k
  BY <1>2 DEF ContextTypes
<1>4. GoodArbiter(arb, revision + 1) /\ Published(arb) \subseteq AtHand
  <2>1. CASE restores
    <3>1. key \in Waiting /\ pending[key] \in PublishedContext /\ pending[key].key = key
      BY <1>3, <2>1 DEF Waiting
    <3>2. arb = Publish(arbiter, pending[key])
      BY <2>1
    <3>3. ASSUME NEW context, context = pending[key]
          PROVE  /\ GoodArbiter(Publish(arbiter, context), revision + 1)
                 /\ Published(Publish(arbiter, context)) \subseteq Published(arbiter) \cup {context.key}
      BY <1>2, <1>3, <3>1, <3>3, PublishesWell
    <3> QED
      BY <3>1, <3>2, <3>3 DEF AtHand
  <2>2. CASE ~restores
    <3>1. arb = Erase(arbiter, {key})
      BY <2>2 DEF Dismiss
    <3>2. GoodArbiter(Erase(arbiter, {key}), revision) /\ NoMoreThan(Erase(arbiter, {key}), arbiter)
      BY <1>3, ErasesWell
    <3>3. GoodArbiter(Erase(arbiter, {key}), revision + 1)
      BY <1>2, <3>2, RankedLonger
    <3> QED
      BY <3>1, <3>2, <3>3 DEF AtHand, NoMoreThan
  <2> QED
    BY <2>1, <2>2
<1> HIDE DEF arb
<1>5. Part(pending', pending) /\ DOMAIN accepted' \subseteq Keys /\ revision + 1 \in Nat
  <2>1. Part(pending', pending)
    BY <1>2, PartsAre
  <2>2. DOMAIN accepted' \subseteq Keys
    BY <1>2, StillAcceptedTyped
  <2> QED
    BY <1>2, <2>1, <2>2
<1>6. ContextTypes' /\ AtHand' \subseteq AtHand
  BY <1>2, <1>4, <1>5, FewerContexts
<1>7. ProcessTypes'
  BY SameTypes DEF RenderRejected, modules
<1> QED
  BY <1>6, <1>7 DEF TypesInv

LEMMA SameContexts ==
  ASSUME TypesInv, UNCHANGED <<arbiter, pending, revision, accepted>>
  PROVE  ContextTypes' /\ AtHand' \subseteq AtHand
<1>1. ContextTypes /\ DOMAIN accepted' \subseteq Keys /\ Part(pending', pending)
      /\ Published(arbiter) \subseteq AtHand
  BY PartsAre DEF TypesInv, ContextTypes, AtHand
<1> QED
  BY <1>1, ExpiredIs, FewerContexts

LEMMA StandingStillKeeps ==
  ASSUME TypesInv, BeginFrame \/ RenderNothing
  PROVE  TypesInv' /\ AtHand' \subseteq AtHand
<1>1. UNCHANGED <<coordinator, modules, accepted>>
  BY DEF BeginFrame, RenderNothing
<1>2. ContextTypes' /\ AtHand' \subseteq AtHand
  BY <1>1, SameContexts DEF coordinator
<1>3. ProcessTypes'
  BY <1>1, SameTypes DEF coordinator, modules
<1> QED
  BY <1>2, <1>3 DEF TypesInv

LEMMA TellKeeps ==
  ASSUME TypesInv, Tell
  PROVE  TypesInv' /\ AtHand' \subseteq AtHand
<1> DEFINE listening == {i \in ready : config[i].enabled}
           presented == content /\ rendered # Nothing
           selected(slot) == IF presented THEN Active(Expire(arbiter), slot) ELSE NoContext
           next(slot) == [i \in listening |-> VisibilityOf(i, selected(slot), slot)]
           updated(slot) ==
             {i \in listening : i \notin DOMAIN visibility \/ visibility[i] # next(slot)[i]}
<1>1. PICK slot \in Slots :
        /\ arbiter' = Expire(arbiter) /\ accepted' = StillAccepted(Expire(arbiter))
        /\ visibility' = Over(next(slot), visibility)
        /\ seen' = [i \in Instances |-> IF i \in updated(slot) /\ presence[i] = "running"
                                        THEN next(slot)[i] ELSE seen[i]]
  BY Zenon DEF Tell
<1>2. /\ UNCHANGED <<config, snapshots, ready, generations, pending, revision, presence, generation,
                     queue>>
      /\ ContextTypes /\ ProcessTypes
  BY DEF Tell, TypesInv
<1>3. Published(Expire(arbiter)) \subseteq AtHand /\ Part(pending', pending)
  BY <1>2, ExpiredIs, PartsAre DEF NoMoreThan, AtHand
<1>4. DOMAIN accepted' \subseteq Keys
  BY <1>1, <1>2, StillAcceptedTyped
<1>5. ContextTypes' /\ AtHand' \subseteq AtHand
  BY <1>1, <1>2, <1>3, <1>4, ExpiredIs, FewerContexts
<1> DEFINE V == Slots \cup {"hidden"}
<1>6. listening \subseteq Instances /\ updated(slot) \subseteq listening
      /\ \A i \in listening : VisibilityOf(i, selected(slot), slot) \in V
  BY <1>2 DEF ProcessTypes, VisibilityOf
<1>7. next(slot) \in [listening -> V]
  BY <1>6
<1>8. visibility \in [DOMAIN visibility -> V] /\ DOMAIN visibility \in SUBSET Instances
  BY <1>2, MapsAre DEF ProcessTypes
<1> HIDE DEF next, updated, listening, selected
<1>9. visibility' \in [listening \cup DOMAIN visibility -> V]
  <2>1. DOMAIN next(slot) = listening
    BY <1>7
  <2> QED
    BY <1>1, <1>7, <1>8, <2>1 DEF Over
<1>10. visibility' \in MapsOf(Instances, V)
  <2>1. listening \cup DOMAIN visibility \in SUBSET Instances
    BY <1>6, <1>8
  <2> QED
    BY <1>9, <2>1, IsMap
<1>11. seen' \in [Instances -> V \cup {"untold"}]
  BY <1>1, <1>2, <1>6, <1>7 DEF ProcessTypes
<1>12. ProcessTypes'
  BY <1>2, <1>10, <1>11 DEF ProcessTypes
<1> QED
  BY <1>5, <1>12 DEF TypesInv

LEMMA TickKeeps ==
  ASSUME TypesInv, Tick
  PROVE  TypesInv' /\ AtHand' \subseteq AtHand
<1>1. /\ arbiter' = Aged(arbiter) /\ revision' = revision /\ DOMAIN accepted' = DOMAIN accepted
      /\ pending' = [key \in DOMAIN pending |->
                       IF pending[key] = NoContext THEN NoContext ELSE Older(pending[key])]
      /\ ContextTypes
  BY DEF Tick, TypesInv
<1>2. GoodArbiter(Aged(arbiter), revision) /\ Published(Aged(arbiter)) = Published(arbiter)
  BY <1>1, ExpiredIs, AgesWell
<1>3. GoodArbiter(arbiter, revision)'
  BY <1>1, <1>2, GoodSame
<1>4. \A left \in Lifetimes : Elapse(left) \in Lifetimes
  BY ArbiterAssumption DEF Lifetimes, Elapse, Forever
<1>5. \A c \in PublishedContext : Older(c) \in PublishedContext /\ Older(c).key = c.key
  BY <1>4 DEF PublishedContext, Older
<1>6. \A key \in Waiting' : key \in Waiting /\ pending'[key] = Older(pending[key])
  BY <1>1 DEF Waiting
<1>7. \A key \in Waiting' : pending'[key] \in PublishedContext /\ pending'[key].key = key
  BY <1>1, <1>5, <1>6 DEF ContextTypes
<1>8. ContextTypes'
  BY <1>1, <1>3, <1>7 DEF ContextTypes
<1>9. AtHand' \subseteq AtHand
  BY <1>1, <1>2, <1>6 DEF AtHand
<1>10. ProcessTypes'
  BY SameTypes DEF Tick, modules
<1> QED
  BY <1>8, <1>9, <1>10 DEF TypesInv

\* A reload brings contexts only when it changes a view.
LEMMA ReloadKeeps ==
  ASSUME TypesInv, NEW new \in Configurations, Reload(new)
  PROVE  TypesInv' /\ \A key \in AtHand' : Followed(key) => key \in AtHand
<1> DEFINE arb == PreparedArbiter(new)
           replaced == {i \in Instances : KindOfChange(i, config, new) = "process"}
<1>1. /\ arbiter' = arb /\ revision' = revision + 1 /\ pending' = << >> /\ config' = new
      /\ accepted' = arb.contexts
      /\ snapshots' \subseteq snapshots /\ ready' \subseteq ready
      /\ visibility' = Remove(visibility, replaced)
      /\ UNCHANGED <<generations, presence, generation, queue, seen>>
      /\ ContextTypes /\ ProcessTypes /\ revision \in Nat /\ revision + 1 \in Nat
  BY DEF Reload, CommitReload, TypesInv, ContextTypes
<1>2. /\ GoodArbiter(arb, revision + 1)
      /\ \A key \in Published(arb) :
           key \in Published(arbiter) \/ IsNewView(key, config, new)
  BY PreparesWell
<1> HIDE DEF arb, replaced
<1>3. GoodArbiter(arbiter, revision)'
  BY <1>1, <1>2, GoodSame
<1>4. Waiting' = {}
  BY <1>1 DEF Waiting
<1>5. DOMAIN accepted' \subseteq Keys
  <2>1. Published(arb) \subseteq Keys
    BY <1>2, ArbiterParts DEF GoodArbiter
  <2> QED
    BY <1>1, <2>1 DEF Published
<1>6. ContextTypes'
  BY <1>1, <1>3, <1>4, <1>5 DEF ContextTypes
<1>7. visibility' \in MapsOf(Instances, Slots \cup {"hidden"})
  <2> DEFINE V == Slots \cup {"hidden"}
  <2>1. visibility \in [DOMAIN visibility -> V] /\ DOMAIN visibility \in SUBSET Instances
    BY <1>1, MapsAre DEF ProcessTypes
  <2> HIDE DEF V
  <2>2. visibility' \in [DOMAIN visibility \ replaced -> V]
    BY <1>1, <2>1 DEF Remove
  <2>3. DOMAIN visibility \ replaced \in SUBSET Instances
    BY <2>1
  <2>4. visibility' \in MapsOf(Instances, V)
    BY <2>2, <2>3, IsMap
  <2> QED
    BY <2>4 DEF V
<1>8. ProcessTypes'
  BY <1>1, <1>7 DEF ProcessTypes
<1>9. ASSUME NEW key \in AtHand', Followed(key) PROVE key \in AtHand
  <2>1. key \in Published(arb)
    BY <1>1, <1>4, <1>9 DEF AtHand
  <2>2. config \in Configurations
    BY <1>1 DEF ProcessTypes
  <2> QED
    BY <1>2, <1>9, <2>1, <2>2 DEF Followed, AtHand, IsNewView
<1> QED
  BY <1>6, <1>8, <1>9 DEF TypesInv

--------------------------------------------------------------------------------
(* The frame's events.                                                             *)

LEMMA ConsumedTypes ==
  ASSUME TypesInv, queue # << >>, queue' = Tail(queue), UNCHANGED <<config, presence, generation, seen>>,
         snapshots' \subseteq {i \in Instances : Configured(i) \in Keys}, ready' \subseteq Instances,
         DOMAIN generations' \subseteq Instances, generations' \in [DOMAIN generations' -> Nat],
         visibility' \in MapsOf(Instances, Slots \cup {"hidden"})
  PROVE  ProcessTypes'
<1>1. queue' \in Seq(EventRecord)
  BY TailIs
<1> QED
  BY <1>1 DEF TypesInv, ProcessTypes

LEMMA BackedKept ==
  ASSUME BackedInv, UNCHANGED <<generations, presence, generation>>,
         \A key \in AtHand' : Followed(key) => key \in AtHand \/ Backed(key)
  PROVE  BackedInv'
<1>1. \A key \in AtHand' : Followed(key) => Backed(key)
  BY DEF BackedInv
<1> QED
  BY <1>1 DEF BackedInv, Backed, Followed

\* A process that says something has started, and its removal is not consumed.
LEMMA SpeakersAreBacked ==
  ASSUME TypesInv, EventsInv, queue # << >>, Head(queue).kind \in Speech, NEW key,
         key[1] = Head(queue).instance
  PROVE  Backed(key)
<1>1. PICK i, g : i = Head(queue).instance /\ g = Head(queue).generation
  OBVIOUS
<1>2. Known(i, g) /\ g \in Nat /\ generation[i] \in Nat /\ g <= generation[i]
      /\ (g = generation[i] => presence[i] # "starting")
  BY <1>1, HeadIs
<1> QED
  BY <1>1, <1>2 DEF Backed, Known

\* What a publication adds to the contexts at hand is the one that is published.
LEMMA PublishedWell ==
  ASSUME ContextTypes, NEW context \in PublishedContext, NEW key, key = context.key,
         \/ arbiter' = Publish(LookedUp(key), context)
         \/ arbiter' = Expire(Publish(LookedUp(key), context)),
         Part(pending', RememberReplacement(key)), DOMAIN accepted' \subseteq Keys,
         revision' = revision + 1
  PROVE  ContextTypes' /\ AtHand' \subseteq AtHand \cup {key}
<1>1. /\ GoodArbiter(arbiter, revision) /\ GoodArbiter(Expire(arbiter), revision)
      /\ NoMoreThan(Expire(arbiter), arbiter) /\ revision \in Nat
      /\ GoodArbiter(LookedUp(key), revision) /\ Published(LookedUp(key)) \subseteq Published(arbiter)
  BY ExpiredIs DEF LookedUp, NoMoreThan
<1>2. PICK first : first = Publish(LookedUp(key), context)
  OBVIOUS
<1>3. /\ GoodArbiter(first, revision + 1)
      /\ Published(first) \subseteq Published(LookedUp(key)) \cup {key}
  BY <1>1, <1>2, PublishesWell
<1>4. GoodArbiter(Expire(first), revision + 1) /\ NoMoreThan(Expire(first), first)
  BY <1>3, ExpiresWell
<1>5. PICK arb : arb = arbiter' /\ GoodArbiter(arb, revision + 1) /\ Published(arb) \subseteq Published(first)
  <2>1. NoMoreThan(Expire(first), first) => Published(Expire(first)) \subseteq Published(first)
    BY DEF NoMoreThan
  <2> QED
    BY <1>2, <1>3, <1>4, <2>1
<1>6. GoodArbiter(arbiter, revision)'
  BY <1>5, GoodSame
<1>7. Published(arb) \subseteq Published(arbiter) \cup {key}
  BY <1>1, <1>3, <1>5 DEF NoMoreThan
<1>9. key \in Keys
  BY DEF PublishedContext
<1>10. ASSUME NEW k \in DOMAIN pending'
       PROVE  \/ k \in DOMAIN pending /\ pending'[k] = pending[k]
              \/ k = key /\ pending'[k] = NoContext
              \/ /\ k = key /\ key \in Published(arbiter) /\ pending'[k] = arbiter.contexts[key]
  <2>1. \A l \in Published(Expire(arbiter)) :
          l \in Published(arbiter) /\ Expire(arbiter).contexts[l] = arbiter.contexts[l]
    BY <1>1 DEF NoMoreThan
  <2>2. CASE key \in DOMAIN pending
    BY <1>10, <2>2 DEF Part, RememberReplacement
  <2>3. CASE key \notin DOMAIN pending /\ key \in Published(Expire(arbiter))
    <3>1. RememberReplacement(key) = Put(pending, key, Expire(arbiter).contexts[key])
      BY <2>3 DEF RememberReplacement
    <3> QED
      BY <1>10, <2>1, <2>3, <3>1 DEF Part, Put
  <2>4. CASE key \notin DOMAIN pending /\ key \notin Published(Expire(arbiter))
    <3>1. RememberReplacement(key) = Put(pending, key, NoContext)
      BY <2>4 DEF RememberReplacement
    <3> QED
      BY <1>10, <2>4, <3>1 DEF Part, Put
  <2> QED
    BY <2>2, <2>3, <2>4
<1>11. \A k \in Published(arbiter) : arbiter.contexts[k] \in PublishedContext /\ arbiter.contexts[k].key = k
  BY <1>1, ArbiterParts DEF GoodArbiter, Ranked
<1>12. \A k \in Waiting' :
         /\ k \in AtHand /\ pending'[k] \in PublishedContext /\ pending'[k].key = k
  BY <1>10, <1>11 DEF Waiting, AtHand, ContextTypes
<1>13. DOMAIN pending' \subseteq Keys
  BY <1>9, <1>10 DEF ContextTypes
<1>14. ContextTypes'
  BY <1>1, <1>6, <1>12, <1>13 DEF ContextTypes
<1>15. AtHand' \subseteq AtHand \cup {key}
  BY <1>5, <1>7, <1>12 DEF AtHand
<1> QED
  BY <1>14, <1>15

\* A start: whatever there was of the process before has been removed.
LEMMA ConsumeStartedKeeps ==
  ASSUME RuntimeInv, Consume, ConsumeStarted(Head(queue))
  PROVE  RuntimeInv'
<1>1. PICK i, g : i = Head(queue).instance /\ g = Head(queue).generation
  OBVIOUS
<1>2. /\ queue # << >> /\ queue' = Tail(queue) /\ UNCHANGED <<config, presence, generation, seen>>
      /\ Head(queue).kind = "started" /\ generations' = Put(generations, i, g)
      /\ UNCHANGED <<arbiter, snapshots, ready, visibility, pending, revision, accepted>>
      /\ TypesInv /\ EventsInv /\ BackedInv
  BY <1>1 DEF Consume, ConsumeStarted, RuntimeInv
<1>3. /\ i \in Instances /\ g \in Nat /\ generation[i] \in Nat /\ g <= generation[i]
      /\ i \in DOMAIN generations => generations[i] \in Nat /\ generations[i] < g
  BY <1>1, <1>2, HeadIs
<1>4. /\ DOMAIN generations' = DOMAIN generations \cup {i} /\ generations'[i] = g
      /\ \A j \in DOMAIN generations : j # i => generations'[j] = generations[j]
  BY <1>2 DEF Put
<1>5. ContextTypes' /\ AtHand' \subseteq AtHand
  BY <1>2, SameContexts
<1>6. ProcessTypes'
  <2>1. generations \in [DOMAIN generations -> Nat] /\ DOMAIN generations \subseteq Instances
    BY <1>2 DEF TypesInv, ProcessTypes
  <2>2. generations' \in [DOMAIN generations' -> Nat]
    BY <1>2, <1>3, <1>4, <2>1 DEF Put
  <2>3. DOMAIN generations' \subseteq Instances
    BY <1>3, <1>4, <2>1
  <2> QED
    BY <1>2, <2>2, <2>3, ConsumedTypes DEF TypesInv, ProcessTypes
<1>7. EventsInv'
  BY <1>1, <1>2, EventsConsumedStart
<1>8. ASSUME NEW key \in AtHand, Followed(key), NEW j, j = key[1]
      PROVE  j \in DOMAIN generations' /\ (presence[j] = "starting" => generations'[j] < generation[j])
  <2>1. j \in DOMAIN generations /\ (presence[j] = "starting" => generations[j] < generation[j])
    BY <1>2, <1>8 DEF BackedInv, Backed
  <2>2. j # i
    <3> SUFFICES ASSUME j = i PROVE FALSE
      OBVIOUS
    <3>1. PICK old : old = generations[i] /\ old \in Nat /\ old < g /\ HasEnded(i, old)
      BY <1>3, <2>1 DEF HasEnded
    <3>2. Queued("removed", i, old)
      BY <1>2, <2>1, <3>1 DEF EventsInv, QueueEnds
    <3>3. Queued("removed", i, old)'
      BY <1>2, <3>2, QueuedLater
    <3>4. PICK n \in DOMAIN queue' : queue'[n].instance = i /\ queue'[n].generation = old
      BY <3>3 DEF Queued
    <3> QED
      BY <1>1, <1>2, <1>3, <3>1, <3>4, HeadComesFirst
  <2> QED
    BY <1>4, <2>1, <2>2
<1>9. BackedInv'
  BY <1>2, <1>5, <1>8 DEF BackedInv, Backed, Followed
<1> QED
  BY <1>5, <1>6, <1>7, <1>9 DEF RuntimeInv, TypesInv

\* What a process says leaves known what was known.
LEMMA HeardKeeps ==
  ASSUME RuntimeInv, Consume, UNCHANGED generations,
         \/ Head(queue).kind \in Speech
         \/ Head(queue).kind = "removed" /\ ~Matches(Head(queue)),
         snapshots' \subseteq {i \in Instances : Configured(i) \in Keys}, ready' \subseteq Instances,
         UNCHANGED visibility, ContextTypes',
         \A key \in AtHand' : key \in AtHand \/ Backed(key)
  PROVE  RuntimeInv'
<1>1. /\ queue # << >> /\ queue' = Tail(queue) /\ UNCHANGED <<config, presence, generation, seen>>
      /\ TypesInv /\ EventsInv /\ BackedInv
  BY DEF Consume, RuntimeInv
<1>2. EventsInv'
  BY <1>1, EventsConsumedQuietly
<1>3. BackedInv'
  BY <1>1, BackedKept
<1>4. /\ DOMAIN generations' \subseteq Instances /\ generations' \in [DOMAIN generations' -> Nat]
      /\ visibility' \in MapsOf(Instances, Slots \cup {"hidden"})
  BY <1>1 DEF TypesInv, ProcessTypes
<1>5. ProcessTypes'
  BY <1>1, <1>4, ConsumedTypes
<1> QED
  BY <1>2, <1>3, <1>5 DEF RuntimeInv, TypesInv

LEMMA ConsumeReadyKeeps ==
  ASSUME RuntimeInv, Consume, ConsumeReady(Head(queue))
  PROVE  RuntimeInv'
<1>1. PICK i, g : i = Head(queue).instance /\ g = Head(queue).generation
  OBVIOUS
<1>2. /\ queue # << >> /\ queue' = Tail(queue) /\ Head(queue).kind \in Speech
      /\ ready' = ready \cup {i} /\ generations' = Put(generations, i, g)
      /\ UNCHANGED <<arbiter, snapshots, visibility, pending, revision, accepted>>
      /\ TypesInv /\ EventsInv
  BY <1>1 DEF Consume, ConsumeReady, RuntimeInv, Speech
<1>3. i \in Instances /\ Known(i, g)
  BY <1>1, <1>2, HeadIs
<1>4. generations' = generations
  <2>1. generations \in [DOMAIN generations -> Nat] /\ i \in DOMAIN generations /\ generations[i] = g
    BY <1>2, <1>3 DEF TypesInv, ProcessTypes, Known
  <2> QED
    BY <1>2, <2>1 DEF Put
<1>5. ContextTypes' /\ AtHand' \subseteq AtHand
  BY <1>2, SameContexts
<1>6. snapshots' \subseteq {j \in Instances : Configured(j) \in Keys} /\ ready' \subseteq Instances
  BY <1>2, <1>3 DEF TypesInv, ProcessTypes
<1> QED
  BY <1>2, <1>4, <1>5, <1>6, HeardKeeps

LEMMA ConsumePublishKeeps ==
  ASSUME RuntimeInv, Consume, ConsumePublish(Head(queue))
  PROVE  RuntimeInv'
<1>1. PICK context, key : context = Received(Head(queue).about, revision + 1)
                          /\ key = Head(queue).about.key
  OBVIOUS
<1>2. /\ queue # << >> /\ Head(queue).kind \in Speech /\ Head(queue).kind = "publish"
      /\ arbiter' = Expire(Publish(LookedUp(key), context))
      /\ pending' = Prune(RememberReplacement(key), arbiter') /\ accepted' = StillAccepted(arbiter')
      /\ revision' = revision + 1
      /\ UNCHANGED <<snapshots, ready, generations, visibility>>
      /\ TypesInv /\ EventsInv /\ ContextTypes /\ ProcessTypes /\ revision \in Nat
  BY <1>1 DEF Consume, ConsumePublish, RuntimeInv, Speech, TypesInv, ContextTypes
<1>3. Head(queue).about \in Publications /\ key[1] = Head(queue).instance
  <2>1. 1 \in DOMAIN queue /\ queue[1] = Head(queue)
    BY <1>2 DEF TypesInv, ProcessTypes
  <2> QED
    BY <1>1, <1>2, <2>1 DEF EventsInv, QueueSays
<1>4. context \in PublishedContext /\ context.key = key
  <2>1. revision + 1 \in Nat
    BY <1>2
  <2> QED
    BY <1>1, <1>3, <2>1, PublicationsAreContexts
<1>5. Part(pending', RememberReplacement(key))
  BY <1>2, PartsAre
<1>6. ContextTypes' /\ AtHand' \subseteq AtHand \cup {key}
  <2>1. DOMAIN accepted' \subseteq Keys
    BY <1>2, StillAcceptedTyped
  <2> QED
    BY <1>2, <1>4, <1>5, <2>1, PublishedWell
<1>7. Backed(key)
  BY <1>2, <1>3, SpeakersAreBacked
<1> QED
  BY <1>2, <1>6, <1>7, HeardKeeps DEF ProcessTypes

LEMMA ConsumeDataKeeps ==
  ASSUME RuntimeInv, Consume, ConsumeData(Head(queue))
  PROVE  RuntimeInv'
<1>1. PICK i, context, key : /\ i = Head(queue).instance /\ key = Configured(i)
                             /\ context = Instantiated(i, config[i].view, revision + 1)
  OBVIOUS
<1>2. /\ queue # << >> /\ Head(queue).kind \in Speech /\ Head(queue).kind = "data"
      /\ arbiter' = Publish(LookedUp(key), context)
      /\ pending' = RememberReplacement(key) /\ accepted' = accepted
      /\ revision' = revision + 1 /\ snapshots' = snapshots \cup {i}
      /\ UNCHANGED <<ready, generations, visibility>>
      /\ TypesInv /\ EventsInv /\ ContextTypes /\ ProcessTypes /\ revision \in Nat
  BY <1>1 DEF Consume, ConsumeData, RuntimeInv, Speech, TypesInv, ContextTypes
<1>3. key \in Keys /\ i \in Instances /\ key[1] = i
  <2>1. 1 \in DOMAIN queue /\ queue[1] = Head(queue)
    BY <1>2 DEF TypesInv, ProcessTypes
  <2>2. key \in Keys
    BY <1>1, <1>2, <2>1 DEF EventsInv, QueueSays
  <2> QED
    BY <1>1, <1>2, <2>2, HeadIs, ConfiguredIs
<1>4. context \in PublishedContext /\ context.key = key
  <2>1. config[i].view \in STRING /\ revision + 1 \in Nat
    BY <1>2, <1>3, RuntimeAssumption DEF ProcessTypes
  <2> QED
    BY <1>1, <1>3, <2>1, PublicationsAreContexts
<1>5. Part(pending', RememberReplacement(key))
  BY <1>2, PartsAre
<1>6. ContextTypes' /\ AtHand' \subseteq AtHand \cup {key}
  <2>1. DOMAIN accepted' \subseteq Keys
    BY <1>2 DEF ContextTypes
  <2> QED
    BY <1>2, <1>4, <1>5, <2>1, PublishedWell
<1>7. Backed(key)
  BY <1>1, <1>2, <1>3, SpeakersAreBacked
<1>8. snapshots' \subseteq {j \in Instances : Configured(j) \in Keys} /\ ready' \subseteq Instances
  BY <1>1, <1>2, <1>3 DEF ProcessTypes
<1> QED
  BY <1>2, <1>6, <1>7, <1>8, HeardKeeps

LEMMA ConsumeDismissKeeps ==
  ASSUME RuntimeInv, Consume, ConsumeDismiss(Head(queue))
  PROVE  RuntimeInv'
<1>1. PICK key : key = Head(queue).about
  OBVIOUS
<1>2. /\ queue # << >> /\ Head(queue).kind \in Speech
      /\ arbiter' = Erase(arbiter, {key}) /\ accepted' = Remove(accepted, {key})
      /\ pending' = Remove(pending, {key}) /\ revision' = revision + 1
      /\ UNCHANGED <<snapshots, ready, generations, visibility>>
      /\ TypesInv /\ ContextTypes /\ ProcessTypes /\ revision \in Nat /\ revision + 1 \in Nat
  BY <1>1 DEF Consume, ConsumeDismiss, Dismiss, RuntimeInv, Speech, TypesInv, ContextTypes
<1>3. PICK arb : arb = Erase(arbiter, {key})
  OBVIOUS
<1>4. GoodArbiter(arb, revision) /\ NoMoreThan(arb, arbiter)
  BY <1>2, <1>3, ExpiredIs, ErasesWell
<1>5. GoodArbiter(arb, revision + 1)
  BY <1>2, <1>4, RankedLonger
<1>6. Published(arb) \subseteq AtHand
  BY <1>4 DEF NoMoreThan, AtHand
<1>7. Part(pending', pending)
  BY <1>2, PartsAre
<1>8. DOMAIN accepted' \subseteq Keys
  BY <1>2 DEF ContextTypes, Remove
<1>9. ContextTypes' /\ AtHand' \subseteq AtHand
  BY <1>2, <1>3, <1>5, <1>6, <1>7, <1>8, FewerContexts
<1> QED
  BY <1>2, <1>9, HeardKeeps DEF ProcessTypes

LEMMA ConsumeNothingKeeps ==
  ASSUME RuntimeInv, Consume, ConsumeNothing(Head(queue))
  PROVE  RuntimeInv'
<1>1. /\ queue # << >> /\ TypesInv /\ ProcessTypes
      /\ UNCHANGED <<arbiter, snapshots, ready, generations, visibility, pending, revision, accepted>>
  BY DEF Consume, ConsumeNothing, RuntimeInv, TypesInv
<1>2. Head(queue).kind \in {"started", "removed"} \cup Speech
  <2>1. 1 \in DOMAIN queue /\ queue[1] = Head(queue)
    BY <1>1 DEF ProcessTypes
  <2> QED
    BY <1>1, <2>1, QueueIs DEF EventRecord
<1>3. Head(queue).kind \in Speech \/ (Head(queue).kind = "removed" /\ ~Matches(Head(queue)))
  BY <1>2 DEF ConsumeNothing, Speech
<1>4. ContextTypes' /\ AtHand' \subseteq AtHand
  BY <1>1, SameContexts
<1> QED
  BY <1>1, <1>3, <1>4, HeardKeeps DEF ProcessTypes

\* A removal takes everything of its instance.
LEMMA ConsumeRemovedKeeps ==
  ASSUME RuntimeInv, Consume, ConsumeRemoved(Head(queue))
  PROVE  RuntimeInv'
<1>1. PICK i : i = Head(queue).instance
  OBVIOUS
<1> DEFINE K == {key \in Keys : key[1] = i}
<1>2. /\ queue # << >> /\ queue' = Tail(queue) /\ UNCHANGED <<config, presence, generation, seen>>
      /\ Head(queue).kind = "removed" /\ Matches(Head(queue))
      /\ arbiter' = Erase(arbiter, K) /\ accepted' = Remove(accepted, K)
      /\ pending' = Remove(pending, K) /\ revision' = revision + 1 /\ snapshots' = snapshots
      /\ ready' \subseteq ready /\ generations' = Remove(generations, {i})
      /\ visibility' = Remove(visibility, {i})
      /\ TypesInv /\ EventsInv /\ BackedInv /\ ContextTypes /\ ProcessTypes
      /\ revision \in Nat /\ revision + 1 \in Nat
  BY <1>1 DEF Consume, ConsumeRemoved, Forget, DismissInstance, RuntimeInv, TypesInv, ContextTypes
<1>3. PICK arb : arb = Erase(arbiter, K)
  OBVIOUS
<1>4. /\ GoodArbiter(arb, revision) /\ NoMoreThan(arb, arbiter)
      /\ Published(arb) = Published(arbiter) \ K
  BY <1>2, <1>3, ExpiredIs, ErasesWell
<1>5. GoodArbiter(arb, revision + 1)
  BY <1>2, <1>4, RankedLonger
<1>6. Published(arb) \subseteq AtHand
  BY <1>4 DEF AtHand
<1>7. Part(pending', pending)
  BY <1>2, PartsAre
<1>8. DOMAIN accepted' \subseteq Keys
  BY <1>2 DEF ContextTypes, Remove
<1>9. ContextTypes' /\ AtHand' \subseteq AtHand
  BY <1>2, <1>3, <1>5, <1>6, <1>7, <1>8, FewerContexts
<1>10. AtHand \subseteq Keys
  BY <1>2, ExpiredIs, ArbiterParts DEF AtHand, Waiting, ContextTypes, GoodArbiter
<1>11. \A key \in AtHand' : key[1] # i
  <2>1. \A key \in DOMAIN pending' : key \notin K
    BY <1>2 DEF Remove
  <2>2. \A key \in AtHand' : key \notin K
    BY <1>2, <1>3, <1>4, <2>1 DEF AtHand, Waiting
  <2> QED
    BY <1>9, <1>10, <2>2
<1>12. /\ DOMAIN generations' = DOMAIN generations \ {i}
       /\ \A j \in DOMAIN generations' : generations'[j] = generations[j]
  BY <1>2 DEF Remove
<1>13. EventsInv'
  BY <1>1, <1>2, <1>12, EventsConsumedRemoval
<1>14. BackedInv'
  BY <1>2, <1>9, <1>11, <1>12 DEF BackedInv, Backed, Followed
<1>15. ProcessTypes'
  <2> DEFINE V == Slots \cup {"hidden"}
  <2>1. generations' \in [DOMAIN generations' -> Nat] /\ DOMAIN generations' \subseteq Instances
    BY <1>2 DEF ProcessTypes, Remove
  <2>2. visibility \in [DOMAIN visibility -> V] /\ DOMAIN visibility \in SUBSET Instances
    BY <1>2, MapsAre DEF ProcessTypes
  <2> HIDE DEF V
  <2>3. visibility' \in [DOMAIN visibility \ {i} -> V]
    BY <1>2, <2>2 DEF Remove
  <2>4. DOMAIN visibility \ {i} \in SUBSET Instances
    BY <2>2
  <2>5. visibility' \in MapsOf(Instances, V)
    BY <2>3, <2>4, IsMap
  <2>6. snapshots' \subseteq {j \in Instances : Configured(j) \in Keys} /\ ready' \subseteq Instances
    BY <1>2 DEF ProcessTypes
  <2> QED
    BY <1>2, <2>1, <2>5, <2>6, ConsumedTypes DEF V
<1> QED
  BY <1>9, <1>13, <1>14, <1>15 DEF RuntimeInv, TypesInv

LEMMA ConsumeKeeps ==
  ASSUME RuntimeInv, Consume
  PROVE  RuntimeInv'
<1>1. \/ ConsumeStarted(Head(queue)) \/ ConsumeReady(Head(queue)) \/ ConsumePublish(Head(queue))
      \/ ConsumeData(Head(queue)) \/ ConsumeDismiss(Head(queue)) \/ ConsumeRemoved(Head(queue))
      \/ ConsumeNothing(Head(queue))
  BY DEF Consume
<1> QED
  BY <1>1, ConsumeStartedKeeps, ConsumeReadyKeeps, ConsumePublishKeeps, ConsumeDataKeeps,
     ConsumeDismissKeeps, ConsumeRemovedKeeps, ConsumeNothingKeeps

--------------------------------------------------------------------------------
(* The modules and the supervisor.                                                 *)

LEMMA EmittedKeeps ==
  ASSUME RuntimeInv, UNCHANGED <<coordinator, accepted>>, NEW e \in EventRecord, NEW i, i = e.instance,
         queue' = Append(queue, e), e.generation = generation'[i],
         presence' \in [Instances -> {"absent", "starting", "running"}],
         generation' \in [Instances -> Nat], seen' \in [Instances -> Slots \cup {"hidden", "untold"}],
         \A j \in Instances : j # i => presence'[j] = presence[j] /\ generation'[j] = generation[j],
         \/ /\ presence[i] = "absent" /\ generation'[i] = generation[i] + 1
            /\ \/ e.kind = "started" /\ presence'[i] = "starting"
               \/ e.kind = "removed" /\ presence'[i] = "absent"
         \/ /\ presence[i] # "absent" /\ generation'[i] = generation[i]
            /\ \/ e.kind \in Speech /\ presence'[i] = "running"
               \/ e.kind = "removed" /\ presence'[i] = "absent",
         e.kind = "publish" => e.about \in Publications /\ e.about.key[1] = i,
         e.kind = "dismiss" => e.about \in Keys,
         e.kind = "data" => Configured(i) \in Keys
  PROVE  RuntimeInv'
<1>1. TypesInv /\ EventsInv /\ BackedInv /\ ProcessTypes
      /\ UNCHANGED <<arbiter, config, snapshots, ready, generations, visibility, pending, revision, accepted>>
  BY DEF RuntimeInv, TypesInv, coordinator
<1>2. EventsInv' /\ queue' \in Seq(EventRecord)
  BY <1>1, EventsEmitted
<1>3. ContextTypes' /\ AtHand' \subseteq AtHand
  BY <1>1, SameContexts
<1>4. ProcessTypes'
  BY <1>1, <1>2 DEF ProcessTypes
<1>5. ASSUME NEW key \in AtHand, Followed(key), NEW j, j = key[1]
      PROVE  j \in DOMAIN generations /\ (presence'[j] = "starting" => generations[j] < generation'[j])
  <2>1. j \in DOMAIN generations /\ (presence[j] = "starting" => generations[j] < generation[j])
    BY <1>1, <1>5 DEF BackedInv, Backed
  <2>2. /\ j \in Instances /\ generations[j] \in Nat /\ generation[j] \in Nat
        /\ generations[j] <= generation[j]
    BY <1>1, <2>1 DEF ProcessTypes, EventsInv, QueueEnds
  <2> QED
    BY <2>1, <2>2
<1>6. BackedInv'
  BY <1>1, <1>3, <1>5 DEF BackedInv, Backed, Followed
<1> QED
  BY <1>2, <1>3, <1>4, <1>6 DEF RuntimeInv, TypesInv

LEMMA EmittedIs ==
  ASSUME NEW kind, NEW i, NEW number, NEW about, EmitEvent(kind, i, number, about)
  PROVE  \E e : /\ e = [kind |-> kind, instance |-> i, generation |-> number, about |-> about]
                /\ queue' = Append(queue, e)
  BY DEF EmitEvent

LEMMA ProcessStartsKeeps ==
  ASSUME RuntimeInv, NEW i \in Instances, ProcessStarts(i)
  PROVE  RuntimeInv'
<1>1. ProcessTypes /\ UNCHANGED <<coordinator, accepted>>
  BY DEF ProcessStarts, RuntimeInv, TypesInv
<1>2. PICK e : /\ e = [kind |-> "started", instance |-> i, generation |-> generation[i] + 1,
                       about |-> NothingMore]
               /\ queue' = Append(queue, e)
  BY EmittedIs DEF ProcessStarts
<1>3. e \in EventRecord
  BY <1>1, <1>2 DEF EventRecord, ProcessTypes
<1>4. /\ presence[i] = "absent" /\ presence' = [presence EXCEPT ![i] = "starting"]
      /\ generation' = [generation EXCEPT ![i] = @ + 1] /\ seen' = [seen EXCEPT ![i] = "untold"]
  BY DEF ProcessStarts
<1>5. /\ presence' \in [Instances -> {"absent", "starting", "running"}]
      /\ generation' \in [Instances -> Nat] /\ seen' \in [Instances -> Slots \cup {"hidden", "untold"}]
  BY <1>1, <1>4 DEF ProcessTypes
<1>6. /\ \A j \in Instances : j # i => presence'[j] = presence[j] /\ generation'[j] = generation[j]
      /\ presence'[i] = "starting" /\ generation'[i] = generation[i] + 1
  BY <1>1, <1>4 DEF ProcessTypes
<1> QED
  BY <1>1, <1>2, <1>3, <1>4, <1>5, <1>6, EmittedKeeps

LEMMA SpawnFailsKeeps ==
  ASSUME RuntimeInv, NEW i \in Instances, SpawnFails(i)
  PROVE  RuntimeInv'
<1>1. ProcessTypes /\ UNCHANGED <<coordinator, accepted>>
  BY DEF SpawnFails, RuntimeInv, TypesInv
<1>2. PICK e : /\ e = [kind |-> "removed", instance |-> i, generation |-> generation[i] + 1,
                       about |-> NothingMore]
               /\ queue' = Append(queue, e)
  BY EmittedIs DEF SpawnFails
<1>3. e \in EventRecord
  BY <1>1, <1>2 DEF EventRecord, ProcessTypes
<1>4. /\ presence[i] = "absent" /\ presence' = presence /\ seen' = seen
      /\ generation' = [generation EXCEPT ![i] = @ + 1]
  BY DEF SpawnFails
<1>5. /\ presence' \in [Instances -> {"absent", "starting", "running"}]
      /\ generation' \in [Instances -> Nat] /\ seen' \in [Instances -> Slots \cup {"hidden", "untold"}]
  BY <1>1, <1>4 DEF ProcessTypes
<1>6. /\ \A j \in Instances : j # i => presence'[j] = presence[j] /\ generation'[j] = generation[j]
      /\ presence'[i] = "absent" /\ generation'[i] = generation[i] + 1
  BY <1>1, <1>4 DEF ProcessTypes
<1> QED
  BY <1>1, <1>2, <1>3, <1>4, <1>5, <1>6, EmittedKeeps

\* A process that is there says something, or ends.
LEMMA SpeechKeeps ==
  ASSUME RuntimeInv, NEW i \in Instances, NEW kind \in Speech, NEW about,
         EmitEvent(kind, i, generation[i], about), UNCHANGED <<coordinator, generation, seen, accepted>>,
         presence[i] # "absent", presence' = [presence EXCEPT ![i] = "running"],
         about \in Publications \cup Keys \cup {NothingMore},
         kind = "publish" => about \in Publications /\ about.key[1] = i,
         kind = "dismiss" => about \in Keys,
         kind = "data" => Configured(i) \in Keys
  PROVE  RuntimeInv'
<1>1. ProcessTypes
  BY DEF RuntimeInv, TypesInv
<1>2. PICK e : /\ e = [kind |-> kind, instance |-> i, generation |-> generation[i], about |-> about]
               /\ queue' = Append(queue, e)
  BY EmittedIs
<1>3. e \in EventRecord
  BY <1>1, <1>2 DEF EventRecord, ProcessTypes
<1>4. /\ presence' \in [Instances -> {"absent", "starting", "running"}]
      /\ generation' \in [Instances -> Nat] /\ seen' \in [Instances -> Slots \cup {"hidden", "untold"}]
      /\ \A j \in Instances : j # i => presence'[j] = presence[j] /\ generation'[j] = generation[j]
      /\ presence'[i] = "running" /\ generation'[i] = generation[i]
  BY <1>1 DEF ProcessTypes
<1> QED
  BY <1>2, <1>3, <1>4, EmittedKeeps

LEMMA RemovalKeeps ==
  ASSUME RuntimeInv, NEW i \in Instances, EmitEvent("removed", i, generation[i], NothingMore),
         UNCHANGED <<coordinator, generation, seen, accepted>>,
         presence[i] # "absent", presence' = [presence EXCEPT ![i] = "absent"]
  PROVE  RuntimeInv'
<1>1. ProcessTypes
  BY DEF RuntimeInv, TypesInv
<1>2. PICK e : /\ e = [kind |-> "removed", instance |-> i, generation |-> generation[i],
                       about |-> NothingMore]
               /\ queue' = Append(queue, e)
  BY EmittedIs
<1>3. e \in EventRecord
  BY <1>1, <1>2 DEF EventRecord, ProcessTypes
<1>4. /\ presence' \in [Instances -> {"absent", "starting", "running"}]
      /\ generation' \in [Instances -> Nat] /\ seen' \in [Instances -> Slots \cup {"hidden", "untold"}]
      /\ \A j \in Instances : j # i => presence'[j] = presence[j] /\ generation'[j] = generation[j]
      /\ presence'[i] = "absent" /\ generation'[i] = generation[i]
  BY <1>1 DEF ProcessTypes
<1> QED
  BY <1>2, <1>3, <1>4, EmittedKeeps

LEMMA SameKeeps ==
  ASSUME RuntimeInv, UNCHANGED <<coordinator, presence, generation, queue, seen, accepted>>
  PROVE  RuntimeInv'
<1>1. TypesInv /\ EventsInv /\ BackedInv
      /\ UNCHANGED <<arbiter, config, snapshots, ready, generations, visibility, pending, revision>>
  BY DEF RuntimeInv, coordinator
<1>2. ContextTypes' /\ AtHand' \subseteq AtHand
  BY <1>1, SameContexts
<1>3. ProcessTypes'
  BY <1>1, SameTypes
<1>4. EventsInv'
  BY <1>1, EventsSame
<1>5. BackedInv'
  BY <1>1, <1>2, BackedKept
<1> QED
  BY <1>2, <1>3, <1>4, <1>5 DEF RuntimeInv, TypesInv

LEMMA SaysKeeps ==
  ASSUME RuntimeInv, NEW i \in Instances, Says(i)
  PROVE  RuntimeInv'
<1>1. /\ presence[i] = "running" /\ UNCHANGED <<coordinator, presence, generation, seen, accepted>>
      /\ ProcessTypes
  BY DEF Says, RuntimeInv, TypesInv
<1>2. presence' = [presence EXCEPT ![i] = "running"] /\ presence[i] # "absent"
  BY <1>1 DEF ProcessTypes
<1>3. "publish" \in Speech /\ "data" \in Speech /\ "dismiss" \in Speech
  BY DEF Speech
<1>4. CASE \E publication \in Publications :
             publication.key[1] = i /\ EmitEvent("publish", i, generation[i], publication)
  BY <1>1, <1>2, <1>3, <1>4, SpeechKeeps
<1>5. CASE Configured(i) \in Keys /\ EmitEvent("data", i, generation[i], NothingMore)
  BY <1>1, <1>2, <1>3, <1>5, SpeechKeeps
<1>6. CASE \E key \in Keys : key[1] = i /\ EmitEvent("dismiss", i, generation[i], key)
  BY <1>1, <1>2, <1>3, <1>6, SpeechKeeps
<1> QED
  BY <1>4, <1>5, <1>6 DEF Says

LEMMA ReconfiguredKeeps ==
  ASSUME RuntimeInv, NEW i \in Instances, Reconfigured(i)
  PROVE  RuntimeInv'
<1>1. UNCHANGED <<coordinator, generation, seen, accepted>>
  BY DEF Reconfigured
<1>2. CASE presence[i] # "absent"
  <2>1. /\ presence' = [presence EXCEPT ![i] = "absent"]
        /\ EmitEvent("removed", i, generation[i], NothingMore)
    BY <1>2 DEF Reconfigured
  <2> QED
    BY <1>1, <1>2, <2>1, RemovalKeeps
<1>3. CASE presence[i] = "absent"
  <2>1. UNCHANGED <<presence, queue>>
    BY <1>3 DEF Reconfigured
  <2> QED
    BY <1>1, <2>1, SameKeeps
<1> QED
  BY <1>2, <1>3

LEMMA EnvironmentKeeps ==
  ASSUME RuntimeInv, Environment
  PROVE  RuntimeInv'
<1>1. PICK i \in Instances :
        ProcessStarts(i) \/ SpawnFails(i) \/ BecomesReady(i) \/ Says(i) \/ ContextsRemoved(i)
          \/ Reconfigured(i)
  BY DEF Environment
<1>2. CASE BecomesReady(i)
  <2>1. /\ presence[i] # "absent" /\ presence' = [presence EXCEPT ![i] = "running"]
        /\ EmitEvent("ready", i, generation[i], NothingMore)
        /\ UNCHANGED <<coordinator, generation, seen, accepted>> /\ "ready" \in Speech
    BY <1>2 DEF BecomesReady, Speech
  <2> QED
    BY <2>1, SpeechKeeps
<1>3. CASE ContextsRemoved(i)
  <2>1. /\ presence[i] # "absent" /\ presence' = [presence EXCEPT ![i] = "absent"]
        /\ EmitEvent("removed", i, generation[i], NothingMore)
        /\ UNCHANGED <<coordinator, generation, seen, accepted>>
    BY <1>3 DEF ContextsRemoved
  <2> QED
    BY <2>1, RemovalKeeps
<1> QED
  BY <1>1, <1>2, <1>3, ProcessStartsKeeps, SpawnFailsKeeps, SaysKeeps, ReconfiguredKeeps

--------------------------------------------------------------------------------
(* The invariant.                                                                  *)

LEMMA QuietKeeps ==
  ASSUME RuntimeInv, TypesInv', UNCHANGED <<queue, generations, presence, generation>>,
         \A key \in AtHand' : Followed(key) => key \in AtHand
  PROVE  RuntimeInv'
<1>1. EventsInv /\ BackedInv
  BY DEF RuntimeInv
<1>2. EventsInv'
  BY <1>1, EventsSame
<1>3. BackedInv'
  BY <1>1, BackedKept
<1> QED
  BY <1>2, <1>3 DEF RuntimeInv

LEMMA RuntimeStarts ==
  ASSUME Init
  PROVE  RuntimeInv
<1>1. \A V : << >> \in [{} -> V]
  OBVIOUS
<1>2. DOMAIN << >> = {}
  OBVIOUS
<1>3. \A K, V : << >> \in MapsOf(K, V)
  <2> SUFFICES ASSUME NEW K, NEW V PROVE << >> \in MapsOf(K, V)
    OBVIOUS
  <2>1. {} \in SUBSET K /\ << >> \in [{} -> V]
    BY <1>1
  <2> QED
    BY <2>1, IsMap
<1>4. Published(arbiter) = {} /\ ~Activated(arbiter)
  BY <1>2 DEF Init, EmptyArbiter, Published, Activated
<1>5. << >> \in MapsOf(Keys, PublishedContext)
  BY <1>3
<1>6. ArbiterShape(arbiter)
  BY <1>5 DEF Init, EmptyArbiter, ArbiterShape
<1>7. GoodArbiter(arbiter, revision)
  BY <1>4, <1>6 DEF GoodArbiter, Ranked, Pinned
<1>8. Waiting = {}
  BY <1>2 DEF Init, Waiting
<1>9. ContextTypes
  BY <1>2, <1>7, <1>8 DEF Init, ContextTypes
<1>10. << >> \in MapsOf(Instances, Slots \cup {"hidden"}) /\ << >> \in [DOMAIN << >> -> Nat]
       /\ << >> \in Seq(EventRecord)
  BY <1>1, <1>2, <1>3, EmptySeq
<1>11. ProcessTypes
  BY <1>2, <1>10 DEF Init, ProcessTypes
<1>12. EventsInv
  BY <1>2 DEF Init, EventsInv, QueueOrdered, QueueCurrent, QueueAnnounced, QueueEnds, QueueSays
<1>13. BackedInv
  BY <1>4, <1>8 DEF BackedInv, AtHand
<1> QED
  BY <1>9, <1>11, <1>12, <1>13 DEF RuntimeInv, TypesInv

LEMMA ApplicationKeeps ==
  ASSUME RuntimeInv, Application
  PROVE  RuntimeInv'
<1> USE DEF modules, coordinator
<1>1. TypesInv
  BY DEF RuntimeInv
<1>2. CASE BeginFrame \/ RenderNothing
  <2>1. UNCHANGED <<queue, generations, presence, generation>>
    BY <1>2 DEF BeginFrame, RenderNothing
  <2> QED
    BY <1>1, <1>2, <2>1, StandingStillKeeps, QuietKeeps
<1>3. CASE HoldActivation
  <2>1. UNCHANGED <<queue, generations, presence, generation>>
    BY <1>3 DEF HoldActivation
  <2> QED
    BY <1>1, <1>3, <2>1, HoldActivationKeeps, QuietKeeps
<1>4. CASE BeginRender
  <2>1. UNCHANGED <<queue, generations, presence, generation>>
    BY <1>4 DEF BeginRender
  <2> QED
    BY <1>1, <1>4, <2>1, BeginRenderKeeps, QuietKeeps
<1>5. CASE RenderAccepted
  <2>1. UNCHANGED <<queue, generations, presence, generation>>
    BY <1>5 DEF RenderAccepted
  <2> QED
    BY <1>1, <1>5, <2>1, RenderAcceptedKeeps, QuietKeeps
<1>6. CASE RenderRejected
  <2>1. UNCHANGED <<queue, generations, presence, generation>>
    BY <1>6 DEF RenderRejected
  <2> QED
    BY <1>1, <1>6, <2>1, RenderRejectedKeeps, QuietKeeps
<1>7. CASE Tell
  <2>1. UNCHANGED <<queue, generations, presence, generation>>
    BY <1>7 DEF Tell
  <2> QED
    BY <1>1, <1>7, <2>1, TellKeeps, QuietKeeps
<1>8. CASE Tick
  <2>1. UNCHANGED <<queue, generations, presence, generation>>
    BY <1>8 DEF Tick
  <2> QED
    BY <1>1, <1>8, <2>1, TickKeeps, QuietKeeps
<1>9. CASE Close \/ EndKeyboardSession
  <2>1. PICK keys : Clears(keys)
    BY <1>9 DEF Close, EndKeyboardSession
  <2>2. UNCHANGED <<queue, generations, presence, generation>>
    BY <2>1 DEF Clears
  <2> QED
    BY <1>1, <2>1, <2>2, ClearsKeeps, QuietKeeps
<1>10. ASSUME NEW instance \in Instances, ActivateCommand(instance)
       PROVE  RuntimeInv'
  <2>1. UNCHANGED <<queue, generations, presence, generation>>
    BY <1>10 DEF ActivateCommand
  <2> QED
    BY <1>1, <1>10, <2>1, ActivateCommandKeeps, QuietKeeps
<1>11. ASSUME NEW instance \in Instances, ActivateOpenRefused(instance)
       PROVE  RuntimeInv'
  <2>1. UNCHANGED <<queue, generations, presence, generation>>
    BY <1>11 DEF ActivateOpenRefused
  <2> QED
    BY <1>1, <1>11, <2>1, ActivateOpenRefusedKeeps, QuietKeeps
<1>12. ASSUME NEW slot \in Slots, DismissCommand(slot)
       PROVE  RuntimeInv'
  <2>1. UNCHANGED <<queue, generations, presence, generation>>
    BY <1>12 DEF DismissCommand
  <2> QED
    BY <1>1, <1>12, <2>1, DismissCommandKeeps, QuietKeeps
<1>13. ASSUME NEW new \in Configurations, Reload(new)
       PROVE  RuntimeInv'
  <2>1. UNCHANGED <<queue, generations, presence, generation>>
    BY <1>13 DEF Reload, CommitReload
  <2>2. TypesInv' /\ \A key \in AtHand' : Followed(key) => key \in AtHand
    BY <1>1, <1>13, ReloadKeeps
  <2> QED
    BY <2>1, <2>2, QuietKeeps
<1> QED
  BY <1>2, <1>3, <1>4, <1>5, <1>6, <1>7, <1>8, <1>9, <1>10, <1>11, <1>12, <1>13, ConsumeKeeps
  DEF Application

\* Init => RuntimeInv and RuntimeInv /\ [Next]_vars => RuntimeInv'.
THEOREM RuntimeIsInductive == Spec => []RuntimeInv
<1>1. Init => RuntimeInv
  BY RuntimeStarts
<1>2. RuntimeInv /\ [Next]_vars => RuntimeInv'
  <2> SUFFICES ASSUME RuntimeInv, [Next]_vars PROVE RuntimeInv'
    OBVIOUS
  <2>1. CASE UNCHANGED vars
    BY <2>1, SameKeeps DEF vars, modules
  <2> QED
    BY <2>1, ApplicationKeeps, EnvironmentKeeps DEF Next
<1> QED
  BY <1>1, <1>2, PTL DEF Spec

--------------------------------------------------------------------------------
(* What follows for what the island shows.                                         *)

LEMMA ContextsAreRanked ==
  ASSUME RuntimeInv
  PROVE  TypeOK /\ ActivationBacked
<1>1. ContextTypes /\ ProcessTypes /\ GoodArbiter(arbiter, revision)
  BY DEF RuntimeInv, TypesInv, ContextTypes
<1>2. arbiter.contexts \in [Published(arbiter) -> PublishedContext] /\ Published(arbiter) \in SUBSET Keys
  BY <1>1, ArbiterParts DEF GoodArbiter
<1>3. TypeOK
  BY <1>1, <1>2 DEF TypeOK, ContextTypes, ProcessTypes, GoodArbiter, Ranked
<1>4. ActivationBacked
  BY <1>1 DEF ActivationBacked, GoodArbiter, Ranked, Pinned
<1> QED
  BY <1>3, <1>4

LEMMA BackedHaveProcess ==
  ASSUME RuntimeInv, NEW key \in Published(arbiter), Followed(key)
  PROVE  presence[key[1]] = "running" \/ Departing(key[1])
<1>1. PICK i : i = key[1]
  OBVIOUS
<1>2. i \in DOMAIN generations /\ (presence[i] = "starting" => generations[i] < generation[i])
  BY <1>1 DEF RuntimeInv, BackedInv, Backed, AtHand
<1>3. i \in Instances /\ presence[i] \in {"absent", "starting", "running"}
  BY <1>2 DEF RuntimeInv, TypesInv, ProcessTypes
<1>4. presence[i] # "running" => HasEnded(i, generations[i])
  BY <1>2, <1>3 DEF HasEnded
<1>5. HasEnded(i, generations[i]) => Queued("removed", i, generations[i])
  BY <1>2 DEF RuntimeInv, EventsInv, QueueEnds
<1>6. Queued("removed", i, generations[i]) => Departing(i)
  BY DEF Queued, Departing
<1> QED
  BY <1>1, <1>3, <1>4, <1>5, <1>6

\* The activation pins a context that exists, contexts are ranked without ties, and a
\* context that a module published belongs to a process that runs or whose removal is on
\* its way, whatever reloads and refusals happen.  The contexts of configured views are
\* left out: a reload that changes a view instantiates it again.
THEOREM PublicationsAreBacked ==
  Spec => [](/\ TypeOK /\ ActivationBacked
             /\ \A key \in Published(arbiter) :
                  Followed(key) => presence[key[1]] = "running" \/ Departing(key[1]))
<1>1. RuntimeInv => /\ TypeOK /\ ActivationBacked
                    /\ \A key \in Published(arbiter) :
                         Followed(key) => presence[key[1]] = "running" \/ Departing(key[1])
  BY ContextsAreRanked, BackedHaveProcess
<1> QED
  BY <1>1, RuntimeIsInductive, PTL

--------------------------------------------------------------------------------
(* What the processes are told: the frame.                                         *)

LEMMA FrameKeepsTold ==
  ASSUME TellingInv, phase' # "start" \/ phase = "start",
         UNCHANGED <<config, ready, visibility, queue, generations, presence, generation, seen, supervised,
                     orders>>
  PROVE  TellingInv'
<1>1. \A i : Settled(i)' = Settled(i)
  BY DEF Settled, Queued
<1>2. HeardInv' /\ SupervisedInv' /\ SyncedInv'
  BY DEF TellingInv, HeardInv, Heard, SupervisedInv, SyncedInv, Known
<1>3. ReadyInv'
  <2>1. ASSUME NEW i \in Instances, Settled(i), NEW g, g = generation[i]
        PROVE  i \in ready /\ Known(i, g)
    BY <2>1 DEF TellingInv, ReadyInv
  <2> QED
    BY <1>1, <2>1 DEF ReadyInv, Known
<1>4. ToldInv'
  BY <1>1 DEF TellingInv, ToldInv
<1> QED
  BY <1>2, <1>3, <1>4 DEF TellingInv

LEMMA ReloadKeepsTold ==
  ASSUME RuntimeInv, TellingInv, NEW new \in Configurations, Reload(new)
  PROVE  TellingInv'
<1>1. PICK replaced : replaced = {i \in Instances : KindOfChange(i, config, new) = "process"}
  OBVIOUS
<1>2. /\ config' = new /\ ready' = ready \ replaced /\ visibility' = Remove(visibility, replaced)
      /\ orders' = orders \cup replaced
      /\ UNCHANGED <<generations, presence, generation, queue, seen, supervised, phase>>
  BY <1>1 DEF Reload, CommitReload
<1>3. /\ DOMAIN visibility' = DOMAIN visibility \ replaced
      /\ \A i \in DOMAIN visibility' : visibility'[i] = visibility[i]
  BY <1>2 DEF Remove
<1>4. \A i : Settled(i)' => Settled(i) /\ i \notin replaced
  BY <1>2 DEF Settled, Queued
<1>5. HeardInv'
  BY <1>2, <1>3 DEF TellingInv, HeardInv, Heard
<1>6. ReadyInv'
  <2>1. ASSUME NEW i \in Instances, Settled(i), NEW g, g = generation[i]
        PROVE  i \in ready /\ Known(i, g)
    BY <2>1 DEF TellingInv, ReadyInv
  <2> QED
    BY <1>2, <1>4, <2>1 DEF ReadyInv, Known
<1>7. \A i \in Instances : i \notin replaced => new[i].enabled = config[i].enabled
  <2> SUFFICES ASSUME NEW i \in Instances, config[i].enabled # new[i].enabled PROVE i \in replaced
    OBVIOUS
  <2>1. KindOfChange(i, config, new) = "process"
    BY DEF KindOfChange
  <2> QED
    BY <1>1, <2>1
<1>8. SupervisedInv'
  BY <1>2, <1>7 DEF TellingInv, SupervisedInv
<1>9. SyncedInv'
  BY <1>2, <1>3 DEF TellingInv, SyncedInv, Known
<1>10. ToldInv'
  BY <1>2, <1>3, <1>4 DEF TellingInv, ToldInv
<1> QED
  BY <1>5, <1>6, <1>8, <1>9, <1>10 DEF TellingInv

\* The processes that are told are all the settled ones, and one of them is on show.
LEMMA TellKeepsTold ==
  ASSUME RuntimeInv, TellingInv, Tell
  PROVE  TellingInv'
<1> DEFINE listening == {i \in ready : config[i].enabled}
           presented == content /\ rendered # Nothing
           selected(slot) == IF presented THEN Active(Expire(arbiter), slot) ELSE NoContext
           next(slot) == [i \in listening |-> VisibilityOf(i, selected(slot), slot)]
           updated(slot) ==
             {i \in listening : i \notin DOMAIN visibility \/ visibility[i] # next(slot)[i]}
<1>1. PICK slot \in Slots :
        /\ visibility' = Over(next(slot), visibility)
        /\ seen' = [i \in Instances |-> IF i \in updated(slot) /\ presence[i] = "running"
                                        THEN next(slot)[i] ELSE seen[i]]
  BY Zenon DEF Tell
<1>2. /\ UNCHANGED <<config, ready, generations, presence, generation, queue, supervised, orders>>
      /\ ProcessTypes
  BY DEF Tell, RuntimeInv, TypesInv
<1>3. listening \subseteq Instances /\ listening \subseteq ready
  BY <1>2 DEF ProcessTypes
<1>4. /\ \A i \in listening :
           \/ next(slot)[i] = "hidden"
           \/ InstanceOf(selected(slot)) = i
      /\ DOMAIN next(slot) = listening
      /\ updated(slot) \subseteq listening
      /\ \A i \in listening \ updated(slot) : i \in DOMAIN visibility /\ visibility[i] = next(slot)[i]
  BY DEF VisibilityOf
<1>5. \A i \in ready : config[i].enabled => i \in listening
  OBVIOUS
<1> HIDE DEF listening, selected, next, updated
<1>6. /\ DOMAIN visibility' = listening \cup DOMAIN visibility
      /\ \A i \in listening : visibility'[i] = next(slot)[i]
      /\ \A i \in DOMAIN visibility \ listening : visibility'[i] = visibility[i]
  BY <1>1, <1>4 DEF Over
<1>7. \A i : Settled(i)' = Settled(i)
  BY <1>2 DEF Settled, Queued
<1>8. HeardInv'
  BY <1>2, <1>3, <1>6 DEF TellingInv, HeardInv, Heard
<1>9. ASSUME NEW i \in Instances, Settled(i), NEW g, g = generation[i]
      PROVE  i \in ready /\ Known(i, g) /\ i \in listening
  <2>1. i \in ready /\ Known(i, g)
    BY <1>9 DEF TellingInv, ReadyInv
  <2>2. config[i].enabled
    BY <1>9 DEF TellingInv, SupervisedInv, Settled
  <2> QED
    BY <1>5, <2>1, <2>2
<1>10. ReadyInv'
  BY <1>2, <1>7, <1>9 DEF ReadyInv, Known
<1>11. SupervisedInv'
  BY <1>2 DEF TellingInv, SupervisedInv
<1>12. ASSUME NEW i \in DOMAIN visibility', presence[i] = "running", NEW g, g = generation[i], Known(i, g)
       PROVE  seen'[i] = visibility'[i]
  <2>1. i \in Instances
    BY <1>2, <1>3, <1>6, MapsAre DEF ProcessTypes
  <2>2. CASE i \in updated(slot)
    BY <1>1, <1>4, <1>6, <1>12, <2>1, <2>2
  <2>3. CASE i \notin updated(slot)
    <3>1. i \in DOMAIN visibility /\ visibility'[i] = visibility[i]
      BY <1>4, <1>6, <1>12, <2>3
    <3>2. seen[i] = visibility[i]
      BY <1>12, <3>1 DEF TellingInv, SyncedInv
    <3> QED
      BY <1>1, <2>1, <2>3, <3>1, <3>2
  <2> QED
    BY <2>2, <2>3
<1>13. SyncedInv'
  BY <1>2, <1>12 DEF SyncedInv, Known
<1>14. ToldInv'
  BY <1>4, <1>6, <1>7, <1>9 DEF ToldInv
<1> QED
  BY <1>8, <1>10, <1>11, <1>13, <1>14 DEF TellingInv

--------------------------------------------------------------------------------
(* What the processes are told: the events.                                        *)

\* A process starts only when the one before it is forgotten.
LEMMA StartsAreUnknown ==
  ASSUME TypesInv, EventsInv, queue # << >>, queue' = Tail(queue), Head(queue).kind = "started"
  PROVE  Head(queue).instance \notin DOMAIN generations
<1>1. PICK i, g : i = Head(queue).instance /\ g = Head(queue).generation
  OBVIOUS
<1> SUFFICES ASSUME i \in DOMAIN generations PROVE FALSE
  BY <1>1
<1>2. PICK old : old = generations[i]
  OBVIOUS
<1>3. old \in Nat /\ g \in Nat /\ generation[i] \in Nat /\ old < g /\ HasEnded(i, old)
  <2>1. /\ g \in Nat /\ generation[i] \in Nat /\ g <= generation[i]
        /\ generations[i] \in Nat /\ generations[i] < g
    BY <1>1, HeadIs
  <2> QED
    BY <1>2, <2>1 DEF HasEnded
<1>4. Queued("removed", i, old)
  BY <1>2, <1>3 DEF EventsInv, QueueEnds
<1>5. Queued("removed", i, old)'
  BY <1>4, QueuedLater
<1>6. PICK n \in DOMAIN queue' : queue'[n].instance = i /\ queue'[n].generation = old
  BY <1>5 DEF Queued
<1> QED
  BY <1>1, <1>3, <1>6, HeadComesFirst

\* A process is settled by the event that says it is ready, or was so before.
LEMMA SettledByReady ==
  ASSUME TypesInv, queue # << >>, queue' = Tail(queue), UNCHANGED <<presence, generation, orders>>,
         NEW i \in Instances, Settled(i)'
  PROVE  \/ Settled(i)
         \/ /\ Head(queue).kind = "ready" /\ Head(queue).instance = i
            /\ Head(queue).generation = generation[i]
<1>1. PICK g : g = generation[i] /\ presence[i] = "running" /\ i \notin orders
  BY DEF Settled
<1>2. ~Queued("ready", i, g)'
  BY <1>1 DEF Settled, Queued
<1>3. Queued("ready", i, g)
        => Head(queue).kind = "ready" /\ Head(queue).instance = i /\ Head(queue).generation = g
  BY <1>2, QueuedLater
<1> QED
  BY <1>1, <1>3 DEF Settled

LEMMA ConsumeHeardKeepsTold ==
  ASSUME RuntimeInv, TellingInv, Consume, UNCHANGED <<generations, visibility>>,
         \/ ready' = ready /\ Head(queue).kind # "ready"
         \/ ready' = ready \cup {Head(queue).instance} /\ Head(queue).kind = "ready"
  PROVE  TellingInv'
<1>1. PICK i, g : i = Head(queue).instance /\ g = Head(queue).generation
  OBVIOUS
<1>2. /\ queue # << >> /\ queue' = Tail(queue) /\ phase = "events" /\ phase' = phase
      /\ UNCHANGED <<config, presence, generation, supervised, orders, seen>>
      /\ TypesInv /\ EventsInv
  BY DEF Consume, RuntimeInv
<1>3. Head(queue).kind = "ready"
        => /\ Known(i, g) /\ g \in Nat /\ generation[i] \in Nat /\ g <= generation[i]
           /\ (g = generation[i] => presence[i] # "starting")
  BY <1>1, <1>2, HeadIs DEF Speech
<1>4. Head(queue).kind = "ready" => Heard(i)
  BY <1>3 DEF Heard, Known
<1>5. HeardInv'
  BY <1>1, <1>2, <1>4 DEF TellingInv, HeardInv, Heard
<1>6. ASSUME NEW j \in Instances, Settled(j)', NEW h, h = generation[j]
      PROVE  j \in ready' /\ Known(j, h)
  <2>1. CASE Settled(j)
    BY <1>6, <2>1 DEF TellingInv, ReadyInv
  <2>2. CASE Head(queue).kind = "ready" /\ i = j /\ g = h
    BY <1>1, <1>3, <2>2
  <2> QED
    BY <1>1, <1>2, <1>6, <2>1, <2>2, SettledByReady
<1>7. ReadyInv'
  BY <1>2, <1>6 DEF ReadyInv, Known
<1>8. SupervisedInv' /\ SyncedInv'
  BY <1>2 DEF TellingInv, SupervisedInv, SyncedInv, Known
<1>9. ToldInv'
  BY <1>2 DEF ToldInv
<1> QED
  BY <1>5, <1>7, <1>8, <1>9 DEF TellingInv

LEMMA ConsumeStartedKeepsTold ==
  ASSUME RuntimeInv, TellingInv, Consume, ConsumeStarted(Head(queue))
  PROVE  TellingInv'
<1>1. PICK i, g : i = Head(queue).instance /\ g = Head(queue).generation
  OBVIOUS
<1>2. /\ queue # << >> /\ queue' = Tail(queue) /\ phase = "events" /\ phase' = phase
      /\ UNCHANGED <<config, presence, generation, supervised, orders, seen, ready, visibility>>
      /\ Head(queue).kind = "started" /\ generations' = Put(generations, i, g)
      /\ TypesInv /\ EventsInv
  BY <1>1 DEF Consume, ConsumeStarted, RuntimeInv
<1>3. i \notin DOMAIN generations
  BY <1>1, <1>2, StartsAreUnknown
<1>4. /\ DOMAIN generations' = DOMAIN generations \cup {i}
      /\ \A j \in DOMAIN generations : generations'[j] = generations[j]
  BY <1>2, <1>3 DEF Put
<1>5. i \notin ready \cup DOMAIN visibility
  BY <1>3 DEF TellingInv, HeardInv, Heard
<1>6. HeardInv'
  BY <1>2, <1>4 DEF TellingInv, HeardInv, Heard
<1>7. ASSUME NEW j \in Instances, Settled(j)', NEW h, h = generation[j]
      PROVE  j \in ready /\ j \in DOMAIN generations /\ generations[j] = h
  <2>1. Settled(j)
    BY <1>2, <1>7, SettledByReady
  <2> QED
    BY <1>7, <2>1 DEF TellingInv, ReadyInv, Known
<1>8. ReadyInv'
  BY <1>2, <1>4, <1>7 DEF ReadyInv, Known
<1>9. SupervisedInv'
  BY <1>2 DEF TellingInv, SupervisedInv
<1>10. SyncedInv'
  BY <1>2, <1>4, <1>5 DEF TellingInv, SyncedInv, Known
<1>11. ToldInv'
  BY <1>2 DEF ToldInv
<1> QED
  BY <1>6, <1>8, <1>9, <1>10, <1>11 DEF TellingInv

\* The process whose contexts are removed has ended, so it is not settled.
LEMMA ConsumeRemovedKeepsTold ==
  ASSUME RuntimeInv, TellingInv, Consume, ConsumeRemoved(Head(queue))
  PROVE  TellingInv'
<1>1. PICK i, g : i = Head(queue).instance /\ g = Head(queue).generation
  OBVIOUS
<1>2. /\ queue # << >> /\ queue' = Tail(queue) /\ phase = "events" /\ phase' = phase
      /\ UNCHANGED <<config, presence, generation, supervised, orders, seen>>
      /\ Head(queue).kind = "removed" /\ Matches(Head(queue))
      /\ ready' = ready \ {i} /\ generations' = Remove(generations, {i})
      /\ visibility' = Remove(visibility, {i})
      /\ TypesInv /\ EventsInv
  BY <1>1 DEF Consume, ConsumeRemoved, Forget, RuntimeInv
<1>3. /\ DOMAIN generations' = DOMAIN generations \ {i}
      /\ \A j \in DOMAIN generations' : generations'[j] = generations[j]
      /\ DOMAIN visibility' = DOMAIN visibility \ {i}
      /\ \A j \in DOMAIN visibility' : visibility'[j] = visibility[j]
  BY <1>2 DEF Remove
<1>4. ~(presence[i] # "absent" /\ Known(i, generation[i]))
  <2>1. g = generation[i] => presence[i] = "absent"
    BY <1>1, <1>2, HeadIs
  <2>2. i \in DOMAIN generations => generations[i] = g
    BY <1>1, <1>2 DEF Matches
  <2> QED
    BY <2>1, <2>2 DEF Known
<1>5. HeardInv'
  BY <1>2, <1>3 DEF TellingInv, HeardInv, Heard
<1>6. ASSUME NEW j \in Instances, Settled(j)', NEW h, h = generation[j]
      PROVE  j # i /\ j \in ready /\ j \in DOMAIN generations /\ generations[j] = h
  <2>1. Settled(j)
    BY <1>2, <1>6, SettledByReady
  <2>2. j \in ready /\ Known(j, h) /\ presence[j] = "running"
    BY <1>6, <2>1 DEF TellingInv, ReadyInv, Settled
  <2> QED
    BY <1>4, <1>6, <2>2 DEF Known
<1>7. ReadyInv'
  BY <1>2, <1>3, <1>6 DEF ReadyInv, Known
<1>8. SupervisedInv'
  BY <1>2 DEF TellingInv, SupervisedInv
<1>9. SyncedInv'
  BY <1>2, <1>3 DEF TellingInv, SyncedInv, Known
<1>10. ToldInv'
  BY <1>2 DEF ToldInv
<1> QED
  BY <1>5, <1>7, <1>8, <1>9, <1>10 DEF TellingInv

LEMMA ConsumeKeepsTold ==
  ASSUME RuntimeInv, TellingInv, Consume
  PROVE  TellingInv'
<1>1. CASE ConsumeStarted(Head(queue))
  BY <1>1, ConsumeStartedKeepsTold
<1>2. CASE ConsumeRemoved(Head(queue))
  BY <1>2, ConsumeRemovedKeepsTold
<1>3. CASE ConsumePublish(Head(queue)) \/ ConsumeData(Head(queue)) \/ ConsumeDismiss(Head(queue))
  <2>1. UNCHANGED <<generations, visibility, ready>> /\ Head(queue).kind # "ready"
    BY <1>3 DEF ConsumePublish, ConsumeData, ConsumeDismiss
  <2> QED
    BY <2>1, ConsumeHeardKeepsTold
<1>4. CASE ConsumeReady(Head(queue))
  <2>1. PICK i, g : i = Head(queue).instance /\ g = Head(queue).generation
    OBVIOUS
  <2>2. /\ Head(queue).kind = "ready" /\ ready' = ready \cup {i} /\ visibility' = visibility
        /\ generations' = Put(generations, i, g) /\ queue # << >> /\ TypesInv /\ EventsInv
    BY <1>4, <2>1 DEF Consume, ConsumeReady, RuntimeInv
  <2>3. generations' = generations
    <3>1. Known(i, g) /\ generations \in [DOMAIN generations -> Nat]
      BY <2>1, <2>2, HeadIs DEF Speech, TypesInv, ProcessTypes
    <3> QED
      BY <2>2, <3>1 DEF Put, Known
  <2> QED
    BY <2>1, <2>2, <2>3, ConsumeHeardKeepsTold
<1>5. CASE ConsumeNothing(Head(queue))
  <2>1. PICK i, g : i = Head(queue).instance /\ g = Head(queue).generation
    OBVIOUS
  <2>2. queue # << >> /\ TypesInv /\ EventsInv /\ UNCHANGED <<generations, visibility, ready>>
    BY <1>5 DEF Consume, ConsumeNothing, RuntimeInv
  <2>3. Head(queue).kind = "ready" => Known(i, g)
    BY <2>1, <2>2, HeadIs DEF Speech
  <2>4. Head(queue).kind # "ready"
    BY <1>5, <2>1, <2>3 DEF ConsumeNothing, Matches, Known
  <2> QED
    BY <2>2, <2>4, ConsumeHeardKeepsTold
<1> QED
  BY <1>1, <1>2, <1>3, <1>4, <1>5 DEF Consume

--------------------------------------------------------------------------------
(* What the processes are told: the modules and the supervisor.                    *)

LEMMA QueuedStill ==
  ASSUME TypesInv, NEW e, queue' = Append(queue, e)
  PROVE  /\ \A kind, i, g : Queued(kind, i, g) => Queued(kind, i, g)'
         /\ Queued(e.kind, e.instance, e.generation)'
<1>1. Len(queue) \in Nat /\ DOMAIN queue = 1..Len(queue)
  BY QueueIs
<1>2. /\ DOMAIN queue' = 1..(Len(queue) + 1) /\ queue'[Len(queue) + 1] = e
      /\ \A n \in DOMAIN queue : queue'[n] = queue[n]
  BY <1>1
<1>3. DOMAIN queue \subseteq DOMAIN queue' /\ Len(queue) + 1 \in DOMAIN queue'
  BY <1>1, <1>2
<1> QED
  BY <1>2, <1>3 DEF Queued

\* Only a process that ran before can be settled, and it has been told nothing new.
LEMMA EnvironmentKeepsToldIf ==
  ASSUME RuntimeInv, TellingInv, UNCHANGED <<coordinator, phase>>,
         queue' = queue \/ \E e : queue' = Append(queue, e),
         \A j \in Instances :
           presence'[j] = "starting"
             => \/ presence[j] = "starting" /\ generation'[j] = generation[j]
                \/ generation'[j] = generation[j] + 1,
         \A j \in Instances :
           presence'[j] = "running"
             => /\ generation'[j] = generation[j] /\ seen'[j] = seen[j]
                /\ j \in orders' <=> j \in orders
                /\ presence[j] # "running"
                     => presence[j] = "starting" /\ Queued("ready", j, generation[j])',
         SupervisedInv'
  PROVE  TellingInv'
<1>1. /\ TypesInv /\ EventsInv /\ ProcessTypes
      /\ UNCHANGED <<config, ready, visibility, generations, phase>>
  BY DEF RuntimeInv, TypesInv, coordinator
<1>2. \A kind, j, g : Queued(kind, j, g) => Queued(kind, j, g)'
  <2>1. CASE queue' = queue
    BY <2>1 DEF Queued
  <2>2. CASE \E e : queue' = Append(queue, e)
    BY <1>1, <2>2, QueuedStill
  <2> QED
    BY <2>1, <2>2
<1>3. ready \cup DOMAIN visibility \subseteq Instances
  BY <1>1, MapsAre DEF ProcessTypes
<1>4. ASSUME NEW j \in ready \cup DOMAIN visibility
      PROVE  j \in DOMAIN generations /\ (presence'[j] = "starting" => generations[j] < generation'[j])
  <2>1. j \in DOMAIN generations /\ (presence[j] = "starting" => generations[j] < generation[j])
    BY <1>4 DEF TellingInv, HeardInv, Heard
  <2>2. /\ generations[j] \in Nat /\ generation[j] \in Nat /\ generations[j] <= generation[j]
        /\ j \in Instances
    BY <1>1, <1>3, <2>1 DEF ProcessTypes, EventsInv, QueueEnds
  <2> QED
    BY <2>1, <2>2
<1>5. HeardInv'
  BY <1>1, <1>4 DEF HeardInv, Heard
<1>6. ASSUME NEW j \in Instances, Settled(j)'
      PROVE  Settled(j) /\ generation'[j] = generation[j]
  <2>1. /\ presence'[j] = "running" /\ j \notin orders' /\ generation'[j] = generation[j]
        /\ j \notin orders
    BY <1>6 DEF Settled
  <2>2. PICK g : g = generation[j]
    OBVIOUS
  <2>3. ~Queued("ready", j, g)'
    BY <1>6, <2>1, <2>2 DEF Settled, Queued
  <2>4. presence[j] = "running"
    BY <2>1, <2>2, <2>3 DEF Queued
  <2>5. ~Queued("ready", j, g)
    BY <1>2, <2>3
  <2> QED
    BY <2>1, <2>2, <2>4, <2>5 DEF Settled
<1>7. ASSUME NEW j \in Instances, Settled(j), NEW h, h = generation[j]
      PROVE  j \in ready /\ Known(j, h)
  BY <1>7 DEF TellingInv, ReadyInv
<1>8. ReadyInv'
  BY <1>1, <1>6, <1>7 DEF ReadyInv, Known
<1>9. ASSUME NEW j \in DOMAIN visibility, presence'[j] = "running", j \in DOMAIN generations,
             generations[j] = generation'[j]
      PROVE  seen'[j] = visibility[j]
  <2>1. j \in Instances /\ generation'[j] = generation[j] /\ seen'[j] = seen[j]
    BY <1>3, <1>9
  <2>2. presence[j] # "starting"
    BY <1>9, <2>1, <1>1 DEF TellingInv, HeardInv, Heard, ProcessTypes
  <2>3. presence[j] = "running"
    BY <1>9, <2>1, <2>2
  <2> QED
    BY <1>9, <2>1, <2>3 DEF TellingInv, SyncedInv, Known
<1>10. SyncedInv'
  BY <1>1, <1>9 DEF SyncedInv, Known
<1>11. ToldInv'
  BY <1>1, <1>6 DEF TellingInv, ToldInv
<1> QED
  BY <1>5, <1>8, <1>10, <1>11 DEF TellingInv

LEMMA EnvironmentKeepsTold ==
  ASSUME RuntimeInv, TellingInv, Environment
  PROVE  TellingInv'
<1>1. PICK i \in Instances :
        ProcessStarts(i) \/ SpawnFails(i) \/ BecomesReady(i) \/ Says(i) \/ ContextsRemoved(i)
          \/ Reconfigured(i)
  BY DEF Environment
<1>2. TypesInv /\ ProcessTypes /\ SupervisedInv
  BY DEF RuntimeInv, TypesInv, TellingInv
<1>3. CASE ProcessStarts(i)
  <2>1. /\ presence[i] = "absent" /\ i \in supervised
        /\ presence' = [presence EXCEPT ![i] = "starting"]
        /\ generation' = [generation EXCEPT ![i] = @ + 1] /\ seen' = [seen EXCEPT ![i] = "untold"]
        /\ UNCHANGED <<coordinator, phase, supervised, orders, config>>
        /\ \E e : queue' = Append(queue, e)
    BY <1>3 DEF ProcessStarts, EmitEvent, coordinator
  <2>2. SupervisedInv'
    BY <1>2, <2>1 DEF SupervisedInv, ProcessTypes
  <2> QED
    BY <1>2, <2>1, <2>2, EnvironmentKeepsToldIf DEF ProcessTypes
<1>4. CASE SpawnFails(i)
  <2>1. /\ presence[i] = "absent" /\ generation' = [generation EXCEPT ![i] = @ + 1]
        /\ UNCHANGED <<coordinator, phase, presence, seen, supervised, orders, config>>
        /\ \E e : queue' = Append(queue, e)
    BY <1>4 DEF SpawnFails, EmitEvent, coordinator
  <2>2. SupervisedInv'
    BY <1>2, <2>1 DEF SupervisedInv
  <2> QED
    BY <1>2, <2>1, <2>2, EnvironmentKeepsToldIf DEF ProcessTypes
<1>5. CASE BecomesReady(i)
  <2>1. PICK e : /\ e = [kind |-> "ready", instance |-> i, generation |-> generation[i],
                         about |-> NothingMore]
                 /\ queue' = Append(queue, e)
    BY <1>5, EmittedIs DEF BecomesReady
  <2>2. /\ presence[i] = "starting" /\ presence' = [presence EXCEPT ![i] = "running"]
        /\ UNCHANGED <<coordinator, phase, generation, seen, supervised, orders, config>>
    BY <1>5 DEF BecomesReady, coordinator
  <2>3. Queued("ready", i, generation[i])'
    <3>1. Queued(e.kind, e.instance, e.generation)'
      BY <1>2, <2>1, QueuedStill
    <3> QED
      BY <2>1, <2>2, <3>1 DEF Queued
  <2>4. SupervisedInv'
    BY <1>2, <2>2 DEF SupervisedInv, ProcessTypes
  <2> QED
    BY <1>2, <2>1, <2>2, <2>3, <2>4, EnvironmentKeepsToldIf DEF ProcessTypes
<1>6. CASE Says(i)
  <2>1. /\ UNCHANGED <<coordinator, phase, presence, generation, seen, supervised, orders, config>>
        /\ \E e : queue' = Append(queue, e)
    BY <1>6 DEF Says, EmitEvent, coordinator
  <2>2. SupervisedInv'
    BY <1>2, <2>1 DEF SupervisedInv
  <2> QED
    BY <1>2, <2>1, <2>2, EnvironmentKeepsToldIf DEF ProcessTypes
<1>7. CASE ContextsRemoved(i)
  <2>1. /\ presence' = [presence EXCEPT ![i] = "absent"]
        /\ UNCHANGED <<coordinator, phase, generation, seen, supervised, orders, config>>
        /\ \E e : queue' = Append(queue, e)
    BY <1>7 DEF ContextsRemoved, EmitEvent, coordinator
  <2>2. SupervisedInv'
    BY <1>2, <2>1 DEF SupervisedInv, ProcessTypes
  <2> QED
    BY <1>2, <2>1, <2>2, EnvironmentKeepsToldIf DEF ProcessTypes
<1>8. CASE Reconfigured(i)
  <2>1. /\ presence'[i] = "absent" /\ \A j \in Instances : j # i => presence'[j] = presence[j]
        /\ UNCHANGED <<coordinator, phase, generation, seen, config>>
        /\ orders' = orders \ {i}
        /\ supervised' = IF config[i].enabled THEN supervised \cup {i} ELSE supervised \ {i}
        /\ queue' = queue \/ \E e : queue' = Append(queue, e)
    BY <1>2, <1>8 DEF Reconfigured, EmitEvent, coordinator, ProcessTypes
  <2>2. SupervisedInv'
    BY <1>2, <2>1 DEF SupervisedInv, ProcessTypes
  <2> QED
    BY <1>2, <2>1, <2>2, EnvironmentKeepsToldIf DEF ProcessTypes
<1> QED
  BY <1>1, <1>3, <1>4, <1>5, <1>6, <1>7, <1>8

--------------------------------------------------------------------------------
(* Every running process has been told.                                            *)

LEMMA TellingStarts ==
  ASSUME Init
  PROVE  TellingInv
  BY DEF Init, TellingInv, HeardInv, ReadyInv, SupervisedInv, SyncedInv, ToldInv, Settled

LEMMA ApplicationKeepsTold ==
  ASSUME RuntimeInv, TellingInv, Application
  PROVE  TellingInv'
<1>1. CASE BeginFrame \/ HoldActivation \/ BeginRender \/ RenderAccepted \/ RenderRejected
             \/ RenderNothing \/ Tick
  <2>1. /\ phase' # "start" \/ phase = "start"
        /\ UNCHANGED <<config, ready, visibility, queue, generations, presence, generation, seen,
                       supervised, orders>>
    BY <1>1 DEF BeginFrame, HoldActivation, BeginRender, RenderAccepted, RenderRejected, RenderNothing,
                Tick, coordinator, modules
  <2> QED
    BY <2>1, FrameKeepsTold
<1>2. CASE Close \/ EndKeyboardSession
  <2>1. PICK keys : Clears(keys) /\ phase # "start"
    BY <1>2 DEF Close, EndKeyboardSession
  <2>2. /\ phase' # "start" \/ phase = "start"
        /\ UNCHANGED <<config, ready, visibility, queue, generations, presence, generation, seen,
                       supervised, orders>>
    BY <2>1 DEF Clears, modules
  <2> QED
    BY <2>2, FrameKeepsTold
<1>3. CASE \/ \E i \in Instances : ActivateCommand(i) \/ ActivateOpenRefused(i)
           \/ \E slot \in Slots : DismissCommand(slot)
  <2>1. /\ phase' # "start" \/ phase = "start"
        /\ UNCHANGED <<config, ready, visibility, queue, generations, presence, generation, seen,
                       supervised, orders>>
    BY <1>3 DEF ActivateCommand, ActivateOpenRefused, DismissCommand, modules
  <2> QED
    BY <2>1, FrameKeepsTold
<1> QED
  BY <1>1, <1>2, <1>3, ConsumeKeepsTold, TellKeepsTold, ReloadKeepsTold DEF Application

LEMMA SettledAreTold ==
  ASSUME TellingInv
  PROVE  RunningAreTold
<1> SUFFICES ASSUME phase = "start", queue = << >>, orders = {}
             PROVE  LET running == {i \in Instances : presence[i] = "running"}
                    IN  /\ \A i \in running : i \in DOMAIN visibility /\ seen[i] = visibility[i]
                        /\ \A i, j \in running : seen[i] # "hidden" /\ seen[j] # "hidden" => i = j
  BY DEF RunningAreTold
<1>1. ASSUME NEW i \in Instances, presence[i] = "running"
      PROVE  Settled(i) /\ i \in DOMAIN visibility /\ seen[i] = visibility[i]
  <2>1. Settled(i)
    BY <1>1 DEF Settled, Queued
  <2>2. Known(i, generation[i])
    BY <2>1 DEF TellingInv, ReadyInv
  <2>3. i \in DOMAIN visibility
    BY <2>1 DEF TellingInv, ToldInv
  <2> QED
    BY <1>1, <2>1, <2>2, <2>3 DEF TellingInv, SyncedInv
<1> QED
  BY <1>1 DEF TellingInv, ToldInv

\* Between frames, once the supervisor and the application have caught up with each
\* other, every running process has been told its visibility, and at most one believes
\* that it is shown: for any modules, configurations and reloads.
THEOREM RunningStayTold == Spec => []RunningAreTold
<1>1. Init => TellingInv
  BY TellingStarts
<1>2. RuntimeInv /\ TellingInv /\ [Next]_vars => TellingInv'
  <2> SUFFICES ASSUME RuntimeInv, TellingInv, [Next]_vars PROVE TellingInv'
    OBVIOUS
  <2>1. CASE UNCHANGED vars
    BY <2>1, FrameKeepsTold DEF vars, modules, coordinator
  <2> QED
    BY <2>1, ApplicationKeepsTold, EnvironmentKeepsTold DEF Next
<1>3. TellingInv => RunningAreTold
  BY SettledAreTold
<1> QED
  BY <1>1, <1>2, <1>3, RuntimeIsInductive, PTL DEF Spec

--------------------------------------------------------------------------------
(* What a refusal gives back.                                                      *)

\* The history has a version of the context, if not the one with a new sequence number.
AcceptedAs(c, key, history) ==
  key \in DOMAIN history /\ history[key].revision = c.revision /\ history[key].left = c.left

\* What is remembered of a context is what the history has, if that can be given back.
Remembered(key, p, history) ==
  IF p[key] # NoContext THEN AcceptedAs(p[key], key, history)
  ELSE key \in DOMAIN history => history[key].left = 0

\* The history has a context with nothing remembered as it is, and an older version of one
\* with something remembered; it has nothing else that could be given back.
FairVersion(c, key, p, history) ==
  IF key \in DOMAIN p
  THEN Remembered(key, p, history) /\ (key \in DOMAIN history => history[key].revision # c.revision)
  ELSE AcceptedAs(c, key, history)

FairHistory(key, history, rev) ==
  history[key] \in PublishedContext /\ history[key].revision <= rev

Fair(arb, p, history, rev) ==
  /\ \A key \in DOMAIN history :
       /\ FairHistory(key, history, rev)
       /\ key \in Published(arb) \/ key \in DOMAIN p \/ history[key].left = 0
  /\ \A key \in Published(arb) :
       arb.contexts[key].revision <= rev /\ FairVersion(arb.contexts[key], key, p, history)

\* Among the events, data can make the arbiter forget what has expired while something is
\* still remembered of it, and commands dismiss what something is remembered of; at other
\* times that is of published contexts only.  What is rendered has not expired.
Kept(arb, p, history, at) ==
  /\ at # "control" => \A key \in DOMAIN p : Remembered(key, p, history)
  /\ at \notin {"events", "control"} => DOMAIN p \subseteq Published(arb)
  /\ at \in {"render", "tell"} => \A key \in Published(arb) : arb.contexts[key].left # 0

RefusalInv == Fair(arbiter, pending, accepted, revision) /\ Kept(arbiter, pending, accepted, phase)

LEMMA RefusalIs ==
  ASSUME NEW arb, arb = arbiter', NEW p, p = pending', NEW history, history = accepted',
         NEW next, next = phase', NEW rev, rev = revision',
         Fair(arb, p, history, rev), Kept(arb, p, history, next)
  PROVE  RefusalInv'
  BY DEF RefusalInv, Fair, Kept, FairVersion, FairHistory, Remembered, AcceptedAs, Published,
         PublishedContext

\* What is remembered of published contexts only.
LEMMA PrunedIsKept ==
  ASSUME NEW arb, NEW p, NEW history, NEW rev, Fair(arb, p, history, rev),
         DOMAIN p \subseteq Published(arb)
  PROVE  \A key \in DOMAIN p : Remembered(key, p, history)
  BY DEF Fair, FairVersion

LEMMA NoContextIsNone == NoContext \notin PublishedContext
<1> SUFFICES ASSUME NoContext \in PublishedContext PROVE FALSE
  OBVIOUS
<1>1. DOMAIN NoContext = {"key", "priority", "left", "compact", "expanded", "fallback_only",
                          "revision", "sequence"}
  BY DEF PublishedContext
<1>2. DOMAIN NoContext = {"instance"}
  BY DEF NoContext
<1> QED
  BY <1>1, <1>2

\* The history b has no more than another one, all of it that is about the contexts of y, and
\* else only what q or its age keeps from being given back.
Follows(b, history, y, q) ==
  /\ \A key \in DOMAIN b :
       /\ key \in DOMAIN history /\ b[key] = history[key]
       /\ key \in Published(y) \/ key \in DOMAIN q \/ b[key].left = 0
  /\ \A key \in Published(y) : key \in DOMAIN history => key \in DOMAIN b

\* One context, with as much remembered of it and in the history.
LEMMA FairVersionSame ==
  ASSUME NEW c, NEW key, NEW p, NEW history, FairVersion(c, key, p, history), NEW q, NEW b,
         key \in DOMAIN q <=> key \in DOMAIN p, key \in DOMAIN p => q[key] = p[key],
         key \in DOMAIN b <=> key \in DOMAIN history, key \in DOMAIN b => b[key] = history[key]
  PROVE  FairVersion(c, key, q, b)
  BY DEF FairVersion, Remembered, AcceptedAs

\* With fewer contexts, and as much remembered and in the history of those that remain.
LEMMA FairFewer ==
  ASSUME NEW arb, NEW p, NEW history, NEW rev \in Nat, Fair(arb, p, history, rev),
         NEW y, NoMoreThan(y, arb), NEW q, NEW b, Follows(b, history, y, q),
         \A key \in Published(y) : (key \in DOMAIN q <=> key \in DOMAIN p)
                                     /\ (key \in DOMAIN p => q[key] = p[key]),
         NEW later \in Nat, rev <= later,
         \A key \in Published(arb) : arb.contexts[key].revision \in Nat
  PROVE  Fair(y, q, b, later)
<1>1. ASSUME NEW key \in Published(y)
      PROVE  y.contexts[key].revision <= later /\ FairVersion(y.contexts[key], key, q, b)
  <2>1. /\ key \in Published(arb) /\ y.contexts[key] = arb.contexts[key]
        /\ FairVersion(arb.contexts[key], key, p, history) /\ arb.contexts[key].revision <= rev
        /\ key \in DOMAIN b <=> key \in DOMAIN history
        /\ key \in DOMAIN b => b[key] = history[key]
    BY <1>1 DEF NoMoreThan, Fair, Follows
  <2>2. FairVersion(arb.contexts[key], key, q, b)
    BY <1>1, <2>1, FairVersionSame
  <2> QED
    BY <2>1, <2>2
<1>2. ASSUME NEW key \in DOMAIN b
      PROVE  /\ FairHistory(key, b, later)
             /\ key \in Published(y) \/ key \in DOMAIN q \/ b[key].left = 0
  <2>1. FairHistory(key, history, rev) /\ b[key] = history[key]
    BY <1>2 DEF Fair, Follows
  <2>2. history[key].revision \in Nat
    BY <2>1 DEF FairHistory, PublishedContext
  <2> QED
    BY <1>2, <2>1, <2>2 DEF FairHistory, Follows
<1> QED
  BY <1>1, <1>2 DEF Fair

LEMMA ExpiredAre ==
  ASSUME NEW arb, NEW rev, GoodArbiter(arb, rev)
  PROVE  LET y == Expire(arb)
         IN  /\ NoMoreThan(y, arb)
             /\ Published(y) = {key \in Published(arb) : arb.contexts[key].left # 0}
             /\ \A key \in Published(y) : y.contexts[key].left # 0
<1> DEFINE gone == {key \in Published(arb) : arb.contexts[key].left = 0}
           alive == Erase(arb, gone)
           y == [alive EXCEPT !.activation = NoActivation]
<1>1. GoodArbiter(alive, rev) /\ Published(alive) = Published(arb) \ gone
  BY ErasesWell
<1>2. Expire(arb) \in {alive, y}
  BY DEF Expire
<1> HIDE DEF alive
<1>3. Published(y) = Published(alive)
  BY <1>1, WithActivation DEF GoodArbiter
<1>4. Published(Expire(arb)) = Published(arb) \ gone
  BY <1>1, <1>2, <1>3
<1>5. NoMoreThan(Expire(arb), arb)
  BY ExpiresWell
<1> QED
  BY <1>4, <1>5 DEF NoMoreThan

\* The contexts of an arbiter have revisions.
LEMMA RevisionsAre ==
  ASSUME NEW arb, NEW rev, GoodArbiter(arb, rev)
  PROVE  \A key \in Published(arb) :
           /\ arb.contexts[key] \in PublishedContext /\ arb.contexts[key].revision \in Nat
           /\ arb.contexts[key] # NoContext
  BY ArbiterParts, NoContextIsNone DEF GoodArbiter, PublishedContext

\* What is remembered of a context that is published, with nothing remembered of it before.
Remembering(arb, key) ==
  IF key \in Published(Expire(arb)) THEN Expire(arb).contexts[key] ELSE NoContext

LEMMA RememberedFairly ==
  ASSUME NEW arb, NEW rev, GoodArbiter(arb, rev), NEW p, NEW history, Fair(arb, p, history, rev),
         NEW key, key \notin DOMAIN p, NEW q, q[key] = Remembering(arb, key)
  PROVE  Remembered(key, q, history)
<1>1. /\ NoMoreThan(Expire(arb), arb)
      /\ Published(Expire(arb)) = {k \in Published(arb) : arb.contexts[k].left # 0}
  BY ExpiredAre
<1>2. CASE key \in Published(Expire(arb))
  <2>1. q[key] = arb.contexts[key] /\ key \in Published(arb)
    BY <1>1, <1>2 DEF Remembering, NoMoreThan
  <2>2. AcceptedAs(arb.contexts[key], key, history)
    BY <2>1 DEF Fair, FairVersion
  <2> QED
    BY <2>1, <2>2, RevisionsAre DEF Remembered
<1>3. CASE key \notin Published(Expire(arb))
  <2>1. q[key] = NoContext
    BY <1>3 DEF Remembering
  <2>2. ASSUME key \in DOMAIN history PROVE history[key].left = 0
    <3>1. CASE key \in Published(arb)
      BY <1>1, <1>3, <3>1 DEF Fair, FairVersion, AcceptedAs
    <3>2. CASE key \notin Published(arb)
      BY <2>2, <3>2 DEF Fair
    <3> QED
      BY <3>1, <3>2
  <2> QED
    BY <2>1, <2>2 DEF Remembered
<1> QED
  BY <1>2, <1>3

\* A context that is published: what a refusal would give back is remembered before.
LEMMA FairPublished ==
  ASSUME NEW arb, NEW rev \in Nat, GoodArbiter(arb, rev),
         NEW p, NEW history, Fair(arb, p, history, rev),
         \A k \in DOMAIN p : Remembered(k, p, history),
         NEW context \in PublishedContext, context.revision = rev + 1, NEW key, key = context.key,
         NEW base, base = IF key \in DOMAIN p THEN arb ELSE Expire(arb),
         NEW y, NoMoreThan(y, Publish(base, context)),
         NEW q, NEW b, Follows(b, history, y, q),
         \A k \in Published(y) :
           /\ k # key => /\ k \in DOMAIN q <=> k \in DOMAIN p
                         /\ k \in DOMAIN p => q[k] = p[k]
           /\ k = key => /\ k \in DOMAIN q
                         /\ q[k] = IF k \in DOMAIN p THEN p[k] ELSE Remembering(arb, k)
  PROVE  Fair(y, q, b, rev + 1)
<1>1. GoodArbiter(base, rev) /\ NoMoreThan(base, arb)
  BY ExpiresWell DEF NoMoreThan
<1>2. PICK first : first = Publish(base, context)
  OBVIOUS
<1>3. NoMoreThan(y, first) /\ (context.left # 0 => Adds(first, base, context))
  BY <1>1, <1>2, PublishesWell
<1>4. context.left = 0 => key \notin Published(y)
  <2>1. SUFFICES ASSUME context.left = 0 PROVE key \notin Published(y)
    OBVIOUS
  <2>2. first = Erase(base, {key})
    BY <1>2, <2>1 DEF Publish, Dismiss
  <2>3. Published(first) = Published(base) \ {key}
    BY <1>1, <2>2, ErasesWell
  <2> QED
    BY <1>3, <2>3 DEF NoMoreThan
<1>5. ASSUME NEW k \in Published(y), k # key
      PROVE  k \in Published(arb) /\ y.contexts[k] = arb.contexts[k]
  <2>1. k \in Published(first) /\ y.contexts[k] = first.contexts[k]
    BY <1>3, <1>5 DEF NoMoreThan
  <2>2. k \in Published(base) /\ first.contexts[k] = base.contexts[k]
    <3>1. CASE context.left = 0
      <4>1. first = Erase(base, {key})
        BY <1>2, <3>1 DEF Publish, Dismiss
      <4>2. NoMoreThan(first, base)
        BY <1>1, <4>1, ErasesWell
      <4> QED
        BY <2>1, <4>2 DEF NoMoreThan
    <3>2. CASE context.left # 0
      BY <1>3, <1>5, <2>1, <3>2 DEF Adds
    <3> QED
      BY <3>1, <3>2
  <2> QED
    BY <1>1, <2>1, <2>2 DEF NoMoreThan
<1>6. ASSUME NEW k \in Published(y), k # key
      PROVE  y.contexts[k].revision <= rev + 1 /\ FairVersion(y.contexts[k], k, q, b)
  <2>1. /\ FairVersion(arb.contexts[k], k, p, history) /\ y.contexts[k] = arb.contexts[k]
        /\ arb.contexts[k].revision <= rev /\ arb.contexts[k].revision \in Nat
        /\ k \in DOMAIN b <=> k \in DOMAIN history
        /\ k \in DOMAIN b => b[k] = history[k]
        /\ k \in DOMAIN q <=> k \in DOMAIN p
        /\ k \in DOMAIN p => q[k] = p[k]
    BY <1>5, <1>6, RevisionsAre DEF Fair, Follows
  <2> QED
    BY <2>1, FairVersionSame
<1>7. ASSUME key \in Published(y)
      PROVE  y.contexts[key].revision <= rev + 1 /\ FairVersion(y.contexts[key], key, q, b)
  <2>1. y.contexts[key].revision = rev + 1
    BY <1>3, <1>4, <1>7 DEF NoMoreThan, Adds
  <2>2. key \in DOMAIN q /\ q[key] = IF key \in DOMAIN p THEN p[key] ELSE Remembering(arb, key)
    BY <1>7
  <2>3. Remembered(key, q, history)
    <3>1. CASE key \in DOMAIN p
      <4>1. Remembered(key, p, history) /\ q[key] = p[key]
        BY <2>2, <3>1
      <4> QED
        BY <4>1 DEF Remembered
    <3>2. CASE key \notin DOMAIN p
      BY <2>2, <3>2, RememberedFairly
    <3> QED
      BY <3>1, <3>2
  <2>4. Remembered(key, q, b)
    BY <1>7, <2>3 DEF Remembered, AcceptedAs, Follows
  <2>5. key \in DOMAIN b => b[key].revision # rev + 1
    <3>1. SUFFICES ASSUME key \in DOMAIN b PROVE b[key].revision # rev + 1
      OBVIOUS
    <3>2. b[key] = history[key] /\ FairHistory(key, history, rev)
      BY <3>1 DEF Fair, Follows
    <3> QED
      BY <3>2 DEF FairHistory, PublishedContext
  <2> QED
    BY <2>1, <2>2, <2>4, <2>5 DEF FairVersion
<1>8. ASSUME NEW k \in DOMAIN b
      PROVE  /\ FairHistory(k, b, rev + 1)
             /\ k \in Published(y) \/ k \in DOMAIN q \/ b[k].left = 0
  <2>1. FairHistory(k, history, rev) /\ b[k] = history[k]
    BY <1>8 DEF Fair, Follows
  <2> QED
    BY <1>8, <2>1 DEF FairHistory, PublishedContext, Follows
<1> QED
  BY <1>6, <1>7, <1>8 DEF Fair

\* Time: what is published, remembered and in the history grows older together.
LEMMA FairOlder ==
  ASSUME NEW arb, NEW rev, GoodArbiter(arb, rev), NEW p, NEW history, Fair(arb, p, history, rev),
         \A key \in DOMAIN p : p[key] = NoContext \/ p[key] \in PublishedContext
  PROVE  Fair(Aged(arb),
              [key \in DOMAIN p |-> IF p[key] = NoContext THEN NoContext ELSE Older(p[key])],
              [key \in DOMAIN history |-> Older(history[key])], rev)
<1>1. PICK y, q, b : /\ y = Aged(arb) /\ b = [key \in DOMAIN history |-> Older(history[key])]
                     /\ q = [key \in DOMAIN p |-> IF p[key] = NoContext THEN NoContext
                                                  ELSE Older(p[key])]
  OBVIOUS
<1>2. /\ Published(y) = Published(arb)
      /\ \A key \in Published(arb) : y.contexts[key] = Older(arb.contexts[key])
  BY <1>1, AgesWell
<1>3. \A left \in Lifetimes : Elapse(left) \in Lifetimes
  BY ArbiterAssumption DEF Lifetimes, Elapse, Forever
<1>4. Elapse(0) = 0
  BY DEF Elapse
<1>5. ASSUME NEW c \in PublishedContext
      PROVE  /\ Older(c) \in PublishedContext /\ Older(c).left = Elapse(c.left)
             /\ Older(c).revision = c.revision /\ Older(c) # NoContext
  BY <1>3, NoContextIsNone DEF PublishedContext, Older
<1>6. ASSUME NEW key \in DOMAIN history
      PROVE  /\ history[key] \in PublishedContext /\ history[key].revision <= rev
             /\ key \in DOMAIN b /\ b[key] \in PublishedContext
             /\ b[key].left = Elapse(history[key].left) /\ b[key].revision = history[key].revision
  BY <1>1, <1>5, <1>6 DEF Fair, FairHistory
<1>7. ASSUME NEW c \in PublishedContext, NEW key, AcceptedAs(c, key, history)
      PROVE  AcceptedAs(Older(c), key, b)
  BY <1>5, <1>6, <1>7 DEF AcceptedAs
<1>8. ASSUME NEW key \in DOMAIN p, Remembered(key, p, history)
      PROVE  Remembered(key, q, b)
  <2>1. CASE p[key] # NoContext
    <3>1. q[key] = Older(p[key]) /\ p[key] \in PublishedContext
      BY <1>1, <1>8, <2>1
    <3>2. AcceptedAs(p[key], key, history)
      BY <1>8, <2>1 DEF Remembered
    <3>3. AcceptedAs(q[key], key, b) /\ q[key] # NoContext
      BY <1>5, <1>7, <3>1, <3>2
    <3> QED
      BY <3>3 DEF Remembered
  <2>2. CASE p[key] = NoContext
    <3>1. q[key] = NoContext
      BY <1>1, <1>8, <2>2
    <3>2. key \in DOMAIN b => key \in DOMAIN history /\ history[key].left = 0
      BY <1>1, <1>8, <2>2 DEF Remembered
    <3> QED
      BY <1>4, <1>6, <3>1, <3>2 DEF Remembered
  <2> QED
    BY <2>1, <2>2
<1>9. ASSUME NEW key \in Published(arb)
      PROVE  y.contexts[key].revision <= rev /\ FairVersion(y.contexts[key], key, q, b)
  <2>1. PICK c : c = arb.contexts[key]
    OBVIOUS
  <2>2. /\ c \in PublishedContext /\ y.contexts[key] = Older(c) /\ c.revision <= rev
        /\ FairVersion(c, key, p, history)
    BY <1>2, <2>1, RevisionsAre DEF Fair
  <2>3. Older(c).revision = c.revision /\ DOMAIN q = DOMAIN p /\ DOMAIN b = DOMAIN history
    BY <1>1, <1>5, <2>2
  <2>4. CASE key \notin DOMAIN p
    <3>1. AcceptedAs(Older(c), key, b)
      BY <1>7, <2>2, <2>4 DEF FairVersion
    <3> QED
      BY <2>2, <2>3, <2>4, <3>1 DEF FairVersion
  <2>5. CASE key \in DOMAIN p
    <3>1. Remembered(key, q, b)
      BY <1>8, <2>2, <2>5 DEF FairVersion
    <3>2. key \in DOMAIN b => b[key].revision # Older(c).revision
      BY <1>6, <2>2, <2>3, <2>5 DEF FairVersion
    <3> QED
      BY <2>2, <2>3, <2>5, <3>1, <3>2 DEF FairVersion
  <2> QED
    BY <2>4, <2>5
<1>10. ASSUME NEW key \in DOMAIN b
       PROVE  /\ FairHistory(key, b, rev)
              /\ key \in Published(y) \/ key \in DOMAIN q \/ b[key].left = 0
  <2>1. key \in DOMAIN history /\ DOMAIN q = DOMAIN p
    BY <1>1, <1>10
  <2>2. key \in Published(arb) \/ key \in DOMAIN p \/ history[key].left = 0
    BY <2>1 DEF Fair
  <2> QED
    BY <1>2, <1>4, <1>6, <2>1, <2>2 DEF FairHistory
<1>11. Fair(y, q, b, rev)
  BY <1>2, <1>9, <1>10 DEF Fair
<1> QED
  BY <1>1, <1>11

\* What is selected is rendered: the history has it as it is, and nothing is remembered of it.
LEMMA FairAccepted ==
  ASSUME NEW arb, NEW rev \in Nat, GoodArbiter(arb, rev),
         NEW p, NEW history, Fair(arb, p, history, rev), NEW keys, keys \subseteq Published(arb)
  PROVE  Fair(arb, Remove(p, keys), Over(Within(arb.contexts, keys), history), rev)
<1>1. PICK b, q : b = Over(Within(arb.contexts, keys), history) /\ q = Remove(p, keys)
  OBVIOUS
<1>2. /\ DOMAIN b = keys \cup DOMAIN history
      /\ \A key \in keys : b[key] = arb.contexts[key]
      /\ \A key \in DOMAIN b : key \notin keys => b[key] = history[key]
  <2>1. DOMAIN Within(arb.contexts, keys) = keys
    BY DEF Within, Published
  <2>2. \A key \in keys : Within(arb.contexts, keys)[key] = arb.contexts[key]
    BY DEF Within, Published
  <2> QED
    BY <1>1, <2>1, <2>2 DEF Over
<1>3. DOMAIN q = DOMAIN p \ keys /\ \A key \in DOMAIN q : q[key] = p[key]
  BY <1>1 DEF Remove
<1>4. ASSUME NEW key \in Published(arb)
      PROVE  arb.contexts[key].revision <= rev /\ FairVersion(arb.contexts[key], key, q, b)
  <2>1. arb.contexts[key].revision <= rev /\ FairVersion(arb.contexts[key], key, p, history)
    BY DEF Fair
  <2>2. CASE key \in keys
    <3>1. AcceptedAs(arb.contexts[key], key, b) /\ key \notin DOMAIN q
      BY <1>2, <1>3, <2>2 DEF AcceptedAs
    <3> QED
      BY <2>1, <3>1 DEF FairVersion
  <2>3. CASE key \notin keys
    <3>1. /\ key \in DOMAIN q <=> key \in DOMAIN p
          /\ key \in DOMAIN p => q[key] = p[key]
          /\ key \in DOMAIN b <=> key \in DOMAIN history
          /\ key \in DOMAIN b => b[key] = history[key]
      BY <1>2, <1>3, <2>3
    <3> QED
      BY <2>1, <3>1, FairVersionSame
  <2> QED
    BY <2>2, <2>3
<1>5. ASSUME NEW key \in DOMAIN b
      PROVE  /\ FairHistory(key, b, rev)
             /\ key \in Published(arb) \/ key \in DOMAIN q \/ b[key].left = 0
  <2>1. CASE key \in keys
    BY <1>2, <2>1, RevisionsAre DEF Fair, FairHistory
  <2>2. CASE key \notin keys
    BY <1>2, <1>3, <1>5, <2>2 DEF Fair, FairHistory
  <2> QED
    BY <2>1, <2>2
<1>6. Fair(arb, q, b, rev)
  BY <1>4, <1>5 DEF Fair
<1> QED
  BY <1>1, <1>6

\* A context is refused and dismissed.
LEMMA FairErased ==
  ASSUME NEW arb, NEW rev \in Nat, GoodArbiter(arb, rev),
         NEW p, NEW history, Fair(arb, p, history, rev), NEW key
  PROVE  LET y == Erase(arb, {key})
         IN  Fair(y, Remove(p, {key}), Within(history, Published(y)), rev + 1)
<1>1. PICK y, q, b, later : /\ y = Erase(arb, {key}) /\ q = Remove(p, {key})
                            /\ b = Within(history, Published(y)) /\ later = rev + 1
  OBVIOUS
<1>2. NoMoreThan(y, arb) /\ Published(y) = Published(arb) \ {key}
  BY <1>1, ErasesWell
<1>3. Follows(b, history, y, q)
  BY <1>1 DEF Follows, Within
<1>4. \A k \in Published(y) : (k \in DOMAIN q <=> k \in DOMAIN p) /\ (k \in DOMAIN p => q[k] = p[k])
  BY <1>1, <1>2 DEF Remove
<1>5. \A k \in Published(arb) : arb.contexts[k].revision \in Nat
  BY RevisionsAre
<1>6. Fair(y, q, b, later)
  BY <1>1, <1>2, <1>3, <1>4, <1>5, FairFewer
<1> QED
  BY <1>1, <1>6

\* What has become of a context of the revision `refused`, in the arbiter y.
GivenBack(key, refused, history, y) ==
  IF key \in DOMAIN history /\ history[key].revision # refused /\ history[key].left # 0
  THEN key \in Published(y) /\ y.contexts[key].revision = history[key].revision
  ELSE key \notin Published(y)

\* A refusal gives back what the history has, and nothing else.
LEMMA FairRejected ==
  ASSUME NEW arb, NEW rev \in Nat, GoodArbiter(arb, rev),
         NEW p, NEW history, Fair(arb, p, history, rev), DOMAIN p \subseteq Published(arb),
         NEW key \in Published(arb),
         key \in DOMAIN p => p[key] = NoContext \/ (p[key] \in PublishedContext /\ p[key].key = key),
         NEW y, y = IF key \in DOMAIN p /\ p[key] # NoContext THEN Publish(arb, p[key])
                    ELSE Dismiss(arb, key),
         NEW q, q = Remove(p, {key}), NEW b, b = Within(history, Published(y)),
         \A k \in Published(arb) : arb.contexts[k].left # 0
  PROVE  /\ Fair(y, q, b, rev + 1)
         /\ GivenBack(key, arb.contexts[key].revision, history, y)
         /\ \A k \in Published(y) : y.contexts[k].left # 0
         /\ DOMAIN q \subseteq Published(y)
<1>1. PICK c : c = arb.contexts[key]
  OBVIOUS
<1>2. FairVersion(c, key, p, history)
  BY <1>1 DEF Fair
<1>3. /\ \A k \in DOMAIN b : k \in Published(y) /\ k \in DOMAIN history /\ b[k] = history[k]
      /\ \A k \in Published(y) : k \in DOMAIN history => k \in DOMAIN b
      /\ DOMAIN q = DOMAIN p \ {key} /\ \A k \in DOMAIN q : q[k] = p[k]
  BY DEF Within, Remove
<1>4. Follows(b, history, y, q)
  BY <1>3 DEF Follows
<1>5. CASE key \notin DOMAIN p \/ p[key] = NoContext \/ p[key].left = 0
  <2>1. y = Erase(arb, {key})
    BY <1>5 DEF Publish, Dismiss
  <2>2. NoMoreThan(y, arb) /\ Published(y) = Published(arb) \ {key}
    BY <2>1, ErasesWell
  <2>3. b = Within(history, Published(Erase(arb, {key})))
    BY <2>1
  <2>4. Fair(y, q, b, rev + 1)
    BY <2>1, <2>3, FairErased, Zenon
  <2>5. ~(key \in DOMAIN history /\ history[key].revision # c.revision /\ history[key].left # 0)
    BY <1>2, <1>5 DEF FairVersion, Remembered, AcceptedAs
  <2>6. GivenBack(key, c.revision, history, y)
    BY <2>2, <2>5 DEF GivenBack
  <2>7. DOMAIN q \subseteq Published(y) /\ \A k \in Published(y) : y.contexts[k].left # 0
    BY <1>3, <2>2 DEF NoMoreThan
  <2> QED
    BY <1>1, <2>4, <2>6, <2>7
<1>6. CASE key \in DOMAIN p /\ p[key] # NoContext /\ p[key].left # 0
  <2>1. PICK old : old = p[key]
    OBVIOUS
  <2>2. /\ old \in PublishedContext /\ old.key = key /\ old.left # 0 /\ y = Publish(arb, old)
        /\ AcceptedAs(old, key, history) /\ history[key].revision # c.revision
    BY <1>2, <1>6, <2>1 DEF FairVersion, Remembered, AcceptedAs
  <2>3. Adds(y, arb, old)
    BY <2>2, PublishesWell
  <2>4. PICK new : new = y.contexts[key]
    OBVIOUS
  <2>5. /\ new.left = old.left /\ new.revision = old.revision
        /\ Published(y) = Published(arb) \cup {key}
        /\ \A k \in Published(arb) : k # key => y.contexts[k] = arb.contexts[k]
    BY <2>2, <2>3, <2>4 DEF Adds
  <2>6. new.revision <= rev + 1 /\ FairVersion(new, key, q, b)
    <3>1. key \in DOMAIN b /\ b[key] = history[key] /\ key \notin DOMAIN q
      BY <1>3, <2>2, <2>5 DEF AcceptedAs
    <3>2. AcceptedAs(new, key, b)
      BY <2>2, <2>5, <3>1 DEF AcceptedAs
    <3>3. new.revision <= rev /\ new.revision \in Nat
      BY <2>2, <2>5 DEF AcceptedAs, Fair, FairHistory, PublishedContext
    <3> QED
      BY <3>1, <3>2, <3>3 DEF FairVersion
  <2>7. ASSUME NEW k \in Published(y), k # key
        PROVE  y.contexts[k].revision <= rev + 1 /\ FairVersion(y.contexts[k], k, q, b)
    <3>1. k \in Published(arb) /\ y.contexts[k] = arb.contexts[k]
      BY <2>5, <2>7
    <3>2. /\ FairVersion(arb.contexts[k], k, p, history)
          /\ arb.contexts[k].revision <= rev /\ arb.contexts[k].revision \in Nat
      BY <3>1, RevisionsAre DEF Fair
    <3>3. /\ k \in DOMAIN q <=> k \in DOMAIN p
          /\ k \in DOMAIN p => q[k] = p[k]
          /\ k \in DOMAIN b <=> k \in DOMAIN history
          /\ k \in DOMAIN b => b[k] = history[k]
      BY <1>3, <2>7
    <3>4. FairVersion(arb.contexts[k], k, q, b)
      BY <3>2, <3>3, FairVersionSame
    <3> QED
      BY <3>1, <3>2, <3>4
  <2>8. \A k \in DOMAIN b : FairHistory(k, b, rev + 1) /\ k \in Published(y)
    <3>1. \A k \in DOMAIN b : FairHistory(k, history, rev) /\ b[k] = history[k] /\ k \in Published(y)
      BY <1>3 DEF Fair
    <3> QED
      BY <3>1 DEF FairHistory, PublishedContext
  <2>9. Fair(y, q, b, rev + 1)
    BY <2>4, <2>6, <2>7, <2>8 DEF Fair
  <2>10. GivenBack(key, c.revision, history, y)
    BY <2>2, <2>4, <2>5 DEF GivenBack, AcceptedAs
  <2>11. \A k \in Published(y) : y.contexts[k].left # 0
    BY <2>2, <2>4, <2>5
  <2>12. DOMAIN q \subseteq Published(y)
    BY <1>3, <2>5
  <2> QED
    BY <1>1, <2>9, <2>10, <2>11, <2>12
<1> QED
  BY <1>5, <1>6

LEMMA StandingStillRefuses ==
  ASSUME RefusalInv, UNCHANGED <<arbiter, pending, accepted, revision>>,
         phase' = phase \/ (phase' \in {"start", "events"} /\ phase \notin {"events", "control"})
           \/ (phase = "render" /\ phase' = "tell")
  PROVE  RefusalInv'
<1>1. PICK arb, p, history, next, rev :
        arb = arbiter' /\ p = pending' /\ history = accepted' /\ next = phase' /\ rev = revision'
  OBVIOUS
<1>2. /\ Fair(arb, p, history, rev) /\ Kept(arb, p, history, phase)
      /\ arb = arbiter /\ p = pending /\ history = accepted /\ rev = revision
  BY <1>1 DEF RefusalInv
<1>3. Kept(arb, p, history, next)
  BY <1>1, <1>2 DEF Kept
<1> QED
  BY <1>1, <1>2, <1>3, RefusalIs

\* A question that leaves revision rev.
LEMMA AskedRefuses ==
  ASSUME TypesInv, RefusalInv, NEW y, NEW rev, GoodArbiter(y, rev), NoMoreThan(y, arbiter), Asked(y),
         revision' \in Nat, revision <= revision'
  PROVE  RefusalInv'
<1>1. PICK arb, p, history, next, later :
        /\ arb = arbiter' /\ p = pending' /\ history = accepted' /\ next = phase' /\ later = revision'
        /\ arb = Expire(y) /\ p = Within(pending, Published(arb))
        /\ history = Within(accepted, Published(arb))
  BY DEF Asked, Prune, StillAccepted
<1>2. NoMoreThan(arb, y) /\ \A key \in Published(arb) : arb.contexts[key].left # 0
  BY <1>1, ExpiredAre
<1>3. NoMoreThan(arb, arbiter)
  BY <1>2, FewerKept
<1>4. /\ DOMAIN p = DOMAIN pending \cap Published(arb) /\ \A key \in DOMAIN p : p[key] = pending[key]
      /\ DOMAIN history = DOMAIN accepted \cap Published(arb)
      /\ \A key \in DOMAIN history : history[key] = accepted[key]
  BY <1>1 DEF Within
<1>5. Fair(arbiter, pending, accepted, revision) /\ revision \in Nat /\ GoodArbiter(arbiter, revision)
  BY DEF RefusalInv, TypesInv, ContextTypes
<1>6. Follows(history, accepted, arb, p)
  BY <1>4 DEF Follows
<1>7. Fair(arb, p, history, later)
  BY <1>1, <1>3, <1>4, <1>5, <1>6, FairFewer, RevisionsAre
<1>8. DOMAIN p \subseteq Published(arb)
  BY <1>4
<1>9. Kept(arb, p, history, next)
  BY <1>2, <1>7, <1>8, PrunedIsKept DEF Kept
<1> QED
  BY <1>1, <1>7, <1>9, RefusalIs

LEMMA ClearsRefuses ==
  ASSUME TypesInv, RefusalInv, NEW keys, Clears(keys)
  PROVE  RefusalInv'
<1>1. PICK arb, p, history, next, later :
        /\ arb = arbiter' /\ p = pending' /\ history = accepted' /\ next = phase' /\ later = revision'
        /\ arb = ClearActivation(arbiter, keys) /\ p = pending /\ history = accepted /\ next = phase
        /\ later \in {revision, revision + 1}
  BY DEF Clears
<1>2. /\ Fair(arbiter, pending, accepted, revision) /\ Kept(arbiter, pending, accepted, phase)
      /\ revision \in Nat /\ GoodArbiter(arbiter, revision)
  BY DEF RefusalInv, TypesInv, ContextTypes
<1>3. NoMoreThan(arb, arbiter) /\ Published(arb) = Published(arbiter)
  BY <1>1, <1>2, ClearsWell
<1>4. Follows(history, accepted, arb, p)
  BY <1>1, <1>2, <1>3 DEF Follows, Fair
<1>5. later \in Nat /\ revision <= later
  BY <1>1, <1>2
<1>6. Fair(arb, p, history, later)
  BY <1>1, <1>2, <1>3, <1>4, <1>5, FairFewer, RevisionsAre
<1>7. Kept(arb, p, history, next)
  BY <1>1, <1>2, <1>3 DEF Kept, NoMoreThan
<1> QED
  BY <1>1, <1>6, <1>7, RefusalIs

LEMMA DismissCommandRefuses ==
  ASSUME TypesInv, RefusalInv, NEW slot \in Slots, DismissCommand(slot)
  PROVE  RefusalInv'
<1>1. PICK key : /\ arbiter' = Dismiss(Expire(arbiter), key)
                 /\ accepted' = Remove(StillAccepted(Expire(arbiter)), {key})
  BY DEF DismissCommand
<1>2. PICK arb, p, history, next :
        /\ arb = arbiter' /\ p = pending' /\ history = accepted' /\ next = phase'
        /\ arb = Erase(Expire(arbiter), {key}) /\ p = pending /\ next = "control"
        /\ history = Remove(Within(accepted, Published(Expire(arbiter))), {key})
        /\ revision' = revision + 1
  BY <1>1 DEF DismissCommand, Dismiss, StillAccepted
<1>3. /\ GoodArbiter(Expire(arbiter), revision) /\ NoMoreThan(Expire(arbiter), arbiter)
      /\ GoodArbiter(arbiter, revision) /\ revision \in Nat
      /\ Fair(arbiter, pending, accepted, revision)
  BY ExpiredIs DEF TypesInv, ContextTypes, RefusalInv
<1>4. NoMoreThan(arb, Expire(arbiter)) /\ Published(arb) = Published(Expire(arbiter)) \ {key}
  BY <1>2, <1>3, ErasesWell
<1>5. NoMoreThan(arb, arbiter)
  BY <1>3, <1>4, FewerKept
<1>6. /\ DOMAIN history = DOMAIN accepted \cap Published(arb)
      /\ \A k \in DOMAIN history : history[k] = accepted[k]
  BY <1>2, <1>4 DEF Within, Remove
<1>7. Follows(history, accepted, arb, p)
  BY <1>6 DEF Follows
<1>8. Fair(arb, p, history, revision + 1)
  BY <1>2, <1>3, <1>5, <1>7, FairFewer, RevisionsAre
<1>9. Kept(arb, p, history, next)
  BY <1>2 DEF Kept
<1> QED
  BY <1>2, <1>8, <1>9, RefusalIs

LEMMA FrameRefuses ==
  ASSUME TypesInv, RefusalInv,
         HoldActivation \/ BeginRender
           \/ \E i \in Instances : ActivateCommand(i) \/ ActivateOpenRefused(i)
  PROVE  RefusalInv'
<1>1. ContextTypes /\ revision \in Nat
  BY DEF TypesInv, ContextTypes
<1>2. /\ GoodArbiter(arbiter, revision) /\ NoMoreThan(arbiter, arbiter)
      /\ GoodArbiter(Expire(arbiter), revision) /\ NoMoreThan(Expire(arbiter), arbiter)
  BY <1>1, ExpiredIs
<1>3. revision' \in Nat /\ revision <= revision'
  <2>1. revision' \in {revision, revision + 1, revision + 2}
    BY Zenon DEF HoldActivation, BeginRender, ActivateCommand, ActivateOpenRefused
  <2> QED
    BY <1>1, <2>1
<1>4. CASE HoldActivation
  <2>1. PICK held \in BOOLEAN : Asked([arbiter EXCEPT !.held = held])
    BY <1>4 DEF HoldActivation
  <2>2. PICK y : y = [arbiter EXCEPT !.held = held]
    OBVIOUS
  <2>3. GoodArbiter(y, revision) /\ NoMoreThan(y, arbiter)
    BY <1>2, <2>2, HoldsWell
  <2> QED
    BY <1>3, <2>1, <2>2, <2>3, AskedRefuses
<1>5. CASE BeginRender
  BY <1>2, <1>3, <1>5, AskedRefuses DEF BeginRender
<1>6. ASSUME NEW i \in Instances, ActivateCommand(i)
      PROVE  RefusalInv'
  <2>1. PICK left \in {Forever} \cup 1..MaxLifetime : Asked(Activate(Expire(arbiter), i, left))
    BY <1>6 DEF ActivateCommand
  <2>2. left \in Lifetimes /\ Available(Expire(arbiter), i)
    BY <1>6, <2>1, ArbiterAssumption DEF Lifetimes, ActivateCommand
  <2>3. PICK y : y = Activate(Expire(arbiter), i, left)
    OBVIOUS
  <2>4. GoodArbiter(y, revision) /\ NoMoreThan(y, Expire(arbiter))
    BY <1>1, <1>2, <2>2, <2>3, ActivatesWell
  <2>5. NoMoreThan(y, arbiter)
    BY <1>2, <2>4, FewerKept
  <2> QED
    BY <1>3, <2>1, <2>3, <2>4, <2>5, AskedRefuses
<1>7. ASSUME NEW i \in Instances, ActivateOpenRefused(i)
      PROVE  RefusalInv'
  <2>1. PICK first, second, y :
          /\ first = Activate(Expire(arbiter), i, Forever) /\ second = Expire(first)
          /\ y = ClearActivation(second, {second.activation.key}) /\ Asked(y)
    BY <1>7 DEF ActivateOpenRefused
  <2>2. Forever \in Lifetimes /\ Available(Expire(arbiter), i)
    BY <1>7 DEF Lifetimes, ActivateOpenRefused
  <2>3. GoodArbiter(first, revision) /\ NoMoreThan(first, Expire(arbiter))
    BY <1>1, <1>2, <2>1, <2>2, ActivatesWell
  <2>4. GoodArbiter(second, revision) /\ NoMoreThan(second, first)
    BY <2>1, <2>3, ExpiresWell
  <2>5. PICK keys : keys = {second.activation.key}
    OBVIOUS
  <2>6. GoodArbiter(y, revision) /\ NoMoreThan(y, second)
    BY <2>1, <2>4, <2>5, ClearsWell
  <2>7. NoMoreThan(y, arbiter)
    BY <1>2, <2>3, <2>4, <2>6, FewerKept
  <2> QED
    BY <1>3, <2>1, <2>6, <2>7, AskedRefuses
<1> QED
  BY <1>4, <1>5, <1>6, <1>7

LEMMA TellRefuses ==
  ASSUME TypesInv, RefusalInv, Tell
  PROVE  RefusalInv'
<1>1. PICK arb, p, history, next, rev :
        /\ arb = arbiter' /\ p = pending' /\ history = accepted' /\ next = phase' /\ rev = revision'
        /\ arb = Expire(arbiter) /\ p = pending /\ history = Within(accepted, Published(arb))
        /\ next = "start" /\ phase = "tell" /\ rev = revision
  BY DEF Tell, StillAccepted
<1>2. /\ Fair(arbiter, pending, accepted, revision) /\ DOMAIN pending \subseteq Published(arbiter)
      /\ \A key \in Published(arbiter) : arbiter.contexts[key].left # 0
      /\ revision \in Nat /\ GoodArbiter(arbiter, revision)
  BY <1>1 DEF RefusalInv, Kept, TypesInv, ContextTypes
<1>3. NoMoreThan(arb, arbiter) /\ Published(arb) = Published(arbiter)
  BY <1>1, <1>2, ExpiredAre
<1>4. /\ DOMAIN history = DOMAIN accepted \cap Published(arb)
      /\ \A key \in DOMAIN history : history[key] = accepted[key]
  BY <1>1 DEF Within
<1>5. Follows(history, accepted, arb, p)
  BY <1>4 DEF Follows
<1>6. Fair(arb, p, history, rev)
  BY <1>1, <1>2, <1>3, <1>5, FairFewer, RevisionsAre
<1>7. Kept(arb, p, history, next)
  BY <1>1, <1>2, <1>3, <1>6, PrunedIsKept DEF Kept
<1> QED
  BY <1>1, <1>6, <1>7, RefusalIs

LEMMA TickRefuses ==
  ASSUME TypesInv, RefusalInv, Tick
  PROVE  RefusalInv'
<1>1. PICK arb, p, history, next, rev :
        /\ arb = arbiter' /\ p = pending' /\ history = accepted' /\ next = phase' /\ rev = revision'
        /\ arb = Aged(arbiter) /\ next = "start" /\ phase = "start" /\ rev = revision
        /\ p = [key \in DOMAIN pending |->
                  IF pending[key] = NoContext THEN NoContext ELSE Older(pending[key])]
        /\ history = [key \in DOMAIN accepted |-> Older(accepted[key])]
  BY DEF Tick
<1>2. /\ GoodArbiter(arbiter, revision) /\ Fair(arbiter, pending, accepted, revision)
      /\ DOMAIN pending \subseteq Published(arbiter)
  BY <1>1 DEF RefusalInv, Kept, TypesInv, ContextTypes
<1>3. \A key \in DOMAIN pending : pending[key] = NoContext \/ pending[key] \in PublishedContext
  BY DEF TypesInv, ContextTypes, Waiting
<1>4. Fair(arb, p, history, rev)
  BY <1>1, <1>2, <1>3, FairOlder
<1>5. DOMAIN p \subseteq Published(arb)
  BY <1>1, <1>2, AgesWell
<1>6. Kept(arb, p, history, next)
  BY <1>1, <1>4, <1>5, PrunedIsKept DEF Kept
<1> QED
  BY <1>1, <1>4, <1>6, RefusalIs

LEMMA RenderAcceptedRefuses ==
  ASSUME TypesInv, RefusalInv, RenderAccepted
  PROVE  RefusalInv'
<1>1. PICK keys : keys = KeysIn(Selections(arbiter))
  OBVIOUS
<1>2. PICK arb, p, history, next, rev :
        /\ arb = arbiter' /\ p = pending' /\ history = accepted' /\ next = phase' /\ rev = revision'
        /\ next = "tell" /\ phase = "render" /\ arb = arbiter /\ rev = revision
        /\ p = Remove(pending, keys) /\ history = Over(Within(arbiter.contexts, keys), accepted)
  BY <1>1 DEF RenderAccepted, Accept, Selected
<1>3. /\ GoodArbiter(arbiter, revision) /\ revision \in Nat
      /\ Fair(arbiter, pending, accepted, revision) /\ Kept(arbiter, pending, accepted, "render")
  BY <1>2 DEF RefusalInv, TypesInv, ContextTypes
<1>4. keys \subseteq Published(arbiter)
  BY <1>1, <1>3, SelectedAreThere
<1>5. Fair(arb, p, history, rev)
  BY <1>2, <1>3, <1>4, FairAccepted
<1>6. DOMAIN p \subseteq Published(arb)
  BY <1>2, <1>3 DEF Remove, Kept
<1>7. Kept(arb, p, history, next)
  BY <1>2, <1>3, <1>5, <1>6, PrunedIsKept DEF Kept
<1> QED
  BY <1>2, <1>5, <1>7, RefusalIs

\* What a refusal does, in a frame that renders.
FairlyRefused ==
  LET refused == Refused(Selected)
  IN  GivenBack(refused.key, refused.revision, accepted, arbiter')

LEMMA RenderRejectedRefuses ==
  ASSUME TypesInv, RefusalInv, RenderRejected
  PROVE  RefusalInv' /\ FairlyRefused
<1>1. PICK refused, key : refused = Refused(Selections(arbiter)) /\ key = refused.key
  OBVIOUS
<1>2. PICK y, p, history, next, rev :
        /\ y = arbiter' /\ p = pending' /\ history = accepted' /\ next = phase' /\ rev = revision'
        /\ next = "tell" /\ phase = "render" /\ refused # NoContext /\ rev = revision + 1
        /\ y = IF key \in DOMAIN pending /\ pending[key] # NoContext
               THEN Publish(arbiter, pending[key]) ELSE Dismiss(arbiter, key)
        /\ p = Remove(pending, {key}) /\ history = Within(accepted, Published(y))
  BY <1>1 DEF RenderRejected, Rejected, Selected, StillAccepted
<1>3. /\ GoodArbiter(arbiter, revision) /\ revision \in Nat
      /\ Fair(arbiter, pending, accepted, revision) /\ DOMAIN pending \subseteq Published(arbiter)
      /\ \A k \in Published(arbiter) : arbiter.contexts[k].left # 0
      /\ key \in DOMAIN pending
           => pending[key] = NoContext
                \/ (pending[key] \in PublishedContext /\ pending[key].key = key)
  BY <1>2 DEF RefusalInv, Kept, TypesInv, ContextTypes, Waiting
<1>4. key \in Published(arbiter) /\ arbiter.contexts[key] = refused
  BY <1>1, <1>2, <1>3, SelectedAreThere, ContextsAre
<1>5. /\ Fair(y, p, history, rev) /\ GivenBack(key, refused.revision, accepted, y)
      /\ \A k \in Published(y) : y.contexts[k].left # 0
      /\ DOMAIN p \subseteq Published(y)
  BY <1>2, <1>3, <1>4, FairRejected
<1>6. Kept(y, p, history, next)
  BY <1>2, <1>5, PrunedIsKept DEF Kept
<1>7. RefusalInv'
  BY <1>2, <1>5, <1>6, RefusalIs
<1>8. FairlyRefused
  BY <1>1, <1>2, <1>5 DEF FairlyRefused, Selected
<1> QED
  BY <1>7, <1>8

LEMMA RememberedIs ==
  ASSUME NEW key, NEW p, p = RememberReplacement(key)
  PROVE  /\ DOMAIN p = DOMAIN pending \cup {key}
         /\ \A k \in DOMAIN pending : p[k] = pending[k]
         /\ key \notin DOMAIN pending => p[key] = Remembering(arbiter, key)
  BY DEF RememberReplacement, Remembering, Put

LEMMA ConsumePublishRefuses ==
  ASSUME RuntimeInv, RefusalInv, Consume, ConsumePublish(Head(queue))
  PROVE  RefusalInv'
<1>1. PICK context, key, base, remembered :
        /\ context = Received(Head(queue).about, revision + 1) /\ key = Head(queue).about.key
        /\ base = LookedUp(key) /\ remembered = RememberReplacement(key)
  OBVIOUS
<1>2. PICK y, p, history, next, rev :
        /\ y = arbiter' /\ p = pending' /\ history = accepted' /\ next = phase' /\ rev = revision'
        /\ y = Expire(Publish(base, context)) /\ p = Within(remembered, Published(y))
        /\ history = Within(accepted, Published(y)) /\ next = "events" /\ phase = "events"
        /\ rev = revision + 1
  BY <1>1 DEF Consume, ConsumePublish, Prune, StillAccepted
<1>3. /\ queue # << >> /\ Head(queue).kind = "publish" /\ TypesInv /\ EventsInv
      /\ GoodArbiter(arbiter, revision) /\ revision \in Nat /\ revision + 1 \in Nat
      /\ Fair(arbiter, pending, accepted, revision)
      /\ \A k \in DOMAIN pending : Remembered(k, pending, accepted)
  BY <1>2 DEF Consume, ConsumePublish, RuntimeInv, RefusalInv, Kept, TypesInv, ContextTypes
<1>4. Head(queue).about \in Publications
  <2>1. 1 \in DOMAIN queue /\ queue[1] = Head(queue)
    BY <1>3 DEF TypesInv, ProcessTypes
  <2> QED
    BY <1>3, <2>1 DEF EventsInv, QueueSays
<1>5. context \in PublishedContext /\ context.key = key /\ context.revision = revision + 1
  <2>1. context \in PublishedContext /\ context.key = key
    BY <1>1, <1>3, <1>4, PublicationsAreContexts
  <2> QED
    BY <1>1, <2>1 DEF Received
<1>6. base = IF key \in DOMAIN pending THEN arbiter ELSE Expire(arbiter)
  BY <1>1 DEF LookedUp
<1>7. GoodArbiter(Publish(base, context), revision + 1)
  <2>1. GoodArbiter(base, revision)
    BY <1>3, <1>6, ExpiresWell
  <2> QED
    BY <1>3, <1>5, <2>1, PublishesWell
<1>8. NoMoreThan(y, Publish(base, context))
  BY <1>2, <1>7, ExpiresWell
<1>9. /\ DOMAIN remembered = DOMAIN pending \cup {key}
      /\ \A k \in DOMAIN pending : remembered[k] = pending[k]
      /\ key \notin DOMAIN pending => remembered[key] = Remembering(arbiter, key)
  BY <1>1, RememberedIs
<1>10. DOMAIN p = DOMAIN remembered \cap Published(y) /\ \A k \in DOMAIN p : p[k] = remembered[k]
  BY <1>2 DEF Within
<1>11. ASSUME NEW k \in Published(y)
       PROVE  /\ k # key => /\ k \in DOMAIN p <=> k \in DOMAIN pending
                            /\ k \in DOMAIN pending => p[k] = pending[k]
              /\ k = key => /\ k \in DOMAIN p
                            /\ p[k] = IF k \in DOMAIN pending THEN pending[k]
                                      ELSE Remembering(arbiter, k)
  BY <1>9, <1>10
<1>12. Follows(history, accepted, y, p)
  BY <1>2 DEF Follows, Within
<1>13. Fair(y, p, history, revision + 1)
  BY <1>3, <1>5, <1>6, <1>8, <1>11, <1>12, FairPublished
<1>14. Kept(y, p, history, next)
  BY <1>2, <1>10, <1>13, PrunedIsKept DEF Kept
<1> QED
  BY <1>2, <1>13, <1>14, RefusalIs

LEMMA ConsumeDataRefuses ==
  ASSUME RuntimeInv, RefusalInv, Consume, ConsumeData(Head(queue))
  PROVE  RefusalInv'
<1>1. PICK i, context, key, base :
        /\ i = Head(queue).instance /\ key = Configured(i) /\ base = LookedUp(key)
        /\ context = Instantiated(i, config[i].view, revision + 1)
  OBVIOUS
<1>2. PICK y, p, history, next, rev :
        /\ y = arbiter' /\ p = pending' /\ history = accepted' /\ next = phase' /\ rev = revision'
        /\ y = Publish(base, context) /\ p = RememberReplacement(key)
        /\ history = accepted /\ next = "events" /\ phase = "events" /\ rev = revision + 1
  BY <1>1 DEF Consume, ConsumeData
<1>3. /\ queue # << >> /\ Head(queue).kind = "data" /\ TypesInv /\ EventsInv /\ ProcessTypes
      /\ GoodArbiter(arbiter, revision) /\ revision \in Nat /\ revision + 1 \in Nat
      /\ Fair(arbiter, pending, accepted, revision)
      /\ \A k \in DOMAIN pending : Remembered(k, pending, accepted)
  BY <1>2 DEF Consume, ConsumeData, RuntimeInv, RefusalInv, Kept, TypesInv, ContextTypes
<1>4. key \in Keys /\ i \in Instances
  <2>1. 1 \in DOMAIN queue /\ queue[1] = Head(queue)
    BY <1>3 DEF ProcessTypes
  <2>2. key \in Keys
    BY <1>1, <1>3, <2>1 DEF EventsInv, QueueSays
  <2> QED
    BY <1>1, <1>3, <2>2, HeadIs
<1>5. /\ context \in PublishedContext /\ context.key = key
      /\ context.revision = revision + 1 /\ context.left = Forever
  <2>1. config[i].view \in STRING
    BY <1>3, <1>4, RuntimeAssumption DEF ProcessTypes
  <2>2. context \in PublishedContext /\ context.key = key
    BY <1>1, <1>3, <1>4, <2>1, PublicationsAreContexts
  <2> QED
    BY <1>1, <2>2 DEF Instantiated
<1>6. base = IF key \in DOMAIN pending THEN arbiter ELSE Expire(arbiter)
  BY <1>1 DEF LookedUp
<1>7. GoodArbiter(base, revision)
  BY <1>3, <1>6, ExpiresWell
<1>8. Adds(y, base, context)
  BY <1>2, <1>3, <1>5, <1>7, PublishesWell DEF Forever
<1>9. /\ DOMAIN p = DOMAIN pending \cup {key}
      /\ \A k \in DOMAIN pending : p[k] = pending[k]
      /\ key \notin DOMAIN pending => p[key] = Remembering(arbiter, key)
  BY <1>2, RememberedIs
<1>10. ASSUME NEW k \in DOMAIN accepted
       PROVE  k \in Published(y) \/ k \in DOMAIN p \/ accepted[k].left = 0
  <2>1. CASE k \in Published(arbiter) /\ k \notin Published(base)
    <3>1. arbiter.contexts[k].left = 0
      BY <1>3, <1>6, <2>1, ExpiredAre
    <3> QED
      BY <1>3, <1>9, <2>1, <3>1 DEF Fair, FairVersion, AcceptedAs
  <2>2. CASE k \in Published(base)
    BY <1>8, <2>2 DEF Adds
  <2>3. CASE k \notin Published(arbiter)
    BY <1>3, <1>9, <2>3 DEF Fair
  <2> QED
    BY <2>1, <2>2, <2>3
<1>11. Follows(history, accepted, y, p)
  BY <1>2, <1>10 DEF Follows
<1>12. ASSUME NEW k \in Published(y)
       PROVE  /\ k # key => /\ k \in DOMAIN p <=> k \in DOMAIN pending
                            /\ k \in DOMAIN pending => p[k] = pending[k]
              /\ k = key => /\ k \in DOMAIN p
                            /\ p[k] = IF k \in DOMAIN pending THEN pending[k]
                                      ELSE Remembering(arbiter, k)
  BY <1>9
<1>13. NoMoreThan(y, Publish(base, context))
  BY <1>2 DEF NoMoreThan
<1>14. Fair(y, p, history, revision + 1)
  BY <1>3, <1>5, <1>6, <1>11, <1>12, <1>13, FairPublished
<1>15. ASSUME NEW k \in DOMAIN p
       PROVE  Remembered(k, p, history)
  <2>1. CASE k \in DOMAIN pending
    BY <1>2, <1>3, <1>9, <2>1 DEF Remembered
  <2>2. CASE k \notin DOMAIN pending
    BY <1>2, <1>3, <1>9, <1>15, <2>2, RememberedFairly
  <2> QED
    BY <2>1, <2>2
<1>16. Kept(y, p, history, next)
  BY <1>2, <1>15 DEF Kept
<1> QED
  BY <1>2, <1>14, <1>16, RefusalIs

\* What is dismissed, or removed with its process, is given back no more.
LEMMA ConsumeErasureRefuses ==
  ASSUME TypesInv, RefusalInv, NEW keys, arbiter' = Erase(arbiter, keys),
         accepted' = Remove(accepted, keys), pending' = Remove(pending, keys),
         revision' = revision + 1, phase = "events", phase' = "events"
  PROVE  RefusalInv'
<1>1. PICK y, p, history, next, rev :
        /\ y = arbiter' /\ p = pending' /\ history = accepted' /\ next = phase' /\ rev = revision'
        /\ y = Erase(arbiter, keys) /\ p = Remove(pending, keys)
        /\ history = Remove(accepted, keys) /\ next = "events" /\ rev = revision + 1
  OBVIOUS
<1>2. /\ GoodArbiter(arbiter, revision) /\ revision \in Nat
      /\ Fair(arbiter, pending, accepted, revision)
      /\ \A k \in DOMAIN pending : Remembered(k, pending, accepted)
  BY DEF RefusalInv, Kept, TypesInv, ContextTypes
<1>3. NoMoreThan(y, arbiter) /\ Published(y) = Published(arbiter) \ keys
  BY <1>1, <1>2, ErasesWell
<1>4. /\ DOMAIN p = DOMAIN pending \ keys /\ \A k \in DOMAIN p : p[k] = pending[k]
      /\ DOMAIN history = DOMAIN accepted \ keys
      /\ \A k \in DOMAIN history : history[k] = accepted[k]
  BY <1>1 DEF Remove
<1>5. Follows(history, accepted, y, p)
  BY <1>2, <1>3, <1>4 DEF Follows, Fair
<1>6. Fair(y, p, history, rev)
  BY <1>1, <1>2, <1>3, <1>4, <1>5, FairFewer, RevisionsAre
<1>7. Kept(y, p, history, next)
  BY <1>1, <1>2, <1>4 DEF Kept, Remembered, AcceptedAs
<1> QED
  BY <1>1, <1>6, <1>7, RefusalIs

LEMMA ConsumeRefuses ==
  ASSUME RuntimeInv, RefusalInv, Consume
  PROVE  RefusalInv'
<1>1. TypesInv /\ phase = "events" /\ phase' = "events"
  BY DEF Consume, RuntimeInv
<1>2. PICK event : event = Head(queue)
  OBVIOUS
<1>3. \/ ConsumeStarted(event) \/ ConsumeReady(event) \/ ConsumePublish(event)
      \/ ConsumeData(event) \/ ConsumeDismiss(event) \/ ConsumeRemoved(event)
      \/ ConsumeNothing(event)
  BY <1>2 DEF Consume
<1>4. CASE ConsumeStarted(event) \/ ConsumeReady(event) \/ ConsumeNothing(event)
  <2>1. UNCHANGED <<arbiter, pending, accepted, revision>>
    BY <1>4 DEF ConsumeStarted, ConsumeReady, ConsumeNothing
  <2>2. phase' = phase
    BY <1>1
  <2> QED
    BY <2>1, <2>2, StandingStillRefuses
<1>5. CASE ConsumeDismiss(event)
  <2>1. PICK keys : keys = {event.about}
    OBVIOUS
  <2>2. /\ arbiter' = Erase(arbiter, keys) /\ accepted' = Remove(accepted, keys)
        /\ pending' = Remove(pending, keys) /\ revision' = revision + 1
    BY <1>5, <2>1 DEF ConsumeDismiss, Dismiss
  <2> QED
    BY <1>1, <2>2, ConsumeErasureRefuses
<1>6. CASE ConsumeRemoved(event)
  <2>1. PICK keys : keys = {key \in Keys : key[1] = event.instance}
    OBVIOUS
  <2>2. /\ arbiter' = Erase(arbiter, keys) /\ accepted' = Remove(accepted, keys)
        /\ pending' = Remove(pending, keys) /\ revision' = revision + 1
    BY <1>6, <2>1 DEF ConsumeRemoved, DismissInstance
  <2> QED
    BY <1>1, <2>2, ConsumeErasureRefuses
<1>7. CASE ConsumePublish(event)
  BY <1>2, <1>7, ConsumePublishRefuses
<1>8. CASE ConsumeData(event)
  BY <1>2, <1>8, ConsumeDataRefuses
<1> QED
  BY <1>3, <1>4, <1>5, <1>6, <1>7, <1>8

\* A reload takes what is published for rendered, and forgets what was remembered.
LEMMA ReloadRefuses ==
  ASSUME TypesInv, RefusalInv, NEW new \in Configurations, Reload(new)
  PROVE  RefusalInv'
<1>1. PICK arb, p, history, next, rev :
        /\ arb = arbiter' /\ p = pending' /\ history = accepted' /\ next = phase' /\ rev = revision'
        /\ arb = PreparedArbiter(new) /\ p = << >> /\ phase \in {"start", "control"} /\ next = phase
        /\ history = arb.contexts /\ rev = revision + 1
  BY DEF Reload, CommitReload
<1>2. /\ revision \in Nat /\ GoodArbiter(arbiter, revision)
      /\ Fair(arbiter, pending, accepted, revision)
  BY DEF RefusalInv, TypesInv, ContextTypes
<1>3. /\ GoodArbiter(arb, revision + 1)
      /\ \A key \in Published(arb) :
           \/ key \in Published(arbiter) /\ arb.contexts[key] = arbiter.contexts[key]
           \/ arb.contexts[key].revision = revision + 1
  BY <1>1, PreparesWell
<1>4. ASSUME NEW key \in Published(arb)
      PROVE  arb.contexts[key] \in PublishedContext /\ arb.contexts[key].revision <= rev
  BY <1>1, <1>2, <1>3, RevisionsAre DEF Fair
<1>5. DOMAIN history = Published(arb) /\ DOMAIN p = {}
  BY <1>1 DEF Published
<1>6. \A key \in Published(arb) : FairVersion(arb.contexts[key], key, p, history)
  BY <1>1, <1>5 DEF FairVersion, AcceptedAs
<1>7. Fair(arb, p, history, rev)
  BY <1>1, <1>4, <1>5, <1>6 DEF Fair, FairHistory
<1>8. Kept(arb, p, history, next)
  BY <1>1, <1>5 DEF Kept
<1> QED
  BY <1>1, <1>7, <1>8, RefusalIs

LEMMA NextRefuses ==
  ASSUME RuntimeInv, RefusalInv, Next
  PROVE  RefusalInv'
<1>1. TypesInv
  BY DEF RuntimeInv
<1>2. CASE BeginFrame \/ RenderNothing
  <2>1. UNCHANGED <<arbiter, pending, accepted, revision>>
    BY <1>2 DEF BeginFrame, RenderNothing, coordinator
  <2>2. (phase' \in {"start", "events"} /\ phase \notin {"events", "control"})
          \/ (phase = "render" /\ phase' = "tell")
    BY <1>2 DEF BeginFrame, RenderNothing
  <2> QED
    BY <2>1, <2>2, StandingStillRefuses
<1>3. CASE Environment
  <2>1. UNCHANGED coordinator /\ UNCHANGED accepted /\ phase' = phase
    BY <1>3 DEF Environment, ProcessStarts, SpawnFails, BecomesReady, Says, ContextsRemoved,
                Reconfigured
  <2>2. UNCHANGED <<arbiter, pending, accepted, revision>>
    BY <2>1 DEF coordinator
  <2> QED
    BY <2>1, <2>2, StandingStillRefuses
<1>4. CASE Close \/ EndKeyboardSession
  <2>1. PICK keys : Clears(keys)
    BY <1>4 DEF Close, EndKeyboardSession
  <2> QED
    BY <1>1, <2>1, ClearsRefuses
<1>5. ASSUME NEW new \in Configurations, Reload(new)
      PROVE  RefusalInv'
  BY <1>1, <1>5, ReloadRefuses
<1>6. CASE RenderRejected
  BY <1>1, <1>6, RenderRejectedRefuses
<1>7. CASE HoldActivation \/ BeginRender
             \/ \E i \in Instances : ActivateCommand(i) \/ ActivateOpenRefused(i)
  BY <1>1, <1>7, FrameRefuses
<1>8. CASE Consume \/ RenderAccepted \/ Tell \/ Tick \/ \E slot \in Slots : DismissCommand(slot)
  <2>1. CASE Consume
    BY <2>1, ConsumeRefuses
  <2>2. CASE RenderAccepted
    BY <1>1, <2>2, RenderAcceptedRefuses
  <2>3. CASE Tell
    BY <1>1, <2>3, TellRefuses
  <2>4. CASE Tick
    BY <1>1, <2>4, TickRefuses
  <2>5. ASSUME NEW slot \in Slots, DismissCommand(slot)
        PROVE  RefusalInv'
    BY <1>1, <2>5, DismissCommandRefuses
  <2> QED
    BY <1>8, <2>1, <2>2, <2>3, <2>4, <2>5
<1> QED
  BY <1>2, <1>3, <1>4, <1>5, <1>6, <1>7, <1>8 DEF Next, Application

LEMMA RefusalStarts ==
  ASSUME Init
  PROVE  RefusalInv
<1>1. DOMAIN << >> = {}
  OBVIOUS
<1>2. Published(arbiter) = {} /\ DOMAIN pending = {} /\ DOMAIN accepted = {} /\ phase = "start"
  BY <1>1 DEF Init, EmptyArbiter, Published
<1> QED
  BY <1>2 DEF RefusalInv, Fair, Kept

\* A version of a context that is refused at its first render gives way to the version that was
\* rendered last, or to nothing when there is none, it has expired or it was withdrawn; one that
\* was rendered in a slot and is refused in the other is dismissed: for any publications,
\* configurations, reloads, processes and revisions, after any number of updates, dismissals and
\* refusals of any contexts.
THEOREM RejectionsStayFair == Spec => RejectionsAreFair
<1>1. Init => RefusalInv
  BY RefusalStarts
<1>2. RuntimeInv /\ RefusalInv /\ [Next]_vars => RefusalInv'
  <2> SUFFICES ASSUME RuntimeInv, RefusalInv, [Next]_vars PROVE RefusalInv'
    OBVIOUS
  <2>1. CASE UNCHANGED vars
    <3>1. UNCHANGED <<arbiter, pending, accepted, revision>> /\ phase' = phase
      BY <2>1 DEF vars, coordinator
    <3> QED
      BY <3>1, StandingStillRefuses
  <2> QED
    BY <2>1, NextRefuses
<1>3. RuntimeInv /\ RefusalInv /\ [Next]_vars =>
        [RenderRejected =>
           LET refused == Refused(Selected)
               key == refused.key
           IN  IF key \in DOMAIN accepted /\ accepted[key].revision # refused.revision
                    /\ accepted[key].left # 0
               THEN /\ key \in Published(arbiter')
                    /\ arbiter'.contexts[key].revision = accepted[key].revision
               ELSE key \notin Published(arbiter')]_vars
  BY RenderRejectedRefuses DEF FairlyRefused, GivenBack, RuntimeInv
<1>4. Spec => []RefusalInv
  BY <1>1, <1>2, RuntimeIsInductive, PTL DEF Spec
<1> QED
  BY <1>3, <1>4, RuntimeIsInductive, PTL DEF Spec, RejectionsAreFair

================================================================================
