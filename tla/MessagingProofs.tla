-------------------------- MODULE MessagingProofs --------------------------
(***************************************************************************)
(* Proofs about the three components of messaging/ that serve others: that *)
(* those who follow the connection registry end up with its state          *)
(* (Registry), that the fan-out hub, the registry and the connection cap   *)
(* never disagree and every frame the hub matched is accounted for         *)
(* (Fanout), and that the query broker discards no reply unseen and its    *)
(* cache, which has no lock, knows what it weighs (QueryBroker).           *)
(*                                                                         *)
(* The three specifications have variables of their own and are proved     *)
(* side by side; what they share is the arithmetic of sums and sequences.  *)
(***************************************************************************)
EXTENDS Registry, Fanout, QueryBroker, FiniteSetTheorems, SequenceTheorems,
        NaturalsInduction, WellFoundedInduction, TLAPS

-----------------------------------------------------------------------------
(* The registry's followers.                                                 *)
(*                                                                           *)
(* The events still to be told are read from the end: the last one that says *)
(* anything of a connection (or of the topic) says what the registry has     *)
(* now, and where none says anything the listener has been told already.     *)
(* This holds of the monitor's backlog from the moment its listener is       *)
(* hooked, before its snapshot is read, and of the stats publisher's tasks.  *)

Topic == "topic"
Parts == Conns \cup {Topic}        \* what an event can be about
Notices  == Events \ {NoEvent}
Views == [ws : SUBSET Conns, subs : 0..MaxJoins]
Silent == << >>

(* What an event says of a part. *)
Says(e, k) ==
    IF e.kind = "conn" THEN (IF e.id = k THEN <<e.connected>> ELSE Silent)
    ELSE IF e.kind = "sub" /\ k = Topic THEN <<e.count>> ELSE Silent

(* What a listener with view v believes of it, and what the registry has. *)
Shown(v, k) == IF k = Topic THEN <<v.subs>> ELSE <<IF k \in v.ws THEN "yes" ELSE "no">>
Current(k)  == Shown(Snapshot, k)

(* No event of q is about k; the last one that is says x of it. *)
Mute(q, k) == \A i \in DOMAIN q : Says(q[i], k) = Silent
LastSays(q, k, x) ==
    \A i \in DOMAIN q :
        Says(q[i], k) # Silent /\ (\A j \in DOMAIN q : j > i => Says(q[j], k) = Silent)
            => Says(q[i], k) = x

(* What v will show of k once the event s has been applied to it. *)
After(s, v, k) == IF Says(s, k) = Silent THEN Shown(v, k) ELSE Says(s, k)

(* Applying s and then the events of q to v leads to the registry's state. *)
LeadsTo(q, s, v, k) ==
    /\ LastSays(q, k, Current(k))
    /\ Mute(q, k) => After(s, v, k) = Current(k)

Types ==
    /\ TypeOK
    /\ backlog \in Seq(Notices) /\ tasks \in Seq(Notices) /\ sending \in Events
    /\ xpub \in Seq({0, 1}) /\ tick \in Seq(0..MaxJoins)
    /\ view \in Views /\ told \in Views

(* The joins not read yet are joins the count may still grow by. *)
Ones(q) == {i \in DOMAIN q : q[i] = 1}
CountInv == zmqSubs + Cardinality(Ones(xpub)) <= joins /\ live <= joins

(* Nothing is emitted once the stats publisher no longer listens. *)
EndInv ==
    /\ stats # "on" => reader = "off"
    /\ reader = "off" => \A c \in Conns : conn[c] = "ended"
    /\ stats = "off" => tasks = << >>

StatsInv == \A k \in Parts : LeadsTo(tasks, NoEvent, told, k)

(* Has the monitor's snapshot been read, as far as k is concerned? *)
HasRead(k) == mon # "snapshot" /\ (k = Topic => mon # "topics")

MonitorInv ==
    /\ mon = "away" => backlog = << >> /\ trimmed = "no" /\ late = "no"
    /\ ~Serving => sending = NoEvent
    /\ mon # "away" /\ trimmed = "no" =>
        \A k \in Parts : (k = Topic => late = "no") =>
            /\ LastSays(backlog, k, Current(k))
            /\ HasRead(k) => LeadsTo(backlog, sending, view, k)

IInv == Types /\ CountInv /\ EndInv /\ StatsInv /\ MonitorInv

-----------------------------------------------------------------------------
(* The events of the listeners' queues. *)
LEMMA NoticeFacts ==
    /\ \A e \in Notices :
         \/ e.kind = "conn" /\ e.id \in Conns /\ e.connected \in {"no", "yes"}
         \/ e.kind = "sub" /\ e.count \in 0..MaxJoins
    /\ Notices \subseteq Events /\ Events = Notices \cup {NoEvent}
    /\ NoEvent.kind = "none"
    /\ \A c \in Conns, s \in {"no", "yes"} :
         [kind |-> "conn", id |-> c, connected |-> s] \in Notices
    /\ \A n \in 0..MaxJoins : [kind |-> "sub", count |-> n] \in Notices
<1>1. \A e \in [kind : {"conn"}, id : Conns, connected : {"no", "yes"}]
              \cup [kind : {"sub"}, count : 0..MaxJoins] : e # NoEvent
  <2>1. NoEvent.kind = "none"
    BY DEF NoEvent
  <2>2. \A e \in [kind : {"conn"}, id : Conns, connected : {"no", "yes"}]
              \cup [kind : {"sub"}, count : 0..MaxJoins] : e.kind \in {"conn", "sub"}
    OBVIOUS
  <2> QED  BY <2>1, <2>2
<1>2. Notices = [kind : {"conn"}, id : Conns, connected : {"no", "yes"}]
                \cup [kind : {"sub"}, count : 0..MaxJoins]
  BY <1>1 DEF Notices, Events
<1>3. NoEvent \in Events
  BY DEF Events
<1> QED  BY <1>2, <1>3 DEF Notices, NoEvent

(* What each of them says. *)
LEMMA SaysFacts ==
    /\ \A k \in Parts : Says(NoEvent, k) = Silent
    /\ \A c \in Conns, k \in Parts, s \in {"no", "yes"} :
         Says([kind |-> "conn", id |-> c, connected |-> s], k) = IF k = c THEN <<s>> ELSE Silent
    /\ \A n \in Nat, k \in Parts :
         Says([kind |-> "sub", count |-> n], k) = IF k = Topic THEN <<n>> ELSE Silent
    /\ \A x : <<x>> # Silent
<1>1. \A x : <<x>> # Silent
  BY DEF Silent
<1>2. \A k \in Parts : Says(NoEvent, k) = Silent
  BY DEF Says, NoEvent
<1> QED  BY <1>1, <1>2 DEF Says

(* A client that applies an event shows what the event says, and no other    *)
(* part of its picture changes.                                              *)
LEMMA ApplyFacts ==
    ASSUME NEW v \in Views, NEW e \in Notices
    PROVE  /\ Apply(v, e) \in Views
           /\ \A k \in Parts : Shown(Apply(v, e), k) = After(e, v, k)
<1>1. v = [ws |-> v.ws, subs |-> v.subs] /\ v.ws \in SUBSET Conns /\ v.subs \in 0..MaxJoins
  BY DEF Views
<1>n. <<e.connected>> # Silent /\ <<e.count>> # Silent
  BY SaysFacts
<1>2. CASE e.kind = "conn" /\ e.id \in Conns /\ e.connected \in {"no", "yes"}
  <2> DEFINE w == IF e.connected = "yes" THEN v.ws \cup {e.id} ELSE v.ws \ {e.id}
  <2>1. Apply(v, e) = [ws |-> w, subs |-> v.subs]
    BY <1>1, <1>2 DEF Apply
  <2>2. w \in SUBSET Conns
    BY <1>1, <1>2
  <2>3. Apply(v, e) \in Views
    BY <1>1, <2>1, <2>2 DEF Views
  <2>4. Apply(v, e).ws = w /\ Apply(v, e).subs = v.subs
    BY <2>1
  <2>5. ASSUME NEW k \in Parts PROVE Shown(Apply(v, e), k) = After(e, v, k)
    <3>1. CASE k = Topic
      <4>1. Says(e, k) = Silent
        BY <3>1, <1>2, RegistryAssumption DEF Says, Topic
      <4> QED  BY <3>1, <4>1, <2>4 DEF Shown, After
    <3>2. CASE k # Topic
      <4>1. Says(e, k) = IF e.id = k THEN <<e.connected>> ELSE Silent
        BY <1>2 DEF Says
      <4> HIDE DEF w
      <4>2. Shown(Apply(v, e), k) = <<IF k \in w THEN "yes" ELSE "no">>
        BY <3>2, <2>4 DEF Shown
      <4>3. k = e.id => (IF k \in w THEN "yes" ELSE "no") = e.connected
        BY <1>2 DEF w
      <4>4. k # e.id => (k \in w <=> k \in v.ws)
        BY DEF w
      <4> QED  BY <4>1, <4>2, <4>3, <4>4, <3>2, <1>n DEF Shown, After
    <3> QED  BY <3>1, <3>2
  <2> QED  BY <2>3, <2>5
<1>3. CASE e.kind = "sub" /\ e.count \in 0..MaxJoins
  <2>1. Apply(v, e) = [ws |-> v.ws, subs |-> e.count]
    BY <1>1, <1>3 DEF Apply
  <2>2. Apply(v, e) \in Views
    BY <1>1, <1>3, <2>1 DEF Views
  <2>3. ASSUME NEW k \in Parts PROVE Shown(Apply(v, e), k) = After(e, v, k)
    <3>1. Says(e, k) = IF k = Topic THEN <<e.count>> ELSE Silent
      BY <1>3 DEF Says
    <3>2. Apply(v, e).ws = v.ws /\ Apply(v, e).subs = e.count
      BY <2>1
    <3> QED  BY <3>1, <3>2, <1>n DEF Shown, After
  <2> QED  BY <2>2, <2>3
<1> QED  BY <1>2, <1>3, NoticeFacts

(* An event that joins a queue has the last word on what it is about. *)
LEMMA AppendSays ==
    ASSUME NEW q \in Seq(Notices), NEW e \in Notices, NEW k \in Parts
    PROVE  /\ Append(q, e) \in Seq(Notices)
           /\ Says(e, k) # Silent =>
                ~Mute(Append(q, e), k) /\ LastSays(Append(q, e), k, Says(e, k))
           /\ Says(e, k) = Silent =>
                /\ Mute(Append(q, e), k) <=> Mute(q, k)
                /\ \A x : LastSays(q, k, x) => LastSays(Append(q, e), k, x)
<1> DEFINE p == Append(q, e)
<1>1. Len(q) \in Nat /\ DOMAIN q = 1..Len(q) /\ p \in Seq(Notices)
  OBVIOUS
<1>2. /\ DOMAIN p = 1..(Len(q) + 1) /\ p[Len(q) + 1] = e
      /\ \A i \in 1..Len(q) : p[i] = q[i]
  OBVIOUS
<1> HIDE DEF p
<1>3. Says(e, k) # Silent => ~Mute(p, k) /\ LastSays(p, k, Says(e, k))
  BY <1>1, <1>2 DEF Mute, LastSays
<1>4. Says(e, k) = Silent => (Mute(p, k) <=> Mute(q, k))
  BY <1>1, <1>2 DEF Mute
<1>5. Says(e, k) = Silent => \A x : LastSays(q, k, x) => LastSays(p, k, x)
  BY <1>1, <1>2 DEF LastSays
<1> QED  BY <1>1, <1>3, <1>4, <1>5 DEF p

(* The oldest event can be taken from a queue. *)
LEMMA TailSays ==
    ASSUME NEW q \in Seq(Notices), q # << >>, NEW k \in Parts, NEW x, LastSays(q, k, x)
    PROVE  /\ Head(q) \in Notices /\ Tail(q) \in Seq(Notices)
           /\ LastSays(Tail(q), k, x)
           /\ Mute(Tail(q), k) => IF Says(Head(q), k) = Silent THEN Mute(q, k)
                                  ELSE Says(Head(q), k) = x
<1> DEFINE p == Tail(q)
           h == Head(q)
<1>1. /\ Len(q) \in Nat /\ Len(q) > 0 /\ DOMAIN q = 1..Len(q)
      /\ p \in Seq(Notices) /\ h = q[1] /\ h \in Notices
  OBVIOUS
<1>2. DOMAIN p = 1..(Len(q) - 1) /\ \A i \in 1..(Len(q) - 1) : p[i] = q[i + 1]
  BY <1>1
<1> HIDE DEF p, h
<1>3. \A i \in DOMAIN q : i = 1 \/ (i - 1 \in DOMAIN p /\ q[i] = p[i - 1])
  BY <1>1, <1>2
<1>4. LastSays(p, k, x)
  <2> SUFFICES ASSUME NEW i \in DOMAIN p, Says(p[i], k) # Silent,
                      \A j \in DOMAIN p : j > i => Says(p[j], k) = Silent
               PROVE  Says(p[i], k) = x
    BY DEF LastSays
  <2>1. i + 1 \in DOMAIN q /\ q[i + 1] = p[i]
    BY <1>1, <1>2
  <2>2. \A j \in DOMAIN q : j > i + 1 => Says(q[j], k) = Silent
    BY <1>1, <1>2, <1>3
  <2> QED  BY <2>1, <2>2 DEF LastSays
<1>5. ASSUME Mute(p, k), Says(h, k) = Silent PROVE Mute(q, k)
  BY <1>5, <1>1, <1>3 DEF Mute
<1>6. ASSUME Mute(p, k), Says(h, k) # Silent PROVE Says(h, k) = x
  <2>1. \A j \in DOMAIN q : j > 1 => Says(q[j], k) = Silent
    BY <1>6, <1>1, <1>3 DEF Mute
  <2> QED  BY <2>1, <1>6, <1>1 DEF LastSays
<1> QED  BY <1>1, <1>4, <1>5, <1>6 DEF p, h

(* An empty queue says nothing. *)
LEMMA EmptySays ==
    ASSUME NEW k
    PROVE  Mute(<< >>, k) /\ \A x : LastSays(<< >>, k, x)
BY DEF Mute, LastSays

(* The joins in a queue of subscription events, as it grows and is read. *)
LEMMA OnesFacts ==
    ASSUME NEW q \in Seq({0, 1})
    PROVE  /\ IsFiniteSet(Ones(q)) /\ Cardinality(Ones(q)) \in Nat
           /\ Append(q, 1) \in Seq({0, 1})
           /\ Cardinality(Ones(Append(q, 1))) = Cardinality(Ones(q)) + 1
           /\ Append(q, 0) \in Seq({0, 1})
           /\ Ones(Append(q, 0)) = Ones(q)
<1>1. Len(q) \in Nat /\ DOMAIN q = 1..Len(q)
  OBVIOUS
<1>2. IsFiniteSet(1..Len(q)) /\ Ones(q) \in SUBSET (1..Len(q))
  BY <1>1, FS_Interval DEF Ones
<1>3. IsFiniteSet(Ones(q)) /\ Cardinality(Ones(q)) \in Nat
  BY <1>2, FS_Subset, FS_CardinalityType
<1>4. Ones(Append(q, 1)) = Ones(q) \cup {Len(q) + 1} /\ Len(q) + 1 \notin Ones(q)
  BY <1>1 DEF Ones
<1>5. Ones(Append(q, 0)) = Ones(q)
  BY <1>1 DEF Ones
<1>6. Cardinality(Ones(Append(q, 1))) = Cardinality(Ones(q)) + 1
  BY <1>3, <1>4, FS_AddElement
<1> QED  BY <1>3, <1>5, <1>6

(* A subscription event is read: a join among them is one less to come. *)
LEMMA OnesTail ==
    ASSUME NEW q \in Seq({0, 1}), q # << >>
    PROVE  /\ Tail(q) \in Seq({0, 1}) /\ Head(q) \in {0, 1}
           /\ Cardinality(Ones(Tail(q))) = Cardinality(Ones(q)) - Head(q)
<1> DEFINE p == Tail(q)
           R == Ones(q) \ {1}
           f == [i \in R |-> i - 1]
<1>1. /\ Len(q) \in Nat /\ Len(q) > 0 /\ DOMAIN q = 1..Len(q)
      /\ p \in Seq({0, 1}) /\ Head(q) = q[1] /\ Head(q) \in {0, 1}
  OBVIOUS
<1>2. DOMAIN p = 1..(Len(q) - 1) /\ \A i \in 1..(Len(q) - 1) : p[i] = q[i + 1]
  BY <1>1
<1> HIDE DEF p
<1>3. \A i \in R : i \in Nat /\ i > 1 /\ i - 1 \in Ones(p)
  BY <1>1, <1>2 DEF Ones
<1>4. \A j \in Ones(p) : j \in Nat /\ j + 1 \in R
  BY <1>1, <1>2 DEF Ones
<1> HIDE DEF R
<1>5. f \in Injection(R, Ones(p))
  BY <1>3 DEF Injection, IsInjective
<1>6. f \in Surjection(R, Ones(p))
  <2>1. ASSUME NEW j \in Ones(p) PROVE \E i \in R : f[i] = j
    <3>1. j + 1 \in R /\ j \in Nat
      BY <1>4
    <3>2. f[j + 1] = (j + 1) - 1
      BY <3>1
    <3> QED  BY <3>1, <3>2
  <2> QED  BY <1>3, <2>1 DEF Surjection
<1>7. ExistsBijection(R, Ones(p))
  BY <1>5, <1>6 DEF ExistsBijection, Bijection
<1>8. IsFiniteSet(Ones(q)) /\ Cardinality(Ones(q)) \in Nat
  BY OnesFacts
<1>9. /\ IsFiniteSet(R)
      /\ Cardinality(R) = IF 1 \in Ones(q) THEN Cardinality(Ones(q)) - 1 ELSE Cardinality(Ones(q))
  BY <1>8, FS_RemoveElement DEF R
<1>10. Cardinality(Ones(p)) = Cardinality(R)
  BY <1>7, <1>9, FS_Bijection
<1>11. 1 \in Ones(q) <=> Head(q) = 1
  BY <1>1 DEF Ones
<1> QED  BY <1>1, <1>8, <1>9, <1>10, <1>11 DEF p

-----------------------------------------------------------------------------
(* The registry changes and emits the event that says so: a queue that led   *)
(* to the old state leads, with the event, to the new one.                   *)
LEMMA AppendLeads ==
    ASSUME NEW q \in Seq(Notices), NEW e \in Notices, NEW k \in Parts, NEW s, NEW v,
           Current(k)' = IF Says(e, k) = Silent THEN Current(k) ELSE Says(e, k)
    PROVE  /\ LastSays(q, k, Current(k)) => LastSays(Append(q, e), k, Current(k)')
           /\ LeadsTo(q, s, v, k) =>
                /\ LastSays(Append(q, e), k, Current(k)')
                /\ Mute(Append(q, e), k) => After(s, v, k) = Current(k)'
<1> DEFINE c == Current(k)
           d == Current(k)'
           p == Append(q, e)
<1>1. d = IF Says(e, k) = Silent THEN c ELSE Says(e, k)
  OBVIOUS
<1>2. /\ Says(e, k) # Silent => ~Mute(p, k) /\ LastSays(p, k, Says(e, k))
      /\ Says(e, k) = Silent =>
           (Mute(p, k) <=> Mute(q, k)) /\ (LastSays(q, k, c) => LastSays(p, k, c))
  BY AppendSays
<1>3. LeadsTo(q, s, v, k) => LastSays(q, k, c) /\ (Mute(q, k) => After(s, v, k) = c)
  BY DEF LeadsTo
<1> HIDE DEF c, d, p
<1> QED  BY <1>1, <1>2, <1>3 DEF c, d, p

(* The oldest event is applied: the others lead there still. *)
LEMMA TailLeads ==
    ASSUME NEW q \in Seq(Notices), q # << >>, NEW k \in Parts, NEW v \in Views,
           LeadsTo(q, NoEvent, v, k)
    PROVE  LeadsTo(Tail(q), Head(q), v, k)
<1> DEFINE c == Current(k)
<1>1. LastSays(q, k, c) /\ (Mute(q, k) => After(NoEvent, v, k) = c)
  BY DEF LeadsTo
<1>2. After(NoEvent, v, k) = Shown(v, k)
  BY SaysFacts DEF After
<1> HIDE DEF c
<1>3. /\ LastSays(Tail(q), k, c)
      /\ Mute(Tail(q), k) => IF Says(Head(q), k) = Silent THEN Mute(q, k)
                             ELSE Says(Head(q), k) = c
  BY <1>1, TailSays
<1>4. Mute(Tail(q), k) => After(Head(q), v, k) = c
  BY <1>1, <1>2, <1>3 DEF After
<1> QED  BY <1>3, <1>4 DEF LeadsTo, c

(* Told the event it was due first, the listener is due the others. *)
LEMMA ApplyLeads ==
    ASSUME NEW q, NEW k \in Parts, NEW v \in Views, NEW e \in Notices,
           LeadsTo(q, e, v, k)
    PROVE  LeadsTo(q, NoEvent, Apply(v, e), k)
<1>1. After(NoEvent, Apply(v, e), k) = After(e, v, k)
  BY ApplyFacts, SaysFacts DEF After
<1> QED  BY <1>1 DEF LeadsTo

-----------------------------------------------------------------------------
(* At first there is nothing to tell. *)
LEMMA InitHolds == Init => IInv
<1> SUFFICES ASSUME Init PROVE IInv
  OBVIOUS
<1> USE RegistryAssumption
<1>e. \A S : << >> \in Seq(S)
  OBVIOUS
<1>n. NoEvent \in Events
  BY NoticeFacts
<1>0. TypeOK
  BY <1>n DEF Init, TypeOK
<1>1. Types
  <2>1. told \in Views /\ view \in Views
    BY DEF Init, Views
  <2> QED  BY <1>0, <1>e, <1>n, <2>1 DEF Init, Types
<1>2. CountInv
  <2>1. Ones(xpub) = {}
    BY DEF Init, Ones
  <2>2. Cardinality(Ones(xpub)) = 0
    BY <2>1, FS_EmptySet
  <2> QED  BY <2>2 DEF Init, CountInv
<1>3. EndInv
  BY DEF Init, EndInv
<1>4. StatsInv
  <2> SUFFICES ASSUME NEW k \in Parts PROVE LeadsTo(tasks, NoEvent, told, k)
    BY DEF StatsInv
  <2>1. told = Snapshot /\ tasks = << >>
    BY DEF Init, Snapshot
  <2>2. After(NoEvent, told, k) = Current(k)
    BY <2>1, SaysFacts DEF After, Current
  <2> QED  BY <2>1, <2>2, EmptySays DEF LeadsTo
<1>5. MonitorInv
  BY DEF Init, MonitorInv
<1> QED  BY <1>1, <1>2, <1>3, <1>4, <1>5 DEF IInv

-----------------------------------------------------------------------------
(* After a step the count is still one the joins allow, and every event that *)
(* is emitted while the stats publisher listens reaches its tasks.           *)
LEMMA CountStep ==
    ASSUME IInv, Next \/ UNCHANGED vars
    PROVE  /\ CountInv'
           /\ live' \in 0..MaxJoins /\ joins' \in 0..MaxJoins /\ zmqSubs' \in 0..MaxJoins
           /\ xpub' \in Seq({0, 1})
<1> USE RegistryAssumption
<1>i. Types /\ CountInv
  BY DEF IInv
<1>t. /\ live \in Nat /\ joins \in Nat /\ zmqSubs \in Nat /\ joins <= MaxJoins /\ MaxJoins \in Nat
      /\ xpub \in Seq({0, 1})
  BY <1>i DEF Types, TypeOK
<1>o. /\ Cardinality(Ones(xpub)) \in Nat
      /\ Append(xpub, 1) \in Seq({0, 1}) /\ Append(xpub, 0) \in Seq({0, 1})
      /\ Cardinality(Ones(Append(xpub, 1))) = Cardinality(Ones(xpub)) + 1
      /\ Ones(Append(xpub, 0)) = Ones(xpub)
  BY <1>t, OnesFacts
<1>c. zmqSubs + Cardinality(Ones(xpub)) <= joins /\ live <= joins
  BY <1>i DEF CountInv
<1>1. CASE Join
  <2>1. /\ joins' = joins + 1 /\ joins < MaxJoins /\ live' = live + 1
        /\ xpub' = Append(xpub, 1) /\ zmqSubs' = zmqSubs
    BY <1>1 DEF Join
  <2>2. Cardinality(Ones(xpub')) = Cardinality(Ones(xpub)) + 1 /\ xpub' \in Seq({0, 1})
    BY <2>1, <1>o
  <2>3. zmqSubs' + Cardinality(Ones(xpub')) <= joins' /\ live' <= joins'
    BY <2>1, <2>2, <1>o, <1>c, <1>t
  <2>4. CountInv'
    BY <2>3 DEF CountInv
  <2> QED  BY <2>1, <2>2, <2>4, <1>t, <1>c, <1>o
<1>2. CASE Leave
  <2>1. /\ joins' = joins /\ live' = live - 1 /\ live > 0
        /\ xpub' = Append(xpub, 0) /\ zmqSubs' = zmqSubs
    BY <1>2 DEF Leave
  <2>2. Cardinality(Ones(xpub')) = Cardinality(Ones(xpub)) /\ xpub' \in Seq({0, 1})
    BY <2>1, <1>o
  <2>3. zmqSubs' + Cardinality(Ones(xpub')) <= joins' /\ live' <= joins'
    BY <2>1, <2>2, <1>o, <1>c, <1>t
  <2>4. CountInv'
    BY <2>3 DEF CountInv
  <2> QED  BY <2>1, <2>2, <2>4, <1>t, <1>c, <1>o
<1>3. CASE ReadSubscription
  <2>1. /\ joins' = joins /\ live' = live /\ xpub # << >>
        /\ xpub' = Tail(xpub) /\ zmqSubs' = Counted(Head(xpub))
    BY <1>3 DEF ReadSubscription
  <2>2. /\ Tail(xpub) \in Seq({0, 1}) /\ Head(xpub) \in {0, 1}
        /\ Cardinality(Ones(Tail(xpub))) = Cardinality(Ones(xpub)) - Head(xpub)
    BY <2>1, <1>t, OnesTail
  <2>3. zmqSubs' \in Nat /\ zmqSubs' <= zmqSubs + Head(xpub)
    BY <2>1, <2>2, <1>t DEF Counted
  <2>x. xpub' \in Seq({0, 1}) /\ Cardinality(Ones(xpub')) = Cardinality(Ones(xpub)) - Head(xpub)
    BY <2>1, <2>2
  <2>n. Cardinality(Ones(xpub')) \in Nat
    BY <2>x, OnesFacts
  <2>4. zmqSubs' + Cardinality(Ones(xpub')) <= joins' /\ live' <= joins'
    BY <2>1, <2>2, <2>3, <2>x, <1>o, <1>c, <1>t
  <2>5. zmqSubs' <= joins
    BY <2>1, <2>3, <2>4, <2>n, <1>t
  <2>6. CountInv'
    BY <2>4 DEF CountInv
  <2> QED  BY <2>1, <2>3, <2>5, <2>6, <2>x, <1>t, <1>c, <1>o
<1>4. CASE UNCHANGED <<live, joins, xpub, zmqSubs>>
  BY <1>4, <1>t, <1>c, <1>o DEF CountInv
<1> QED
  BY <1>1, <1>2, <1>3, <1>4
     DEF Next, Monitor, vars, zmqVars, MonitorConnect, MonitorSnapshot, MonitorReady,
         MonitorTake, MonitorSent, TickRead, TickQueued, MonitorEnd, StatsSent, ReaderStop,
         StatsStop, StatsClose, RegisterWs, UnregisterWs

(* Once the reader is stopped no connection can start or end. *)
LEMMA EndStep ==
    ASSUME IInv, Next \/ UNCHANGED vars
    PROVE  EndInv'
<1>i. Types /\ EndInv
  BY DEF IInv
<1>t. conn \in [Conns -> {"away", "open", "ended"}] /\ stats \in {"on", "draining", "off"}
      /\ reader \in {"on", "off"}
  BY <1>i DEF Types, TypeOK
<1>1. ASSUME NEW c \in Conns, RegisterWs(c) \/ UnregisterWs(c) PROVE EndInv'
  <2>1. conn[c] # "ended" /\ UNCHANGED <<reader, stats>>
    BY <1>1 DEF RegisterWs, UnregisterWs, zmqVars
  <2>2. reader # "off" /\ stats = "on"
    BY <2>1, <1>i DEF EndInv
  <2> QED  BY <2>1, <2>2 DEF EndInv
<1>2. CASE ReadSubscription
  <2>1. reader = "on" /\ UNCHANGED <<reader, stats, conn>>
    BY <1>2 DEF ReadSubscription
  <2> QED  BY <2>1, <1>i DEF EndInv
<1>3. CASE StatsSent
  <2>1. UNCHANGED <<conn, reader, stats>> /\ tasks # << >>
    BY <1>3 DEF StatsSent, zmqVars
  <2> QED  BY <2>1, <1>i DEF EndInv
<1>4. CASE ReaderStop
  <2>1. conn' = [c \in Conns |-> "ended"] /\ reader' = "off" /\ UNCHANGED <<stats, tasks>>
    BY <1>4 DEF ReaderStop, statsVars
  <2> QED  BY <2>1, <1>i DEF EndInv
<1>5. CASE StatsStop \/ StatsClose
  BY <1>5, <1>i DEF EndInv, StatsStop, StatsClose, Drained, zmqVars
<1>6. CASE UNCHANGED <<conn, reader, stats, tasks>>
  BY <1>6, <1>i DEF EndInv
<1> QED
  BY <1>1, <1>2, <1>3, <1>4, <1>5, <1>6
     DEF Next, Monitor, vars, zmqVars, statsVars, MonitorConnect, MonitorSnapshot,
         MonitorReady, MonitorTake, MonitorSent, TickRead, TickQueued, MonitorEnd, Join, Leave

-----------------------------------------------------------------------------
(* A step that emits an event keeps what both listeners are due. *)
LEMMA EmitStep ==
    ASSUME IInv, NEW e \in Notices, Emit(e), stats = "on",
           UNCHANGED <<mon, sending, view, trimmed, late, told>>,
           \A k \in Parts : Current(k)' = IF Says(e, k) = Silent THEN Current(k) ELSE Says(e, k)
    PROVE  StatsInv' /\ MonitorInv'
<1>i. Types /\ StatsInv /\ MonitorInv
  BY DEF IInv
<1>t. backlog \in Seq(Notices) /\ tasks \in Seq(Notices)
  BY <1>i DEF Types
<1>e. tasks' = Append(tasks, e) /\ backlog' = IF mon = "away" THEN backlog ELSE Append(backlog, e)
  BY DEF Emit, Listening
<1>1. StatsInv'
  <2> SUFFICES ASSUME NEW k \in Parts PROVE LeadsTo(tasks, NoEvent, told, k)'
    BY DEF StatsInv, Parts
  <2>1. LeadsTo(tasks, NoEvent, told, k)
    BY <1>i DEF StatsInv
  <2>2. /\ LastSays(Append(tasks, e), k, Current(k)')
        /\ Mute(Append(tasks, e), k) => After(NoEvent, told, k) = Current(k)'
    BY <2>1, <1>t, AppendLeads
  <2> QED  BY <2>2, <1>e DEF LeadsTo, Mute, LastSays, After, Says, Shown
<1>2. MonitorInv'
  <2>1. CASE mon = "away"
    BY <2>1, <1>i, <1>e DEF MonitorInv, Serving
  <2>2. CASE mon # "away"
    <3>b. backlog' = Append(backlog, e)
      BY <2>2, <1>e
    <3>1. ASSUME trimmed = "no", NEW k \in Parts, k = Topic => late = "no"
          PROVE  LastSays(backlog', k, Current(k)')
      <4>1. LastSays(backlog, k, Current(k))
        BY <3>1, <2>2, <1>i DEF MonitorInv
      <4> QED  BY <4>1, <3>b, <1>t, AppendLeads
    <3>2. ASSUME trimmed = "no", NEW k \in Parts, k = Topic => late = "no", HasRead(k)
          PROVE  Mute(backlog', k) => After(sending, view, k) = Current(k)'
      <4>1. LeadsTo(backlog, sending, view, k)
        BY <3>2, <2>2, <1>i DEF MonitorInv
      <4> QED  BY <4>1, <3>b, <1>t, AppendLeads
    <3>3. ASSUME trimmed = "no" PROVE
          \A k \in Parts : (k = Topic => late = "no") =>
            /\ LastSays(backlog, k, Current(k))'
            /\ HasRead(k)' => LeadsTo(backlog, sending, view, k)'
      <4> TAKE k \in Parts
      <4> HAVE k = Topic => late = "no"
      <4>1. LastSays(backlog, k, Current(k))'
        BY <3>1, <3>3 DEF LastSays
      <4>2. HasRead(k)' => HasRead(k)
        BY DEF HasRead
      <4>3. HasRead(k) => (Mute(backlog, k)' => After(sending, view, k)' = Current(k)')
        BY <3>2, <3>3 DEF Mute, After, Shown, Says
      <4> QED  BY <4>1, <4>2, <4>3 DEF LeadsTo
    <3> QED  BY <3>3, <2>2, <1>i DEF MonitorInv, Serving, Parts
  <2> QED  BY <2>1, <2>2
<1> QED  BY <1>1, <1>2

(* The steps that change the registry: the event they emit says how. *)
LEMMA SourceStep ==
    ASSUME IInv, zmqSubs' \in 0..MaxJoins,
           ReadSubscription \/ \E c \in Conns : RegisterWs(c) \/ UnregisterWs(c)
    PROVE  /\ StatsInv' /\ MonitorInv'
           /\ ws' \subseteq Conns
           /\ backlog' \in Seq(Notices) /\ tasks' \in Seq(Notices)
<1> USE RegistryAssumption
<1>i. Types /\ EndInv
  BY DEF IInv
<1>t. /\ backlog \in Seq(Notices) /\ tasks \in Seq(Notices)
      /\ stats \in {"on", "draining", "off"} /\ ws \subseteq Conns
  BY <1>i DEF Types, TypeOK
<1>s. \A k : Current(k) = IF k = Topic THEN <<zmqSubs>> ELSE <<IF k \in ws THEN "yes" ELSE "no">>
  BY DEF Current, Shown, Snapshot
<1>r. \A k : Current(k)' = IF k = Topic THEN <<zmqSubs'>> ELSE <<IF k \in ws' THEN "yes" ELSE "no">>
  BY DEF Current, Shown, Snapshot
<1>a. ASSUME NEW e \in Notices, Emit(e)
      PROVE  backlog' \in Seq(Notices) /\ tasks' \in Seq(Notices)
  BY <1>a, <1>t DEF Emit
<1>1. ASSUME NEW c \in Conns, NEW w \in {"no", "yes"},
             Emit([kind |-> "conn", id |-> c, connected |-> w]),
             conn[c] # "ended", UNCHANGED <<zmqSubs, mon, sending, view, trimmed, late, told>>,
             ws' = IF w = "yes" THEN ws \cup {c} ELSE ws \ {c}
      PROVE  /\ StatsInv' /\ MonitorInv' /\ ws' \subseteq Conns
             /\ backlog' \in Seq(Notices) /\ tasks' \in Seq(Notices)
  <2> DEFINE e == [kind |-> "conn", id |-> c, connected |-> w]
  <2>1. e \in Notices /\ Emit(e)
    BY <1>1, NoticeFacts
  <2>2. \A k \in Parts : Says(e, k) = IF k = c THEN <<w>> ELSE Silent
    BY SaysFacts
  <2>3. stats = "on"
    BY <1>1, <1>i, <1>t DEF EndInv
  <2>n. c # Topic /\ <<w>> # Silent
    BY SaysFacts DEF Topic
  <2> HIDE DEF e
  <2>4. ASSUME NEW k \in Parts
        PROVE  Current(k)' = IF Says(e, k) = Silent THEN Current(k) ELSE Says(e, k)
    <3>1. CASE k = c
      <4>1. (IF c \in ws' THEN "yes" ELSE "no") = w
        BY <1>1
      <4> QED  BY <3>1, <4>1, <2>2, <2>n, <1>r
    <3>2. CASE k # c
      <4>1. k \in ws' <=> k \in ws
        BY <3>2, <1>1
      <4> QED  BY <3>2, <4>1, <2>2, <1>1, <1>r, <1>s
    <3> QED  BY <3>1, <3>2
  <2>5. StatsInv' /\ MonitorInv'
    BY <2>1, <2>3, <2>4, <1>1, EmitStep
  <2>6. ws' \subseteq Conns
    BY <1>1, <1>t
  <2> QED  BY <2>1, <2>5, <2>6, <1>a
<1>2. ASSUME NEW c \in Conns, RegisterWs(c)
      PROVE  /\ StatsInv' /\ MonitorInv' /\ ws' \subseteq Conns
             /\ backlog' \in Seq(Notices) /\ tasks' \in Seq(Notices)
  <2>1. /\ Emit([kind |-> "conn", id |-> c, connected |-> "yes"])
        /\ conn[c] # "ended" /\ UNCHANGED <<zmqSubs, mon, sending, view, trimmed, late, told>>
        /\ ws' = ws \cup {c}
    BY <1>2 DEF RegisterWs, zmqVars, viewVars
  <2> QED  BY <2>1, <1>1
<1>3. ASSUME NEW c \in Conns, UnregisterWs(c)
      PROVE  /\ StatsInv' /\ MonitorInv' /\ ws' \subseteq Conns
             /\ backlog' \in Seq(Notices) /\ tasks' \in Seq(Notices)
  <2>1. /\ Emit([kind |-> "conn", id |-> c, connected |-> "no"])
        /\ conn[c] # "ended" /\ UNCHANGED <<zmqSubs, mon, sending, view, trimmed, late, told>>
        /\ ws' = ws \ {c}
    BY <1>3 DEF UnregisterWs, zmqVars, viewVars
  <2> QED  BY <2>1, <1>1
<1>4. CASE ReadSubscription
  <2> DEFINE e == [kind |-> "sub", count |-> zmqSubs']
  <2>1. /\ Emit(e) /\ reader = "on"
        /\ UNCHANGED <<ws, mon, sending, view, trimmed, late, told>>
    BY <1>4 DEF ReadSubscription, viewVars
  <2>2. e \in Notices
    BY NoticeFacts
  <2>3. \A k \in Parts : Says(e, k) = IF k = Topic THEN <<zmqSubs'>> ELSE Silent
    BY SaysFacts
  <2>4. stats = "on" /\ <<zmqSubs'>> # Silent
    BY <2>1, <1>i, <1>t, SaysFacts DEF EndInv
  <2> HIDE DEF e
  <2>5. \A k \in Parts : Current(k)' = IF Says(e, k) = Silent THEN Current(k) ELSE Says(e, k)
    BY <2>1, <2>3, <2>4, <1>r, <1>s
  <2>6. StatsInv' /\ MonitorInv'
    BY <2>1, <2>2, <2>4, <2>5, EmitStep
  <2> QED  BY <2>1, <2>2, <2>6, <1>a, <1>t
<1> QED  BY <1>2, <1>3, <1>4

(* The registry stands still: so does what its state is. *)
LEMMA SameCurrent ==
    ASSUME UNCHANGED <<ws, zmqSubs>>
    PROVE  \A k : Current(k)' = Current(k)
BY DEF Current, Shown, Snapshot

(* The stats publisher's tasks shrink only by telling their event. *)
LEMMA StatsStep ==
    ASSUME IInv, UNCHANGED <<ws, zmqSubs>>, StatsSent \/ UNCHANGED <<tasks, told>>
    PROVE  StatsInv' /\ told' \in Views /\ tasks' \in Seq(Notices)
<1>i. Types /\ EndInv /\ StatsInv
  BY DEF IInv
<1>t. tasks \in Seq(Notices) /\ told \in Views
  BY <1>i DEF Types
<1>c. \A k : Current(k)' = Current(k)
  BY SameCurrent
<1>1. CASE UNCHANGED <<tasks, told>>
  BY <1>1, <1>c, <1>t, <1>i DEF StatsInv, LeadsTo, Mute, LastSays, After, Says, Shown
<1>2. CASE StatsSent
  <2>1. tasks # << >> /\ tasks' = Tail(tasks) /\ told' = Apply(told, Head(tasks))
    BY <1>2, <1>i DEF StatsSent, EndInv
  <2>2. Head(tasks) \in Notices /\ Tail(tasks) \in Seq(Notices)
    BY <2>1, <1>t
  <2>3. told' \in Views
    BY <2>1, <2>2, <1>t, ApplyFacts
  <2>4. ASSUME NEW k \in Parts PROVE LeadsTo(tasks, NoEvent, told, k)'
    <3>1. LeadsTo(tasks, NoEvent, told, k)
      BY <1>i DEF StatsInv
    <3>2. LeadsTo(Tail(tasks), Head(tasks), told, k)
      BY <3>1, <2>1, <1>t, TailLeads
    <3>3. LeadsTo(Tail(tasks), NoEvent, Apply(told, Head(tasks)), k)
      BY <3>2, <2>2, <1>t, ApplyLeads
    <3>4. Current(k)' = Current(k)
      BY <1>c
    <3>5. /\ LastSays(tasks', k, Current(k)')
          /\ Mute(tasks', k) => After(NoEvent, told', k) = Current(k)'
      BY <3>3, <3>4, <2>1 DEF LeadsTo
    <3> QED  BY <3>5 DEF LeadsTo, LastSays, Mute, After, Says, Shown
  <2> QED  BY <2>1, <2>2, <2>3, <2>4 DEF StatsInv, Parts
<1> QED  BY <1>1, <1>2

-----------------------------------------------------------------------------
(* The monitor: its listener is hooked before its snapshot is read, and the  *)
(* events queued meanwhile, older than the snapshot or not, lead from it to  *)
(* the registry's state.                                                     *)
LEMMA MonitorStep ==
    ASSUME IInv, UNCHANGED <<ws, zmqSubs>>, Monitor \/ UNCHANGED monVars
    PROVE  /\ MonitorInv'
           /\ view' \in Views /\ backlog' \in Seq(Notices) /\ sending' \in Events
           /\ tick' \in Seq(0..MaxJoins)
<1> USE RegistryAssumption
<1>i. Types /\ MonitorInv
  BY DEF IInv
<1>t. /\ backlog \in Seq(Notices) /\ sending \in Events /\ view \in Views
      /\ tick \in Seq(0..MaxJoins) /\ ws \in SUBSET Conns /\ zmqSubs \in 0..MaxJoins
      /\ mon \in {"away", "read", "on", "snapshot", "topics", "shown", "dash"}
      /\ trimmed \in {"no", "yes"} /\ late \in {"no", "yes"}
  BY <1>i DEF Types, TypeOK
<1>v. view = [ws |-> view.ws, subs |-> view.subs] /\ view.ws \in SUBSET Conns /\ view.subs \in 0..MaxJoins
  BY <1>t DEF Views
<1>c. \A k : Current(k)' = Current(k)
  BY SameCurrent
<1>s. \A k : Current(k) = IF k = Topic THEN <<zmqSubs>> ELSE <<IF k \in ws THEN "yes" ELSE "no">>
  BY DEF Current, Shown, Snapshot
<1>n. \A k \in Parts : \A v : After(NoEvent, v, k) = Shown(v, k)
  BY SaysFacts DEF After
<1>d. ASSUME mon # "away", trimmed = "no", NEW k \in Parts, k = Topic => late = "no"
      PROVE  /\ LastSays(backlog, k, Current(k))
             /\ HasRead(k) => LeadsTo(backlog, sending, view, k)
  BY <1>d, <1>i DEF MonitorInv
<1>w. \A k \in Parts : LeadsTo(backlog, sending, view, k)' <=>
                         /\ LastSays(backlog', k, Current(k))
                         /\ Mute(backlog', k) => After(sending', view', k) = Current(k)
  BY <1>c DEF LeadsTo, LastSays, Mute, After, Says, Shown
(* It is enough to look at one part at a time. *)
<1>k. ASSUME mon' # "away", ~Serving' => sending' = NoEvent,
             ASSUME trimmed' = "no", NEW k \in Parts, k = Topic => late' = "no"
             PROVE  /\ LastSays(backlog', k, Current(k))
                    /\ HasRead(k)' /\ Mute(backlog', k) => After(sending', view', k) = Current(k)
      PROVE  MonitorInv'
  <2>1. ASSUME trimmed' = "no" PROVE
        \A k \in Parts : (k = Topic => late' = "no") =>
            /\ LastSays(backlog, k, Current(k))'
            /\ HasRead(k)' => LeadsTo(backlog, sending, view, k)'
    <3> TAKE k \in Parts
    <3> HAVE k = Topic => late' = "no"
    <3>1. /\ LastSays(backlog', k, Current(k))
          /\ HasRead(k)' /\ Mute(backlog', k) => After(sending', view', k) = Current(k)
      BY <1>k, <2>1
    <3>2. LastSays(backlog, k, Current(k))'
      BY <3>1, <1>c DEF LastSays
    <3> QED  BY <3>1, <3>2, <1>w
  <2> QED  BY <2>1, <1>k DEF MonitorInv, Parts
<1>1. CASE MonitorConnect
  <2>1. mon = "away" /\ UNCHANGED <<backlog, sending, tick, trimmed, late>>
        /\ ((mon' = "read" /\ view' = Snapshot) \/ (mon' = "snapshot" /\ view' = view))
    BY <1>1 DEF MonitorConnect
  <2>2. backlog = << >> /\ sending = NoEvent
    BY <2>1, <1>i DEF MonitorInv, Serving
  <2>3. view' \in Views
    BY <2>1, <1>t DEF Snapshot, Views
  <2>4. ASSUME NEW k \in Parts, HasRead(k)' PROVE After(sending', view', k) = Current(k)
    <3>1. view' = Snapshot
      BY <2>1, <2>4 DEF HasRead
    <3> QED  BY <3>1, <2>1, <2>2, <1>n DEF Current
  <2>5. \A k : LastSays(backlog', k, Current(k))
    BY <2>1, <2>2, EmptySays
  <2>6. mon' # "away" /\ sending' = NoEvent
    BY <2>1, <2>2
  <2>7. MonitorInv'
    BY <2>4, <2>5, <2>6, <1>k
  <2> QED  BY <2>1, <2>3, <2>7, <1>t
<1>2. CASE MonitorSnapshot
  <2>1. UNCHANGED <<backlog, sending, tick, trimmed, late>> /\ mon \in {"snapshot", "topics"}
        /\ mon' \in {"topics", "shown"}
    BY <1>2 DEF MonitorSnapshot
  <2>2. sending = NoEvent
    BY <2>1, <1>i DEF MonitorInv, Serving
  <2>3. \/ mon = "snapshot" /\ mon' = "topics" /\ view' = [ws |-> ws, subs |-> view.subs]
        \/ mon = "topics" /\ mon' = "shown" /\ view' = [ws |-> view.ws, subs |-> zmqSubs]
    <3>1. [view EXCEPT !.ws = ws] = [ws |-> ws, subs |-> view.subs]
      BY <1>v
    <3>2. [view EXCEPT !.subs = zmqSubs] = [ws |-> view.ws, subs |-> zmqSubs]
      BY <1>v
    <3> QED  BY <1>2, <3>1, <3>2 DEF MonitorSnapshot
  <2>4. view' \in Views
    BY <2>3, <1>t, <1>v DEF Views
  <2>5. ASSUME trimmed' = "no", NEW k \in Parts, k = Topic => late' = "no"
        PROVE  /\ LastSays(backlog', k, Current(k))
               /\ HasRead(k)' /\ Mute(backlog', k) => After(sending', view', k) = Current(k)
    <3>1. /\ LastSays(backlog, k, Current(k))
          /\ HasRead(k) => LeadsTo(backlog, sending, view, k)
      BY <2>1, <2>5, <1>d
    <3>2. After(sending', view', k) = Shown(view', k) /\ After(sending, view, k) = Shown(view, k)
      BY <2>1, <2>2, <1>n
    <3>3. CASE mon = "snapshot"
      <4>1. view'.ws = ws /\ mon' = "topics"
        BY <2>3, <3>3
      <4>2. HasRead(k)' => k # Topic
        BY <4>1 DEF HasRead
      <4>3. k # Topic => Shown(view', k) = Current(k)
        BY <4>1, <1>s DEF Shown
      <4> QED  BY <3>1, <3>2, <4>2, <4>3, <2>1
    <3>4. CASE mon = "topics"
      <4>1. view'.ws = view.ws /\ view'.subs = zmqSubs
        BY <2>3, <3>4
      <4>2. k = Topic => Shown(view', k) = Current(k)
        BY <4>1, <1>s DEF Shown
      <4>3. k # Topic => HasRead(k) /\ Shown(view', k) = Shown(view, k)
        BY <3>4, <4>1 DEF HasRead, Shown
      <4> QED  BY <3>1, <3>2, <4>2, <4>3, <2>1 DEF LeadsTo
    <3> QED  BY <2>1, <3>3, <3>4
  <2>6. mon' # "away" /\ sending' = NoEvent
    BY <2>1, <2>2
  <2>7. MonitorInv'
    BY <2>5, <2>6, <1>k
  <2> QED  BY <2>1, <2>4, <2>7, <1>t
<1>3. CASE MonitorReady \/ TickRead
  <2>1. /\ UNCHANGED <<backlog, sending, view, trimmed, late>>
        /\ mon \in {"read", "shown", "dash"} /\ mon' \in {"on", "dash"}
    BY <1>3 DEF MonitorReady, TickRead, viewVars
  <2>2. ASSUME trimmed' = "no", NEW k \in Parts, k = Topic => late' = "no"
        PROVE  /\ LastSays(backlog', k, Current(k))
               /\ HasRead(k)' /\ Mute(backlog', k) => After(sending', view', k) = Current(k)
    <3>1. HasRead(k)
      BY <2>1 DEF HasRead
    <3> QED  BY <3>1, <2>1, <2>2, <1>d DEF LeadsTo
  <2>3. mon' # "away" /\ Serving'
    BY <2>1 DEF Serving
  <2>4. MonitorInv'
    BY <2>2, <2>3, <1>k
  <2>5. tick' \in Seq(0..MaxJoins)
    <3>1. tick' = tick \/ tick' = <<zmqSubs>>
      BY <1>3 DEF MonitorReady, TickRead, viewVars
    <3>2. <<zmqSubs>> \in Seq(0..MaxJoins)
      BY <1>t
    <3> QED  BY <3>1, <3>2, <1>t
  <2> QED  BY <2>1, <2>4, <2>5, <1>t
(* The sender takes the oldest event, and unless it drops some... *)
<1>4. CASE MonitorTake
  <2>1. /\ mon \in {"on", "dash"} /\ sending = NoEvent /\ backlog # << >>
        /\ sending' = Head(backlog) /\ backlog' = Kept(Tail(backlog))
        /\ trimmed' = IF Len(Tail(backlog)) > MaxBacklog THEN "yes" ELSE trimmed
        /\ UNCHANGED <<mon, view, tick, late>>
    BY <1>4 DEF MonitorTake, Serving
  <2>2. Head(backlog) \in Notices /\ Tail(backlog) \in Seq(Notices)
    BY <2>1, <1>t
  <2>3. backlog' \in Seq(Notices)
    <3> DEFINE q == Tail(backlog)
    <3>1. q \in Seq(Notices) /\ backlog' = Kept(q)
      BY <2>1, <2>2
    <3> HIDE DEF q
    <3>2. Len(q) > MaxBacklog => SubSeq(q, Len(q) - MaxBacklog + 1, Len(q)) \in Seq(Notices)
      BY <3>1
    <3> QED  BY <3>1, <3>2 DEF Kept
  <2>4. ASSUME trimmed' = "no", NEW k \in Parts, k = Topic => late' = "no"
        PROVE  /\ LastSays(backlog', k, Current(k))
               /\ HasRead(k)' /\ Mute(backlog', k) => After(sending', view', k) = Current(k)
    <3>1. trimmed = "no" /\ ~(Len(Tail(backlog)) > MaxBacklog)
      BY <2>1, <2>4
    <3>2. backlog' = Tail(backlog)
      BY <2>1, <3>1 DEF Kept
    <3>3. HasRead(k)
      BY <2>1 DEF HasRead
    <3>4. LeadsTo(backlog, NoEvent, view, k)
      BY <2>1, <2>4, <3>1, <3>3, <1>d
    <3>5. LeadsTo(Tail(backlog), Head(backlog), view, k)
      BY <2>1, <3>4, <1>t, TailLeads
    <3> QED  BY <2>1, <3>2, <3>5 DEF LeadsTo
  <2>5. mon' # "away" /\ Serving'
    BY <2>1 DEF Serving
  <2>6. MonitorInv'
    BY <2>4, <2>5, <1>k
  <2> QED  BY <2>1, <2>2, <2>3, <2>6, <1>t, NoticeFacts
(* ...its client goes on from there. *)
<1>5. CASE MonitorSent
  <2>1. /\ mon \in {"on", "dash"} /\ sending # NoEvent /\ sending' = NoEvent
        /\ view' = Apply(view, sending)
        /\ UNCHANGED <<mon, backlog, tick, trimmed, late>>
    BY <1>5 DEF MonitorSent, Serving
  <2>2. sending \in Notices
    BY <2>1, <1>t, NoticeFacts
  <2>3. view' \in Views
    BY <2>1, <2>2, <1>t, ApplyFacts
  <2>4. ASSUME trimmed' = "no", NEW k \in Parts, k = Topic => late' = "no"
        PROVE  /\ LastSays(backlog', k, Current(k))
               /\ HasRead(k)' /\ Mute(backlog', k) => After(sending', view', k) = Current(k)
    <3>1. HasRead(k)
      BY <2>1 DEF HasRead
    <3>2. LeadsTo(backlog, sending, view, k)
      BY <2>1, <2>4, <3>1, <1>d
    <3>3. LeadsTo(backlog, NoEvent, Apply(view, sending), k)
      BY <2>2, <3>2, <1>t, ApplyLeads
    <3> QED  BY <2>1, <3>3 DEF LeadsTo
  <2>5. mon' # "away" /\ Serving'
    BY <2>1 DEF Serving
  <2>6. MonitorInv'
    BY <2>4, <2>5, <1>k
  <2> QED  BY <2>1, <2>3, <2>6, <1>t, NoticeFacts
(* A tick that is not late repeats what the registry has. *)
<1>6. CASE TickQueued
  <2> DEFINE e == [kind |-> "sub", count |-> tick[1]]
  <2>1. /\ mon = "dash" /\ tick # << >> /\ tick' = << >>
        /\ backlog' = Append(backlog, e)
        /\ late' = IF tick[1] # zmqSubs THEN "yes" ELSE late
        /\ UNCHANGED <<mon, sending, view, trimmed>>
    BY <1>6 DEF TickQueued
  <2>2. tick[1] \in 0..MaxJoins
    BY <2>1, <1>t
  <2>3. e \in Notices /\ \A k \in Parts : Says(e, k) = IF k = Topic THEN <<tick[1]>> ELSE Silent
    BY <2>2, NoticeFacts, SaysFacts
  <2> HIDE DEF e
  <2>4. backlog' \in Seq(Notices)
    BY <2>1, <2>3, <1>t
  <2>5. ASSUME trimmed' = "no", NEW k \in Parts, k = Topic => late' = "no"
        PROVE  /\ LastSays(backlog', k, Current(k))
               /\ HasRead(k)' /\ Mute(backlog', k) => After(sending', view', k) = Current(k)
    <3>1. k = Topic => late = "no" /\ tick[1] = zmqSubs
      BY <2>1, <2>5
    <3>2. HasRead(k)
      BY <2>1 DEF HasRead
    <3>3. LeadsTo(backlog, sending, view, k)
      BY <2>1, <2>5, <3>1, <3>2, <1>d
    <3>4. Current(k)' = IF Says(e, k) = Silent THEN Current(k) ELSE Says(e, k)
      BY <2>3, <3>1, <1>c, <1>s
    <3>5. /\ LastSays(Append(backlog, e), k, Current(k)')
          /\ Mute(Append(backlog, e), k) => After(sending, view, k) = Current(k)'
      BY <2>3, <3>3, <3>4, <1>t, AppendLeads
    <3> QED  BY <3>5, <2>1, <1>c
  <2>6. mon' # "away" /\ Serving'
    BY <2>1 DEF Serving
  <2>7. MonitorInv'
    BY <2>5, <2>6, <1>k
  <2>8. tick' \in Seq(0..MaxJoins)
    BY <2>1
  <2> QED  BY <2>1, <2>4, <2>7, <2>8, <1>t
<1>7. CASE MonitorEnd
  <2>1. /\ mon' = "away" /\ backlog' = << >> /\ sending' = NoEvent /\ tick' = << >>
        /\ trimmed' = "no" /\ late' = "no" /\ view' = view
    BY <1>7 DEF MonitorEnd
  <2> QED  BY <2>1, <1>t, NoticeFacts DEF MonitorInv
<1>8. CASE UNCHANGED monVars
  <2>1. UNCHANGED <<mon, backlog, sending, view, tick, trimmed, late>>
    BY <1>8 DEF monVars
  <2>2. CASE mon = "away"
    <3>1. mon' = "away" /\ backlog' = << >> /\ sending' = NoEvent /\ trimmed' = "no" /\ late' = "no"
      BY <2>1, <2>2, <1>i DEF MonitorInv, Serving
    <3> QED  BY <3>1, <2>1, <1>t DEF MonitorInv
  <2>3. CASE mon # "away"
    <3>1. ASSUME trimmed' = "no", NEW k \in Parts, k = Topic => late' = "no"
          PROVE  /\ LastSays(backlog', k, Current(k))
                 /\ HasRead(k)' /\ Mute(backlog', k) => After(sending', view', k) = Current(k)
      <4>1. HasRead(k)' => HasRead(k)
        BY <2>1 DEF HasRead
      <4> QED  BY <4>1, <3>1, <2>1, <2>3, <1>d DEF LeadsTo
    <3>2. mon' # "away" /\ (~Serving' => sending' = NoEvent)
      BY <2>1, <2>3, <1>i DEF MonitorInv, Serving
    <3>3. MonitorInv'
      BY <3>1, <3>2, <1>k
    <3> QED  BY <3>3, <2>1, <1>t
  <2> QED  BY <2>2, <2>3
<1> QED
  BY <1>1, <1>2, <1>3, <1>4, <1>5, <1>6, <1>7, <1>8 DEF Monitor

-----------------------------------------------------------------------------
(* The types of what the steps above do not cover. *)
LEMMA PlainTypes ==
    ASSUME IInv, Next \/ UNCHANGED vars
    PROVE  /\ conn' \in [Conns -> {"away", "open", "ended"}] /\ reader' \in {"on", "off"}
           /\ mon' \in {"away", "read", "on", "snapshot", "topics", "shown", "dash"}
           /\ monitors' \in 0..MaxMonitors /\ ticks' \in 0..MaxTicks
           /\ trimmed' \in {"no", "yes"} /\ late' \in {"no", "yes"}
           /\ stats' \in {"on", "draining", "off"}
<1> USE RegistryAssumption
<1>i. /\ conn \in [Conns -> {"away", "open", "ended"}] /\ reader \in {"on", "off"}
      /\ mon \in {"away", "read", "on", "snapshot", "topics", "shown", "dash"}
      /\ monitors \in 0..MaxMonitors /\ ticks \in 0..MaxTicks
      /\ trimmed \in {"no", "yes"} /\ late \in {"no", "yes"}
      /\ stats \in {"on", "draining", "off"}
  BY DEF IInv, Types, TypeOK
<1>1. ASSUME NEW c \in Conns, RegisterWs(c) \/ UnregisterWs(c)
      PROVE  /\ conn' \in [Conns -> {"away", "open", "ended"}]
             /\ UNCHANGED <<reader, mon, monitors, ticks, trimmed, late, stats>>
  BY <1>1, <1>i DEF RegisterWs, UnregisterWs, zmqVars, viewVars
<1>2. ASSUME Join \/ Leave \/ ReadSubscription \/ StatsSent \/ UNCHANGED vars
      PROVE  UNCHANGED <<conn, reader, mon, monitors, ticks, trimmed, late, stats>>
  BY <1>2 DEF Join, Leave, ReadSubscription, StatsSent, monVars, viewVars, statsVars, zmqVars, vars
<1>3. CASE ReaderStop \/ StatsStop \/ StatsClose
  <2>1. /\ conn' \in [Conns -> {"away", "open", "ended"}]
        /\ reader' \in {"on", "off"} /\ stats' \in {"on", "draining", "off"}
        /\ UNCHANGED <<mon, monitors, ticks, trimmed, late>>
    BY <1>3, <1>i DEF ReaderStop, StatsStop, StatsClose, monVars, statsVars, zmqVars
  <2> QED  BY <2>1, <1>i
<1>4. CASE Monitor
  <2>1. /\ UNCHANGED <<conn, reader, stats>>
        /\ mon' \in {"away", "read", "on", "snapshot", "topics", "shown", "dash"}
        /\ trimmed' \in {"no", "yes"} /\ late' \in {"no", "yes"}
    BY <1>4, <1>i DEF Monitor, MonitorConnect, MonitorSnapshot, MonitorReady, MonitorTake,
       MonitorSent, TickRead, TickQueued, MonitorEnd, zmqVars, statsVars, viewVars
  <2>2. \/ UNCHANGED <<monitors, ticks>>
        \/ monitors < MaxMonitors /\ monitors' = monitors + 1 /\ ticks' = ticks
        \/ ticks < MaxTicks /\ ticks' = ticks + 1 /\ monitors' = monitors
    BY <1>4 DEF Monitor, MonitorConnect, MonitorSnapshot, MonitorReady, MonitorTake,
       MonitorSent, TickRead, TickQueued, MonitorEnd, viewVars
  <2>3. monitors' \in 0..MaxMonitors /\ ticks' \in 0..MaxTicks
    BY <2>2, <1>i
  <2> QED  BY <2>1, <2>3, <1>i
<1> QED  BY <1>1, <1>2, <1>3, <1>4, <1>i DEF Next

(* Every step keeps the invariant. *)
LEMMA StepHolds ==
    ASSUME IInv, Next \/ UNCHANGED vars
    PROVE  IInv'
<1>1. /\ CountInv' /\ live' \in 0..MaxJoins /\ joins' \in 0..MaxJoins
      /\ zmqSubs' \in 0..MaxJoins /\ xpub' \in Seq({0, 1})
  BY CountStep
<1>2. EndInv'
  BY EndStep
<1>i. /\ ws \subseteq Conns /\ view \in Views /\ told \in Views /\ sending \in Events
      /\ tick \in Seq(0..MaxJoins)
  BY DEF IInv, Types, TypeOK
<1>3. /\ StatsInv' /\ MonitorInv'
      /\ ws' \subseteq Conns
      /\ backlog' \in Seq(Notices) /\ tasks' \in Seq(Notices)
      /\ view' \in Views /\ told' \in Views /\ sending' \in Events
      /\ tick' \in Seq(0..MaxJoins)
  <2>1. CASE ReadSubscription \/ \E c \in Conns : RegisterWs(c) \/ UnregisterWs(c)
    <3>1. UNCHANGED <<view, told, sending, tick>>
      BY <2>1 DEF ReadSubscription, RegisterWs, UnregisterWs, viewVars
    <3>2. /\ StatsInv' /\ MonitorInv' /\ ws' \subseteq Conns
          /\ backlog' \in Seq(Notices) /\ tasks' \in Seq(Notices)
      BY <2>1, <1>1, SourceStep
    <3> QED  BY <3>1, <3>2, <1>i
  <2>2. CASE ~(ReadSubscription \/ \E c \in Conns : RegisterWs(c) \/ UnregisterWs(c))
    <3>1. UNCHANGED <<ws, zmqSubs>>
      BY <2>2 DEF Next, Monitor, MonitorConnect, MonitorSnapshot, MonitorReady, MonitorTake,
         MonitorSent, TickRead, TickQueued, MonitorEnd, Join, Leave, StatsSent, ReaderStop,
         StatsStop, StatsClose, vars, zmqVars
    <3>2. StatsSent \/ UNCHANGED <<tasks, told>>
      BY <2>2 DEF Next, Monitor, MonitorConnect, MonitorSnapshot, MonitorReady, MonitorTake,
         MonitorSent, TickRead, TickQueued, MonitorEnd, Join, Leave, ReaderStop,
         StatsStop, StatsClose, vars, statsVars
    <3>3. Monitor \/ UNCHANGED monVars
      BY <2>2 DEF Next, Join, Leave, StatsSent, ReaderStop, StatsStop, StatsClose, vars
    <3>4. StatsInv' /\ told' \in Views /\ tasks' \in Seq(Notices)
      BY <3>1, <3>2, StatsStep
    <3>5. /\ MonitorInv' /\ view' \in Views /\ backlog' \in Seq(Notices)
          /\ sending' \in Events /\ tick' \in Seq(0..MaxJoins)
      BY <3>1, <3>3, MonitorStep
    <3> QED  BY <3>1, <3>4, <3>5, <1>i
  <2> QED  BY <2>1, <2>2
<1>4. TypeOK'
  <2>1. \A i \in DOMAIN backlog' : backlog'[i] \in Events
    BY <1>3, NoticeFacts
  <2>2. \A i \in DOMAIN tasks' : tasks'[i] \in Events
    BY <1>3, NoticeFacts
  <2>3. \A i \in DOMAIN xpub' : xpub'[i] \in {0, 1}
    BY <1>1
  <2>4. \A i \in DOMAIN tick' : tick'[i] \in 0..MaxJoins
    <3> DEFINE N == 0..MaxJoins
    <3>1. tick' \in Seq(N)
      BY <1>3
    <3> HIDE DEF N
    <3>2. \A i \in DOMAIN tick' : tick'[i] \in N
      BY <3>1
    <3> QED  BY <3>2 DEF N
  <2>5. /\ view'.ws \subseteq Conns /\ view'.subs \in 0..MaxJoins
        /\ told'.ws \subseteq Conns /\ told'.subs \in 0..MaxJoins
    BY <1>3 DEF Views
  <2>6. /\ conn' \in [Conns -> {"away", "open", "ended"}] /\ reader' \in {"on", "off"}
        /\ mon' \in {"away", "read", "on", "snapshot", "topics", "shown", "dash"}
        /\ monitors' \in 0..MaxMonitors /\ ticks' \in 0..MaxTicks
        /\ trimmed' \in {"no", "yes"} /\ late' \in {"no", "yes"}
        /\ stats' \in {"on", "draining", "off"}
    BY PlainTypes
  <2> QED  BY <2>1, <2>2, <2>3, <2>4, <2>5, <2>6, <1>1, <1>3 DEF TypeOK
<1>5. Types'
  BY <1>1, <1>3, <1>4 DEF Types, Notices, Views, Events, NoEvent
<1> QED  BY <1>1, <1>2, <1>3, <1>5 DEF IInv

-----------------------------------------------------------------------------
(* A view that shows the current state of every part is the registry's. *)
LEMMA ShownAll ==
    ASSUME NEW v \in Views, Types
    PROVE  /\ (\A c \in Conns : Shown(v, c) = Current(c)) => v.ws = ws
           /\ Shown(v, Topic) = Current(Topic) => v.subs = zmqSubs
<1> USE RegistryAssumption
<1>1. ws \subseteq Conns /\ v.ws \subseteq Conns
  BY DEF Types, TypeOK, Views
<1>2. ASSUME NEW c \in Conns, Shown(v, c) = Current(c) PROVE c \in v.ws <=> c \in ws
  <2>1. <<IF c \in v.ws THEN "yes" ELSE "no">> = <<IF c \in ws THEN "yes" ELSE "no">>
    BY <1>2 DEF Shown, Current, Snapshot, Topic
  <2> QED  BY <2>1
<1>3. ASSUME Shown(v, Topic) = Current(Topic) PROVE v.subs = zmqSubs
  <2>1. <<v.subs>> = <<zmqSubs>>
    BY <1>3 DEF Shown, Current, Snapshot
  <2> QED  BY <2>1
<1> QED  BY <1>1, <1>2, <1>3

(* However connections, subscriptions, the reading of the snapshot and the   *)
(* ticker interleave, a monitor's client that has been sent all its events   *)
(* sees the connections and the counts that the registry has, for every      *)
(* number of connections and every bound of the backlog.                     *)
THEOREM ViewsAlwaysConverge == Spec => []ViewConverges
<1>1. Init => IInv
  BY InitHolds
<1>2. IInv /\ [Next]_vars => IInv'
  BY StepHolds
<1>3. IInv => ViewConverges
  <2> SUFFICES ASSUME IInv, Serving, backlog = << >>, sending = NoEvent, trimmed = "no"
               PROVE  view.ws = ws /\ (late = "no" => view.subs = zmqSubs)
    BY DEF ViewConverges
  <2>1. Types /\ MonitorInv /\ view \in Views
    BY DEF IInv, Types
  <2>2. ASSUME NEW k \in Parts, k = Topic => late = "no" PROVE Shown(view, k) = Current(k)
    <3>1. mon # "away" /\ HasRead(k)
      BY DEF Serving, HasRead
    <3>2. LeadsTo(backlog, sending, view, k)
      BY <2>1, <2>2, <3>1 DEF MonitorInv
    <3>3. Mute(backlog, k)
      BY EmptySays
    <3>4. After(sending, view, k) = Shown(view, k)
      BY SaysFacts DEF After
    <3> QED  BY <3>2, <3>3, <3>4 DEF LeadsTo
  <2>3. \A c \in Conns : Shown(view, c) = Current(c)
    BY <2>2, RegistryAssumption DEF Parts, Topic
  <2>4. late = "no" => Shown(view, Topic) = Current(Topic)
    BY <2>2 DEF Parts
  <2> QED  BY <2>1, <2>3, <2>4, ShownAll
<1> QED  BY <1>1, <1>2, <1>3, PTL DEF Spec

(* Who follows the stats socket has the registry's state once the tasks of   *)
(* stats_publisher.py have run, through its stop as well.                    *)
THEOREM StatsAlwaysComplete == Spec => []StatsComplete
<1>1. Init => IInv
  BY InitHolds
<1>2. IInv /\ [Next]_vars => IInv'
  BY StepHolds
<1>3. IInv => StatsComplete
  <2> SUFFICES ASSUME IInv PROVE StatsComplete
    OBVIOUS
  <2>1. TypeOK /\ Types /\ StatsInv /\ told \in Views
    BY DEF IInv, Types
  <2>2. ASSUME tasks = << >> PROVE told = Snapshot
    <3>1. ASSUME NEW k \in Parts PROVE Shown(told, k) = Current(k)
      <4>1. LeadsTo(tasks, NoEvent, told, k) /\ Mute(tasks, k)
        BY <2>1, <2>2, EmptySays DEF StatsInv
      <4>2. After(NoEvent, told, k) = Shown(told, k)
        BY SaysFacts DEF After
      <4> QED  BY <4>1, <4>2 DEF LeadsTo
    <3>2. told.ws = ws /\ told.subs = zmqSubs
      BY <2>1, <3>1, ShownAll DEF Parts
    <3> QED  BY <2>1, <3>2 DEF Views, Snapshot
  <2> QED  BY <2>1, <2>2 DEF StatsComplete
<1> QED  BY <1>1, <1>2, <1>3, PTL DEF Spec

-----------------------------------------------------------------------------
(* Sums, by the least number for which what is claimed of them fails. *)

(* A set of naturals has a least element. *)
LEMMA LeastOf ==
    ASSUME NEW T \in SUBSET Nat, T # {}
    PROVE  \E x \in T : \A y \in T : x =< y
<1> DEFINE R == OpToRel(<, Nat)
<1>1. IsWellFoundedOn(R, Nat)
  BY NatLessThanWellFounded, Zenon
<1>2. PICK x \in T : \A y \in T : ~(<<y, x>> \in R)
  <2> HIDE DEF R
  <2> QED  BY <1>1, WFMin
<1>3. \A y \in T : <<y, x>> \in Nat \X Nat /\ ~(y < x)
  BY <1>2 DEF OpToRel
<1> HIDE DEF R
<1>4. \A y \in T : y \in Nat /\ x \in Nat /\ ~(y < x)
  BY <1>3
<1> QED  BY <1>4

(* The partial sums of f: a function given by what it is one before. *)
PartAt(f, s, i) == IF i = 0 THEN 0 ELSE s[i - 1] + f[i]

(* There are partial sums up to every n, by the least n without. *)
LEMMA PartsExist ==
    ASSUME NEW n \in Nat, NEW f
    PROVE  \E s : s = [i \in 0..n |-> PartAt(f, s, i)]
<1> DEFINE Bad == {m \in Nat : ~\E s : s = [i \in 0..m |-> PartAt(f, s, i)]}
<1> SUFFICES ASSUME n \in Bad PROVE FALSE
  OBVIOUS
<1>1. PICK m \in Bad : \A k \in Bad : m =< k
  BY LeastOf
<1>2. m # 0
  <2> SUFFICES ASSUME m = 0 PROVE FALSE
    OBVIOUS
  <2> DEFINE s == [i \in 0..0 |-> 0]
  <2>1. s = [i \in 0..0 |-> PartAt(f, s, i)]
    BY DEF PartAt
  <2> QED  BY <2>1
<1>3. m - 1 \in Nat /\ m - 1 \notin Bad
  BY <1>1, <1>2
<1>4. PICK g : g = [i \in 0..(m - 1) |-> PartAt(f, g, i)]
  BY <1>3
<1> DEFINE s == [i \in 0..m |-> IF i = m THEN PartAt(f, g, m) ELSE g[i]]
<1>5. ASSUME NEW i \in 0..m PROVE s[i] = PartAt(f, s, i)
  <2>1. CASE i = 0
    <3>1. s[i] = g[i] /\ i \in 0..(m - 1)
      BY <1>2, <1>3, <2>1
    <3>2. g[i] = PartAt(f, g, i)
      BY <1>4, <3>1
    <3> QED  BY <2>1, <3>1, <3>2 DEF PartAt
  <2>2. CASE i # 0
    <3>1. i - 1 \in 0..m /\ i - 1 # m /\ i - 1 \in 0..(m - 1)
      BY <1>3, <2>2
    <3>2. s[i - 1] = g[i - 1]
      BY <3>1
    <3>3. s[i] = PartAt(f, g, i)
      <4>1. i # m => i \in 0..(m - 1) /\ s[i] = g[i]
        BY <1>3
      <4>2. i # m => g[i] = PartAt(f, g, i)
        BY <1>4, <4>1
      <4> QED  BY <4>1, <4>2
    <3> QED  BY <2>2, <3>2, <3>3 DEF PartAt
  <2> QED  BY <2>1, <2>2
<1>6. s = [i \in 0..m |-> PartAt(f, s, i)]
  <2> DEFINE h == [i \in 0..m |-> PartAt(f, s, i)]
  <2>1. \A i \in 0..m : h[i] = s[i]
    BY <1>5
  <2> QED  BY <2>1
<1> QED  BY <1>1, <1>6

(* What SumTo picks is one of them. *)
LEMMA SumParts ==
    ASSUME NEW n \in Nat, NEW f
    PROVE  \E s : s = [i \in 0..n |-> PartAt(f, s, i)] /\ SumTo(f, n) = s[n]
<1> DEFINE s == CHOOSE g : g = [i \in 0..n |-> PartAt(f, g, i)]
<1>1. s = [i \in 0..n |-> PartAt(f, s, i)]
  <2>1. \E g : g = [i \in 0..n |-> PartAt(f, g, i)]
    BY PartsExist
  <2> QED  BY <2>1, Zenon
<1>2. SumTo(f, n) = s[n]
  BY Zenon DEF SumTo, PartAt
<1> HIDE DEF s
<1> QED  BY <1>1, <1>2

(* Partial sums up to n and up to m agree where both are. *)
LEMMA PartsAgree ==
    ASSUME NEW n \in Nat, NEW m \in Nat, NEW f, NEW s, NEW t, n =< m,
           s = [i \in 0..n |-> PartAt(f, s, i)], t = [i \in 0..m |-> PartAt(f, t, i)]
    PROVE  s[n] = t[n]
<1> DEFINE Bad == {i \in 0..n : s[i] # t[i]}
<1> SUFFICES ASSUME Bad # {} PROVE FALSE
  OBVIOUS
<1>1. PICK j \in Bad : \A k \in Bad : j =< k
  <2>1. Bad \in SUBSET Nat
    OBVIOUS
  <2> HIDE DEF Bad
  <2> QED  BY <2>1, LeastOf
<1>2. j \in 0..n /\ j \in 0..m /\ s[j] # t[j] /\ j \in Nat
  OBVIOUS
<1>3. s[j] = PartAt(f, s, j) /\ t[j] = PartAt(f, t, j)
  BY <1>2
<1>4. j # 0
  BY <1>2, <1>3 DEF PartAt
<1>5. j - 1 \in 0..n /\ j - 1 \notin Bad
  <2>1. j - 1 \in 0..n /\ ~(j =< j - 1)
    BY <1>2, <1>4
  <2> HIDE DEF Bad
  <2> QED  BY <1>1, <2>1
<1> QED  BY <1>2, <1>3, <1>4, <1>5 DEF PartAt

(* SumTo adds one number after the other. *)
LEMMA SumSteps ==
    ASSUME NEW f
    PROVE  SumTo(f, 0) = 0 /\ \A n \in Nat : SumTo(f, n + 1) = SumTo(f, n) + f[n + 1]
<1>1. SumTo(f, 0) = 0
  <2>1. PICK s : s = [i \in 0..0 |-> PartAt(f, s, i)] /\ SumTo(f, 0) = s[0]
    BY SumParts
  <2>2. s[0] = PartAt(f, s, 0)
    BY <2>1
  <2> QED  BY <2>1, <2>2 DEF PartAt
<1>2. ASSUME NEW n \in Nat PROVE SumTo(f, n + 1) = SumTo(f, n) + f[n + 1]
  <2>1. PICK s : s = [i \in 0..n |-> PartAt(f, s, i)] /\ SumTo(f, n) = s[n]
    BY SumParts
  <2>2. PICK t : t = [i \in 0..(n + 1) |-> PartAt(f, t, i)] /\ SumTo(f, n + 1) = t[n + 1]
    <3>1. n + 1 \in Nat
      OBVIOUS
    <3> QED  BY <3>1, SumParts
  <2>3. s[n] = t[n]
    <3>1. n + 1 \in Nat /\ n =< n + 1
      OBVIOUS
    <3> QED  BY <2>1, <2>2, <3>1, PartsAgree
  <2>4. t[n + 1] = PartAt(f, t, n + 1) /\ n + 1 # 0 /\ (n + 1) - 1 = n
    BY <2>2
  <2> QED  BY <2>1, <2>2, <2>3, <2>4 DEF PartAt
<1> QED  BY <1>1, <1>2

(* Sums of naturals are natural. *)
LEMMA SumNat ==
    ASSUME NEW n \in Nat, NEW f, \A i \in 1..n : f[i] \in Nat
    PROVE  SumTo(f, n) \in Nat
<1> DEFINE Bad == {i \in 0..n : SumTo(f, i) \notin Nat}
<1> SUFFICES ASSUME Bad # {} PROVE FALSE
  OBVIOUS
<1>1. PICK j \in Bad : \A k \in Bad : j =< k
  <2>1. Bad \in SUBSET Nat
    OBVIOUS
  <2> HIDE DEF Bad
  <2> QED  BY <2>1, LeastOf
<1>2. j \in 0..n /\ SumTo(f, j) \notin Nat /\ j # 0
  BY SumSteps
<1>3. j - 1 \in 0..n /\ j - 1 \notin Bad
  <2>1. j - 1 \in 0..n /\ ~(j =< j - 1)
    BY <1>2
  <2> HIDE DEF Bad
  <2> QED  BY <1>1, <2>1
<1>4. SumTo(f, j - 1) \in Nat /\ f[j] \in Nat
  BY <1>2, <1>3
<1>5. SumTo(f, j) = SumTo(f, j - 1) + f[j]
  <2>1. j - 1 \in Nat /\ (j - 1) + 1 = j
    BY <1>2
  <2> QED  BY <2>1, SumSteps
<1> QED  BY <1>2, <1>4, <1>5

(* A sum goes on behind its first a numbers with the sum of the rest. *)
LEMMA SumShift ==
    ASSUME NEW n \in Nat, NEW a \in Nat, NEW f, NEW g,
           \A i \in 1..n : f[i] \in Nat /\ g[a + i] = f[i],
           \A i \in 1..a : g[i] \in Nat
    PROVE  SumTo(g, a + n) = SumTo(g, a) + SumTo(f, n)
<1>0. SumTo(g, a) \in Nat
  BY SumNat
<1> DEFINE Bad == {i \in 0..n : SumTo(g, a + i) # SumTo(g, a) + SumTo(f, i)}
<1> SUFFICES ASSUME Bad # {} PROVE FALSE
  OBVIOUS
<1>1. PICK j \in Bad : \A k \in Bad : j =< k
  <2>1. Bad \in SUBSET Nat
    OBVIOUS
  <2> HIDE DEF Bad
  <2> QED  BY <2>1, LeastOf
<1>2. j \in 0..n /\ SumTo(g, a + j) # SumTo(g, a) + SumTo(f, j)
  OBVIOUS
<1>3. j # 0
  <2> SUFFICES ASSUME j = 0 PROVE FALSE
    OBVIOUS
  <2>1. a + j = a /\ SumTo(f, j) = 0
    BY SumSteps
  <2> QED  BY <1>0, <1>2, <2>1
<1>4. j - 1 \in 0..n /\ j - 1 \notin Bad
  <2>1. j - 1 \in 0..n /\ ~(j =< j - 1)
    BY <1>2, <1>3
  <2> HIDE DEF Bad
  <2> QED  BY <1>1, <2>1
<1>5. SumTo(g, a + (j - 1)) = SumTo(g, a) + SumTo(f, j - 1)
  BY <1>4
<1> HIDE DEF Bad
<1>6. SumTo(f, j) = SumTo(f, j - 1) + f[j] /\ SumTo(f, j - 1) \in Nat /\ f[j] \in Nat
  <2>1. j - 1 \in Nat /\ (j - 1) + 1 = j /\ j \in 1..n /\ 1..(j - 1) \subseteq 1..n
    BY <1>2, <1>3
  <2> QED  BY <2>1, SumSteps, SumNat
<1>7. SumTo(g, a + j) = SumTo(g, a + (j - 1)) + f[j]
  <2>1. a + (j - 1) \in Nat /\ (a + (j - 1)) + 1 = a + j /\ j \in 1..n
    BY <1>2, <1>3
  <2> QED  BY <2>1, SumSteps
<1> QED  BY <1>0, <1>2, <1>5, <1>6, <1>7

(* Appending a number to a sequence adds it to its sum... *)
LEMMA SumAppend ==
    ASSUME NEW s \in Seq(Nat), NEW x \in Nat
    PROVE  SumTo(Append(s, x), Len(Append(s, x))) = SumTo(s, Len(s)) + x
<1> DEFINE t == Append(s, x)
<1>1. /\ Len(s) \in Nat /\ Len(t) = Len(s) + 1 /\ t[Len(s) + 1] = x
      /\ \A i \in 1..Len(s) : s[i] \in Nat /\ t[i] = s[i]
  OBVIOUS
<1> HIDE DEF t
<1>2. SumTo(t, 0 + Len(s)) = SumTo(t, 0) + SumTo(s, Len(s))
  <2>1. \A i \in 1..Len(s) : s[i] \in Nat /\ t[0 + i] = s[i]
    BY <1>1
  <2>2. \A i \in 1..0 : t[i] \in Nat
    OBVIOUS
  <2> QED  BY <1>1, <2>1, <2>2, SumShift
<1>3. SumTo(t, 0) = 0 /\ SumTo(t, Len(s) + 1) = SumTo(t, Len(s)) + x
  BY <1>1, SumSteps
<1>4. SumTo(s, Len(s)) \in Nat
  BY <1>1, SumNat
<1>5. SumTo(t, Len(t)) = SumTo(s, Len(s)) + x
  BY <1>1, <1>2, <1>3, <1>4
<1> QED  BY <1>5 DEF t

(* ...and taking the first away leaves the rest. *)
LEMMA SumTail ==
    ASSUME NEW s \in Seq(Nat), s # << >>
    PROVE  /\ SumTo(s, Len(s)) = s[1] + SumTo(Tail(s), Len(Tail(s)))
           /\ SumTo(Tail(s), Len(Tail(s))) \in Nat /\ s[1] \in Nat
<1> DEFINE t == Tail(s)
<1>1. /\ Len(t) \in Nat /\ Len(s) = 1 + Len(t) /\ s[1] \in Nat
      /\ \A i \in 1..Len(t) : t[i] \in Nat /\ s[1 + i] = t[i]
  OBVIOUS
<1> HIDE DEF t
<1>2. SumTo(t, Len(t)) \in Nat
  BY <1>1, SumNat
<1>3. SumTo(s, 1 + Len(t)) = SumTo(s, 1) + SumTo(t, Len(t))
  BY <1>1, SumShift
<1>4. SumTo(s, 1) = s[1]
  <2>1. SumTo(s, 0) = 0 /\ SumTo(s, 0 + 1) = SumTo(s, 0) + s[0 + 1]
    BY SumSteps
  <2> QED  BY <1>1, <2>1
<1>5. SumTo(s, Len(s)) = s[1] + SumTo(t, Len(t))
  BY <1>1, <1>2, <1>3, <1>4
<1> QED  BY <1>1, <1>2, <1>5 DEF t

(* Zeros add up to zero. *)
LEMMA SumZero ==
    ASSUME NEW n \in Nat, NEW f, \A i \in 1..n : f[i] = 0
    PROVE  SumTo(f, n) = 0
<1> DEFINE Bad == {i \in 0..n : SumTo(f, i) # 0}
<1> SUFFICES ASSUME Bad # {} PROVE FALSE
  OBVIOUS
<1>1. PICK j \in Bad : \A k \in Bad : j =< k
  <2>1. Bad \in SUBSET Nat
    OBVIOUS
  <2> HIDE DEF Bad
  <2> QED  BY <2>1, LeastOf
<1>2. j \in 0..n /\ SumTo(f, j) # 0 /\ j # 0
  BY SumSteps
<1>3. j - 1 \in 0..n /\ j - 1 \notin Bad
  <2>1. j - 1 \in 0..n /\ ~(j =< j - 1)
    BY <1>2
  <2> HIDE DEF Bad
  <2> QED  BY <1>1, <2>1
<1>4. SumTo(f, j) = SumTo(f, j - 1) + f[j]
  <2>1. j - 1 \in Nat /\ (j - 1) + 1 = j
    BY <1>2
  <2> QED  BY <2>1, SumSteps
<1> QED  BY <1>2, <1>3, <1>4

-----------------------------------------------------------------------------
(* The hub. *)
SlotsInv == handler \in [Clients -> {"away", "open", "ended"}] /\ NoLeak

(* At first nobody is connected. *)
LEMMA SlotsInit == StreamInit => SlotsInv
<1> SUFFICES ASSUME StreamInit PROVE SlotsInv
  OBVIOUS
<1>1. Open = {}
  BY DEF StreamInit, Open
<1> QED  BY <1>1, FS_EmptySet DEF StreamInit, SlotsInv, NoLeak

(* A handler enters and leaves the cap, the registry and the hub in one step. *)
LEMMA SlotsStep == SlotsInv /\ [StreamNext]_streamVars => SlotsInv'
<1> SUFFICES ASSUME SlotsInv, [StreamNext]_streamVars PROVE SlotsInv'
  OBVIOUS
<1>i. /\ handler \in [Clients -> {"away", "open", "ended"}]
      /\ subs = Open /\ attached = Open /\ wsCount = Cardinality(Open)
  BY DEF SlotsInv, NoLeak
<1>f. IsFiniteSet(Open) /\ Cardinality(Open) \in Nat
  <2>1. IsFiniteSet(Clients) /\ Open \in SUBSET Clients
    BY FanoutAssumption DEF Open
  <2> QED  BY <2>1, FS_Subset, FS_CardinalityType
<1>1. ASSUME NEW c \in Clients, Connect(c) PROVE SlotsInv'
  <2>1. /\ handler' = [handler EXCEPT ![c] = "open"] /\ handler[c] = "away"
        /\ wsCount' = wsCount + 1 /\ attached' = attached \cup {c} /\ subs' = subs \cup {c}
    BY <1>1 DEF Connect
  <2>2. Open' = Open \cup {c} /\ c \notin Open
    BY <2>1, <1>i DEF Open
  <2>3. Cardinality(Open') = Cardinality(Open) + 1
    BY <2>2, <1>f, FS_AddElement
  <2> QED  BY <2>1, <2>2, <2>3, <1>i DEF SlotsInv, NoLeak
<1>2. ASSUME NEW c \in Clients, Finish(c) \/ Cancelled(c) PROVE SlotsInv'
  <2>1. /\ handler' = [handler EXCEPT ![c] = "ended"] /\ handler[c] = "open"
        /\ wsCount' = wsCount - 1 /\ attached' = attached \ {c} /\ subs' = subs \ {c}
    BY <1>2 DEF Finish, Cancelled, EndHandler, Released
  <2>2. Open' = Open \ {c} /\ c \in Open
    BY <2>1, <1>i DEF Open
  <2>3. Cardinality(Open') = Cardinality(Open) - 1
    BY <2>2, <1>f, FS_RemoveElement
  <2> QED  BY <2>1, <2>2, <2>3, <1>i DEF SlotsInv, NoLeak
<1>3. ASSUME NEW c \in Clients, Refuse(c) PROVE SlotsInv'
  <2>1. /\ handler' = [handler EXCEPT ![c] = "ended"] /\ handler[c] = "away"
        /\ UNCHANGED <<wsCount, attached, subs>>
    BY <1>3 DEF Refuse, hubVars
  <2>2. Open' = Open
    BY <2>1, <1>i DEF Open
  <2> QED  BY <2>1, <2>2, <1>i DEF SlotsInv, NoLeak
<1>4. CASE UNCHANGED <<handler, wsCount, attached, subs>>
  <2>1. Open' = Open
    BY <1>4 DEF Open
  <2> QED  BY <1>4, <2>1, <1>i DEF SlotsInv, NoLeak
<1> QED
  BY <1>1, <1>2, <1>3, <1>4
     DEF StreamNext, streamVars, connVars, hubVars, Publish, Shutdown,
         PubSubStop, Disconnect, HandlerStep, Recv, Sent, SendFails,
         KeepaliveEnds

(* However its handlers end, refused, left, timed out or cancelled, the cap  *)
(* of gateway/app.py counts the connections the hub and the registry have,   *)
(* for any number of them and any cap.                                       *)
THEOREM ConnectionsNeverLeak == StreamSpec => []NoLeak
<1>1. SlotsInv => NoLeak
  BY DEF SlotsInv
<1> QED  BY <1>1, SlotsInit, SlotsStep, PTL DEF StreamSpec

-----------------------------------------------------------------------------
(* What the hub has queued, dropped and still owes. *)
HubTypes ==
    /\ phase \in {"up", "closing", "stopped"}
    /\ handler \in [Clients -> {"away", "open", "ended"}]
    /\ loop \in [Clients -> {"recv", "send", "done"}] /\ left \in [Clients -> {"no", "yes"}]
    /\ pattern \in [Clients -> Patterns]
    /\ queue \in [Clients -> Seq(Nat)] /\ pending \in [Clients -> Nat]
    /\ drops \in [Clients -> Nat] /\ owed \in [Clients -> Nat] /\ frames \in 0..MaxFrames

(* The cap bounds the connections. *)
CapInv == NoLeak /\ wsCount =< Cap

(* A queue has frames and at its end perhaps the sentinel, which no open     *)
(* connection's has; its bytes are counted, and when they are beyond the     *)
(* budget they are those of one frame.                                       *)
QueueOf(c) ==
    /\ \A i \in 1..Len(queue[c]) :
          queue[c][i] \in Sizes \/ (queue[c][i] = 0 /\ i = Len(queue[c]))
    /\ handler[c] = "open" => \A i \in 1..Len(queue[c]) : queue[c][i] # 0
    /\ handler[c] = "away" => queue[c] = << >>
    /\ handler[c] = "ended" /\ loop[c] = "recv" =>
          queue[c] # << >> /\ queue[c][Len(queue[c])] = 0
    /\ pending[c] = SumTo(queue[c], Len(queue[c]))
    /\ pending[c] > Budget =>
          queue[c] # << >> /\ \A i \in 1..Len(queue[c]) : queue[c][i] # 0 <=> i = 1

(* The frames owed to a connection. *)
Owes(h, l, n, d, o, f) ==
    /\ h = "away" => d = 0 /\ o = 0 /\ l = "done"
    /\ d =< f /\ o =< f
    /\ l = "send" => o > 0
    /\ h = "open" /\ l = "recv" => o = n + d
    /\ h = "open" /\ l = "send" => o = n + d + 1
    /\ h = "ended" /\ l = "recv" => o + 1 = n + d

OwedTo(c) == Owes(handler[c], loop[c], Len(queue[c]), drops[c], owed[c], frames)

(* A frame is queued or dropped, ... *)
LEMMA OwesMore ==
    ASSUME NEW l, NEW n \in Nat, NEW d \in Nat, NEW o \in Nat, NEW f \in Nat,
           Owes("open", l, n, d, o, f)
    PROVE  Owes("open", l, n + 1, d, o + 1, f + 1) /\ Owes("open", l, n, d + 1, o + 1, f + 1)
BY DEF Owes

(* ...another one is published, ... *)
LEMMA OwesLater ==
    ASSUME NEW h, NEW l, NEW n, NEW d \in Nat, NEW o \in Nat, NEW f \in Nat,
           Owes(h, l, n, d, o, f), NEW g \in {f, f + 1}
    PROVE  Owes(h, l, n, d, o, g)
<1>1. d =< g /\ o =< g
  BY DEF Owes
<1> QED  BY <1>1 DEF Owes

(* ...the sentinel is queued, ... *)
LEMMA OwesWoken ==
    ASSUME NEW l, NEW n \in Nat, NEW d \in Nat, NEW o \in Nat, NEW f \in Nat,
           Owes("open", l, n, d, o, f)
    PROVE  Owes("ended", l, n + 1, d, o, f)
BY DEF Owes

(* ...the frame is out, ... *)
LEMMA OwesSent ==
    ASSUME NEW h, NEW n \in Nat, NEW d \in Nat, NEW o \in Nat, NEW f \in Nat,
           Owes(h, "send", n, d, o, f)
    PROVE  /\ o - 1 \in Nat
           /\ Owes(h, IF h = "open" THEN "recv" ELSE "done", n, d, o - 1, f)
<1>1. o > 0 /\ h # "away"
  BY DEF Owes
<1>2. CASE h = "open"
  BY <1>1, <1>2 DEF Owes
<1>3. CASE h # "open"
  BY <1>1, <1>3 DEF Owes
<1> QED  BY <1>1, <1>2, <1>3

(* ...and taken from the queue. *)
LEMMA OwesTaken ==
    ASSUME NEW h \in {"open", "ended"}, NEW n \in Nat, NEW d \in Nat, NEW o \in Nat,
           NEW f \in Nat, Owes(h, "recv", n + 1, d, o, f)
    PROVE  /\ Owes(h, "done", n, d, o, f)
           /\ h = "open" \/ n # 0 => Owes(h, "send", n, d, o, f)
BY DEF Owes

HubInv == HubTypes /\ CapInv /\ \A c \in Clients : QueueOf(c) /\ OwedTo(c)

(* At first nobody is connected. *)
LEMMA HubInitHolds ==
    ASSUME StreamInit
    PROVE  HubInv
<1>1. Open = {} /\ Cardinality({}) = 0
  BY FS_EmptySet DEF StreamInit, Open
<1>2. CapInv
  BY <1>1, FanoutAssumption DEF StreamInit, CapInv, NoLeak
<1>3. HubTypes
  BY FanoutAssumption DEF StreamInit, HubTypes, Patterns
<1>4. ASSUME NEW c \in Clients PROVE QueueOf(c) /\ OwedTo(c)
  <2>1. queue[c] = << >> /\ pending[c] = 0 /\ drops[c] = 0 /\ owed[c] = 0
        /\ loop[c] = "done" /\ handler[c] = "away" /\ frames = 0 /\ Len(queue[c]) = 0
    BY DEF StreamInit
  <2>2. SumTo(queue[c], 0) = 0
    BY SumSteps
  <2> QED  BY <2>1, <2>2, FanoutAssumption DEF QueueOf, OwedTo, Owes
<1> QED  BY <1>2, <1>3, <1>4 DEF HubInv

(* A slot is taken only below the cap. *)
LEMMA CapStep ==
    ASSUME HubTypes, CapInv, [StreamNext]_streamVars
    PROVE  CapInv'
<1>1. SlotsInv /\ SlotsInv'
  <2>1. SlotsInv
    BY DEF HubTypes, CapInv, SlotsInv
  <2> QED  BY <2>1, SlotsStep
<1>2. wsCount \in Nat /\ wsCount =< Cap /\ Cap \in Nat
  <2>1. wsCount = Cardinality(Open) /\ wsCount =< Cap /\ Cap \in Nat
    BY FanoutAssumption DEF CapInv, NoLeak
  <2>2. Open \in SUBSET Clients
    BY DEF Open
  <2> QED  BY <2>1, <2>2, FanoutAssumption, FS_Subset, FS_CardinalityType
<1>3. wsCount' = wsCount \/ wsCount' = wsCount - 1 \/ (wsCount < Cap /\ wsCount' = wsCount + 1)
  BY DEF StreamNext, streamVars, connVars, hubVars, Publish, Shutdown,
         PubSubStop, Disconnect, HandlerStep, Recv, Sent, SendFails,
         KeepaliveEnds, Refuse, Connect, SlotAvailable, Finish,
         Cancelled, EndHandler, Released
<1>4. wsCount' =< Cap
  BY <1>2, <1>3
<1> QED  BY <1>1, <1>4 DEF SlotsInv, CapInv

(* What a step does to one connection: nothing, ... *)
ConnKept(c) ==
    /\ handler'[c] = handler[c] /\ loop'[c] = loop[c] /\ queue'[c] = queue[c]
    /\ pending'[c] = pending[c] /\ drops'[c] = drops[c] /\ owed'[c] = owed[c]
    /\ frames' \in {frames, frames + 1}

(* ...publish, with room for the frame or without, ... *)
ConnGiven(c) ==
    /\ handler[c] = "open" /\ handler'[c] = "open" /\ loop'[c] = loop[c]
    /\ owed'[c] = owed[c] + 1 /\ frames' = frames + 1 /\ drops'[c] = drops[c]
    /\ \E size \in Sizes : /\ Fits(c, size)
                           /\ queue'[c] = Append(queue[c], size)
                           /\ pending'[c] = pending[c] + size

ConnDropped(c) ==
    /\ handler[c] = "open" /\ handler'[c] = "open" /\ loop'[c] = loop[c]
    /\ owed'[c] = owed[c] + 1 /\ frames' = frames + 1 /\ drops'[c] = drops[c] + 1
    /\ queue'[c] = queue[c] /\ pending'[c] = pending[c]

(* ...the handler's start, its refusal or the send_loop's end, ... *)
ConnMoved(c) ==
    /\ \/ handler[c] = "away" /\ handler'[c] = "open" /\ loop'[c] = "recv"
       \/ handler[c] = "away" /\ handler'[c] = "ended" /\ loop'[c] = loop[c]
       \/ handler'[c] = handler[c] /\ loop'[c] = "done"
    /\ queue'[c] = queue[c] /\ pending'[c] = pending[c]
    /\ drops'[c] = drops[c] /\ owed'[c] = owed[c] /\ frames' = frames

(* ...recv, and the frame's sending, ... *)
ConnRecv(c) ==
    /\ loop[c] = "recv" /\ queue[c] # << >> /\ handler'[c] = handler[c]
    /\ queue'[c] = Tail(queue[c])
    /\ \/ Head(queue[c]) = 0 /\ loop'[c] = "done" /\ pending'[c] = pending[c]
       \/ /\ Head(queue[c]) # 0 /\ loop'[c] = "send"
          /\ pending'[c] = pending[c] - Head(queue[c])
    /\ drops'[c] = drops[c] /\ owed'[c] = owed[c] /\ frames' = frames

ConnSent(c) ==
    /\ loop[c] = "send" /\ handler'[c] = handler[c] /\ owed'[c] = owed[c] - 1
    /\ loop'[c] = IF handler[c] = "open" THEN "recv" ELSE "done"
    /\ queue'[c] = queue[c] /\ pending'[c] = pending[c]
    /\ drops'[c] = drops[c] /\ frames' = frames

(* ...the handler's end, or its cancellation. *)
ConnEnds(c) ==
    /\ handler'[c] = "ended" /\ loop'[c] = "done" /\ queue'[c] = << >>
    /\ pending'[c] = 0 /\ drops'[c] = 0 /\ owed'[c] = 0 /\ frames' = frames

ConnCancelled(c) ==
    /\ handler[c] = "open" /\ handler'[c] = "ended" /\ loop'[c] = loop[c]
    /\ queue'[c] = Append(queue[c], 0) /\ pending'[c] = pending[c]
    /\ drops'[c] = drops[c] /\ owed'[c] = owed[c] /\ frames' = frames

HubStepOf(c) ==
    \/ ConnKept(c) \/ ConnGiven(c) \/ ConnDropped(c) \/ ConnMoved(c)
    \/ ConnRecv(c) \/ ConnSent(c) \/ ConnEnds(c) \/ ConnCancelled(c)

(* Every step is one of these for each connection. *)
LEMMA HubSteps ==
    ASSUME HubTypes, CapInv, [StreamNext]_streamVars, NEW c \in Clients
    PROVE  HubStepOf(c)
<1>t. /\ handler \in [Clients -> {"away", "open", "ended"}]
      /\ loop \in [Clients -> {"recv", "send", "done"}]
      /\ queue \in [Clients -> Seq(Nat)] /\ pending \in [Clients -> Nat]
      /\ drops \in [Clients -> Nat] /\ owed \in [Clients -> Nat]
      /\ \A d \in Clients : d \in subs <=> handler[d] = "open"
  BY DEF HubTypes, CapInv, NoLeak, Open
<1>1. CASE Publish
  <2>1. PICK topic \in Topics, size \in Sizes :
         LET to   == {d \in subs : TopicMatches(pattern[d], topic)}
             fit  == {d \in to : Fits(d, size)}
         IN  /\ owed' = [d \in Clients |-> owed[d] + IF d \in to THEN 1 ELSE 0]
             /\ drops' = [d \in Clients |-> drops[d] + IF d \in Dropped(to, size) THEN 1 ELSE 0]
             /\ pending' = [d \in Clients |-> pending[d] + IF d \in fit THEN size ELSE 0]
             /\ queue' = [d \in Clients |-> IF d \in fit
                            THEN Append(queue[d], size) ELSE queue[d]]
    BY <1>1 DEF Publish
  <2>2. frames' = frames + 1 /\ handler' = handler /\ loop' = loop
    BY <1>1 DEF Publish, connVars
  <2> DEFINE to == {d \in subs : TopicMatches(pattern[d], topic)}
  <2>3. /\ owed'[c] = owed[c] + IF c \in to THEN 1 ELSE 0
        /\ drops'[c] = drops[c] + IF c \in to /\ ~Fits(c, size) THEN 1 ELSE 0
        /\ pending'[c] = pending[c] + IF c \in to /\ Fits(c, size) THEN size ELSE 0
        /\ queue'[c] = IF c \in to /\ Fits(c, size) THEN Append(queue[c], size) ELSE queue[c]
    BY <2>1, Zenon DEF Dropped
  <2>4. c \in to => handler[c] = "open"
    BY <1>t
  <2> HIDE DEF to
  <2>5. pending[c] \in Nat /\ drops[c] \in Nat /\ owed[c] \in Nat
    BY <1>t
  <2>6. CASE c \notin to
    BY <2>2, <2>3, <2>5, <2>6 DEF HubStepOf, ConnKept
  <2>7. CASE c \in to /\ Fits(c, size)
    BY <2>2, <2>3, <2>4, <2>5, <2>7 DEF HubStepOf, ConnGiven
  <2>8. CASE c \in to /\ ~Fits(c, size)
    BY <2>2, <2>3, <2>4, <2>5, <2>8 DEF HubStepOf, ConnDropped
  <2> QED  BY <2>6, <2>7, <2>8
<1>2. ASSUME NEW d \in Clients, Connect(d) \/ Refuse(d) \/ SendFails(d)
                              \/ KeepaliveEnds(d)
      PROVE  HubStepOf(c)
  BY <1>2, <1>t DEF Connect, Refuse, SendFails, KeepaliveEnds, hubVars,
                       HubStepOf, ConnKept, ConnMoved
<1>3. ASSUME NEW d \in Clients, Recv(d) PROVE HubStepOf(c)
  <2>1. /\ loop[d] = "recv" /\ queue[d] # << >> /\ handler' = handler
        /\ queue' = [queue EXCEPT ![d] = Tail(queue[d])]
        /\ \/ /\ Head(queue[d]) = 0 /\ loop' = [loop EXCEPT ![d] = "done"]
              /\ pending' = pending
           \/ /\ Head(queue[d]) # 0 /\ loop' = [loop EXCEPT ![d] = "send"]
              /\ pending' = [pending EXCEPT ![d] = pending[d] - Head(queue[d])]
        /\ UNCHANGED <<drops, owed, frames>>
    BY <1>3 DEF Recv, Sentinel
  <2>2. CASE c = d
    <3>1. ConnRecv(c)
      BY <2>1, <2>2, <1>t DEF ConnRecv
    <3> QED  BY <3>1 DEF HubStepOf
  <2>3. CASE c # d
    <3>1. ConnKept(c)
      BY <2>1, <2>3, <1>t DEF ConnKept
    <3> QED  BY <3>1 DEF HubStepOf
  <2> QED  BY <2>2, <2>3
<1>4. ASSUME NEW d \in Clients, Sent(d) PROVE HubStepOf(c)
  BY <1>4, <1>t DEF Sent, HubStepOf, ConnKept, ConnSent
<1>5. ASSUME NEW d \in Clients, Finish(d) PROVE HubStepOf(c)
  BY <1>5, <1>t DEF Finish, EndHandler, HubStepOf, ConnKept, ConnEnds
<1>6. ASSUME NEW d \in Clients, Cancelled(d) PROVE HubStepOf(c)
  BY <1>6, <1>t DEF Cancelled, EndHandler, Woken, Sentinel,
                       HubStepOf, ConnKept, ConnCancelled
<1>7. CASE PubSubStop
  <2>1. handler[c] # "open" /\ c \notin subs
    BY <1>7, <1>t DEF PubSubStop
  <2> QED  BY <1>7, <2>1 DEF PubSubStop, connVars, HubStepOf, ConnKept
<1>8. CASE UNCHANGED <<handler, loop, queue, pending, drops, owed, frames>>
  BY <1>8 DEF HubStepOf, ConnKept
<1> QED
  BY <1>1, <1>2, <1>3, <1>4, <1>5, <1>6, <1>7, <1>8
     DEF StreamNext, streamVars, connVars, hubVars, Shutdown, Disconnect, HandlerStep

(* Every step keeps what is said of a connection's queue. *)
LEMMA QueueStep ==
    ASSUME HubTypes, NEW c \in Clients, QueueOf(c), OwedTo(c), HubStepOf(c)
    PROVE  QueueOf(c)' /\ OwedTo(c)'
<1> DEFINE q == queue[c]
<1>t. /\ q \in Seq(Nat) /\ pending[c] \in Nat /\ drops[c] \in Nat /\ owed[c] \in Nat
      /\ frames \in Nat /\ Len(q) \in Nat /\ Sizes \subseteq Nat \ {0} /\ Budget \in Nat
  BY FanoutAssumption DEF HubTypes
<1>s. pending[c] = SumTo(q, Len(q))
  BY DEF QueueOf
<1>1. CASE ConnKept(c)
  <2>1. QueueOf(c)'
    BY <1>1 DEF ConnKept, QueueOf
  <2>3. Owes(handler[c], loop[c], Len(q), drops[c], owed[c], frames')
    <3>1. Owes(handler[c], loop[c], Len(q), drops[c], owed[c], frames)
          /\ frames' \in {frames, frames + 1}
      BY <1>1 DEF OwedTo, ConnKept
    <3> QED  BY <1>t, <3>1, OwesLater
  <2>4. OwedTo(c)'
    BY <1>1, <2>3 DEF ConnKept, OwedTo
  <2> QED  BY <2>1, <2>4
<1>2. CASE ConnGiven(c)
  <2>1. PICK size \in Sizes : /\ Fits(c, size)
                              /\ queue'[c] = Append(queue[c], size)
                              /\ pending'[c] = pending[c] + size
    BY <1>2 DEF ConnGiven
  <2>2. /\ handler[c] = "open" /\ handler'[c] = "open" /\ loop'[c] = loop[c]
        /\ owed'[c] = owed[c] + 1 /\ frames' = frames + 1 /\ drops'[c] = drops[c]
    BY <1>2 DEF ConnGiven
  <2> DEFINE t == Append(q, size)
  <2>n. size \in Nat \ {0}
    BY <1>t
  <2>3. /\ Len(t) = Len(q) + 1 /\ t[Len(q) + 1] = size /\ t # << >>
        /\ \A i \in 1..Len(q) : t[i] = q[i]
    <3>1. q \in Seq(Nat)
      BY <1>t
    <3> QED  BY <2>n, <3>1
  <2>4. SumTo(t, Len(t)) = pending[c] + size
    BY <1>t, <1>s, <2>n, SumAppend
  <2>5. queue'[c] = t
    BY <2>1
  <2>6. \A i \in 1..Len(q) : q[i] \in Sizes /\ q[i] # 0
    BY <2>2, <1>t DEF QueueOf
  <2> HIDE DEF t
  <2>7. \A i \in 1..Len(t) : t[i] \in Sizes /\ t[i] # 0
    <3> TAKE i \in 1..Len(t)
    <3>1. i = Len(q) + 1 \/ i \in 1..Len(q)
      BY <2>3, <1>t
    <3> QED  BY <3>1, <2>3, <2>6, <2>n
  <2>8. pending'[c] > Budget => \A i \in 1..Len(t) : t[i] # 0 <=> i = 1
    <3> SUFFICES ASSUME pending'[c] > Budget PROVE q = << >>
      BY <2>3, <2>7, <1>t
    <3>1. pending[c] = 0
      BY <2>1, <2>n, <1>t DEF Fits
    <3> SUFFICES ASSUME q # << >> PROVE FALSE
      OBVIOUS
    <3>2. SumTo(q, Len(q)) >= q[1] /\ q[1] \in Nat
      BY <1>t, SumTail
    <3>3. q[1] # 0
      <4>1. 1 \in 1..Len(q)
        BY <1>t
      <4> QED  BY <4>1, <2>6
    <3> QED  BY <3>1, <3>2, <3>3, <1>s
  <2>9. QueueOf(c)'
    BY <2>1, <2>2, <2>3, <2>4, <2>5, <2>7, <2>8 DEF QueueOf
  <2>10. OwedTo(c)'
    <3>1. Owes("open", loop[c], Len(q), drops[c], owed[c], frames)
      BY <2>2 DEF OwedTo
    <3>2. Owes("open", loop[c], Len(q) + 1, drops[c], owed[c] + 1, frames + 1)
      BY <1>t, <3>1, OwesMore
    <3> QED  BY <2>2, <2>3, <2>5, <3>2 DEF OwedTo
  <2> QED  BY <2>9, <2>10
<1>3. CASE ConnDropped(c)
  <2>1. QueueOf(c)'
    BY <1>3 DEF ConnDropped, QueueOf
  <2>2. Owes("open", loop[c], Len(q), drops[c], owed[c], frames)
    BY <1>3 DEF ConnDropped, OwedTo
  <2>3. Owes("open", loop[c], Len(q), drops[c] + 1, owed[c] + 1, frames + 1)
    BY <1>t, <2>2, OwesMore
  <2>4. OwedTo(c)'
    BY <1>3, <2>3 DEF ConnDropped, OwedTo
  <2> QED  BY <2>1, <2>4
<1>4. CASE ConnMoved(c)
  <2>1. handler[c] = "away" => /\ q = << >> /\ Len(q) = 0
                               /\ drops[c] = 0 /\ owed[c] = 0 /\ loop[c] = "done"
    BY DEF QueueOf, OwedTo, Owes
  <2>2. QueueOf(c)'
    <3>1. queue'[c] = q /\ pending'[c] = pending[c]
      BY <1>4 DEF ConnMoved
    <3>2. handler'[c] # "away" \/ handler'[c] = handler[c]
      BY <1>4 DEF ConnMoved
    <3>3. handler'[c] = "open" => handler[c] = "open" \/ q = << >>
      BY <1>4, <2>1 DEF ConnMoved
    <3>4. ~(handler'[c] = "ended" /\ loop'[c] = "recv")
      BY <1>4, <2>1 DEF ConnMoved
    <3>5. handler'[c] = "open" => \A i \in 1..Len(q) : q[i] # 0
      <4>1. q = << >> => \A i \in 1..Len(q) : q[i] # 0
        OBVIOUS
      <4> QED  BY <3>3, <4>1 DEF QueueOf
    <3>6. handler'[c] = "away" => q = << >>
      BY <3>2, <2>1
    <3> QED  BY <3>1, <3>4, <3>5, <3>6 DEF QueueOf
  <2>3. Owes(handler'[c], loop'[c], Len(q), drops[c], owed[c], frames)
    <3>1. CASE handler[c] = "away" /\ handler'[c] # "away"
      <4>1. \/ handler'[c] = "open" /\ loop'[c] = "recv"
            \/ handler'[c] = "ended" /\ loop'[c] = "done"
            \/ handler'[c] = handler[c]
        BY <1>4, <2>1, <3>1 DEF ConnMoved
      <4>2. Len(q) = 0 /\ drops[c] = 0 /\ owed[c] = 0 /\ frames \in Nat
        BY <2>1, <3>1, <1>t
      <4> QED  BY <3>1, <4>1, <4>2 DEF Owes
    <3>2. CASE handler'[c] = handler[c] /\ loop'[c] = "done"
      BY <3>2, <1>t DEF OwedTo, Owes
    <3> QED  BY <1>4, <3>1, <3>2 DEF ConnMoved
  <2>4. OwedTo(c)'
    BY <1>4, <2>3 DEF ConnMoved, OwedTo
  <2> QED  BY <2>2, <2>4
<1>5. CASE ConnRecv(c)
  <2> DEFINE t == Tail(q)
  <2>1. /\ q # << >> /\ queue'[c] = t /\ loop[c] = "recv" /\ handler'[c] = handler[c]
        /\ \/ Head(q) = 0 /\ loop'[c] = "done" /\ pending'[c] = pending[c]
           \/ Head(q) # 0 /\ loop'[c] = "send" /\ pending'[c] = pending[c] - Head(q)
        /\ drops'[c] = drops[c] /\ owed'[c] = owed[c] /\ frames' = frames
    BY <1>5 DEF ConnRecv
  <2>2. /\ Head(q) = q[1] /\ 1 \in 1..Len(q) /\ Len(q) = Len(t) + 1 /\ Len(t) \in Nat
        /\ \A i \in 1..Len(t) : t[i] = q[i + 1] /\ i + 1 \in 1..Len(q)
    BY <2>1, <1>t
  <2>3. /\ SumTo(q, Len(q)) = q[1] + SumTo(t, Len(t))
        /\ SumTo(t, Len(t)) \in Nat /\ q[1] \in Nat
    BY <2>1, <1>t, SumTail
  <2> HIDE DEF t
  <2>4. pending'[c] = SumTo(t, Len(t))
    BY <2>1, <2>2, <2>3, <1>s, <1>t
  <2>5. \A i \in 1..Len(t) : t[i] \in Sizes \/ (t[i] = 0 /\ i = Len(t))
    <3> TAKE i \in 1..Len(t)
    <3>1. q[i + 1] \in Sizes \/ (q[i + 1] = 0 /\ i + 1 = Len(q))
      BY <2>2 DEF QueueOf
    <3> QED  BY <3>1, <2>2
  <2>6. handler[c] = "open" => \A i \in 1..Len(t) : t[i] # 0
    BY <2>2 DEF QueueOf
  <2>7. handler[c] # "away"
    BY <2>1 DEF QueueOf
  <2>8. ~(pending'[c] > Budget)
    <3> SUFFICES ASSUME pending'[c] > Budget PROVE FALSE
      OBVIOUS
    <3>1. pending[c] > Budget
      BY <2>3, <2>4, <1>s, <1>t
    <3>2. \A i \in 1..Len(t) : t[i] = 0
      <4> TAKE i \in 1..Len(t)
      <4>1. i + 1 \in 1..Len(q) /\ i + 1 # 1 /\ t[i] = q[i + 1]
        BY <2>2
      <4> QED  BY <3>1, <4>1 DEF QueueOf
    <3>3. SumTo(t, Len(t)) = 0
      BY <2>2, <3>2, SumZero
    <3> QED  BY <2>4, <3>3, <1>t
  <2>9. QueueOf(c)'
    BY <2>1, <2>4, <2>5, <2>6, <2>7, <2>8 DEF QueueOf
  <2>10. OwedTo(c)'
    <3>1. handler[c] \in {"open", "ended"} /\ Owes(handler[c], "recv", Len(t) + 1, drops[c],
                                                owed[c], frames)
      BY <2>1, <2>2, <2>7 DEF OwedTo, HubTypes
    <3>2. Owes(handler[c], "done", Len(t), drops[c], owed[c], frames)
          /\ (handler[c] = "open" \/ Len(t) # 0
                => Owes(handler[c], "send", Len(t), drops[c], owed[c], frames))
      BY <3>1, <2>2, <1>t, OwesTaken
    <3>3. handler[c] = "ended" /\ Len(t) = 0 => q[1] = 0
      BY <2>1, <2>2 DEF QueueOf
    <3> QED  BY <2>1, <2>2, <3>1, <3>2, <3>3 DEF OwedTo
  <2> QED  BY <2>9, <2>10
<1>6. CASE ConnSent(c)
  <2>1. QueueOf(c)'
    BY <1>6 DEF ConnSent, QueueOf
  <2>2. Owes(handler[c], "send", Len(q), drops[c], owed[c], frames)
    BY <1>6 DEF ConnSent, OwedTo
  <2>3. Owes(handler[c], IF handler[c] = "open" THEN "recv" ELSE "done", Len(q), drops[c],
             owed[c] - 1, frames)
    BY <1>t, <2>2, OwesSent
  <2>4. OwedTo(c)'
    BY <1>6, <2>3 DEF ConnSent, OwedTo
  <2> QED  BY <2>1, <2>4
<1>7. CASE ConnEnds(c)
  <2>1. SumTo(<< >>, 0) = 0 /\ Len(<< >>) = 0
    BY SumSteps
  <2> QED  BY <1>7, <2>1, <1>t DEF ConnEnds, QueueOf, OwedTo, Owes
<1>8. CASE ConnCancelled(c)
  <2> DEFINE t == Append(q, 0)
  <2>1. /\ handler[c] = "open" /\ handler'[c] = "ended" /\ loop'[c] = loop[c]
        /\ queue'[c] = t /\ pending'[c] = pending[c]
        /\ drops'[c] = drops[c] /\ owed'[c] = owed[c] /\ frames' = frames
    BY <1>8 DEF ConnCancelled
  <2>2. /\ Len(t) = Len(q) + 1 /\ t[Len(q) + 1] = 0 /\ t # << >>
        /\ \A i \in 1..Len(q) : t[i] = q[i]
    BY <1>t
  <2>3. SumTo(t, Len(t)) = pending[c]
    <3>1. 0 \in Nat
      OBVIOUS
    <3>2. SumTo(t, Len(t)) = SumTo(q, Len(q)) + 0
      BY <3>1, <1>t, SumAppend
    <3> QED  BY <3>2, <1>s, <1>t
  <2> HIDE DEF t
  <2>4. \A i \in 1..Len(t) : i = Len(t) \/ i \in 1..Len(q)
    BY <2>2, <1>t
  <2>5. \A i \in 1..Len(t) : t[i] \in Sizes \/ (t[i] = 0 /\ i = Len(t))
    BY <2>1, <2>2, <2>4 DEF QueueOf
  <2>6. pending[c] > Budget => \A i \in 1..Len(t) : t[i] # 0 <=> i = 1
    <3> SUFFICES ASSUME pending[c] > Budget, NEW i \in 1..Len(t) PROVE t[i] # 0 <=> i = 1
      OBVIOUS
    <3>1. q # << >> /\ \A j \in 1..Len(q) : q[j] # 0 <=> j = 1
      BY DEF QueueOf
    <3>2. Len(q) # 0
      BY <3>1, <1>t
    <3>3. CASE i = Len(t)
      BY <3>2, <3>3, <2>2, <1>t
    <3>4. CASE i \in 1..Len(q)
      BY <3>1, <3>4, <2>2
    <3> QED  BY <3>3, <3>4, <2>4
  <2>7. QueueOf(c)'
    BY <2>1, <2>2, <2>3, <2>5, <2>6 DEF QueueOf
  <2>8. OwedTo(c)'
    <3>1. Owes("open", loop[c], Len(q), drops[c], owed[c], frames)
      BY <2>1 DEF OwedTo
    <3>2. Owes("ended", loop[c], Len(q) + 1, drops[c], owed[c], frames)
      BY <1>t, <3>1, OwesWoken
    <3> QED  BY <2>1, <2>2, <3>2 DEF OwedTo
  <2> QED  BY <2>7, <2>8
<1> QED  BY <1>1, <1>2, <1>3, <1>4, <1>5, <1>6, <1>7, <1>8 DEF HubStepOf

(* The types of the hub's state. *)
LEMMA TypeStep ==
    ASSUME HubInv, [StreamNext]_streamVars
    PROVE  HubTypes'
<1>t. /\ phase \in {"up", "closing", "stopped"}
      /\ handler \in [Clients -> {"away", "open", "ended"}]
      /\ loop \in [Clients -> {"recv", "send", "done"}] /\ left \in [Clients -> {"no", "yes"}]
      /\ pattern \in [Clients -> Patterns]
      /\ queue \in [Clients -> Seq(Nat)] /\ pending \in [Clients -> Nat]
      /\ drops \in [Clients -> Nat] /\ owed \in [Clients -> Nat]
      /\ frames \in 0..MaxFrames /\ MaxFrames \in Nat /\ Sizes \subseteq Nat
      /\ All \in Patterns
  BY FanoutAssumption DEF HubInv, HubTypes, Patterns
<1>1. CASE Publish
  <2>1. PICK topic \in Topics, size \in Sizes :
         LET to   == {d \in subs : TopicMatches(pattern[d], topic)}
             fit  == {d \in to : Fits(d, size)}
         IN  /\ owed' = [d \in Clients |-> owed[d] + IF d \in to THEN 1 ELSE 0]
             /\ drops' = [d \in Clients |-> drops[d] + IF d \in Dropped(to, size) THEN 1 ELSE 0]
             /\ pending' = [d \in Clients |-> pending[d] + IF d \in fit THEN size ELSE 0]
             /\ queue' = [d \in Clients |-> IF d \in fit
                            THEN Append(queue[d], size) ELSE queue[d]]
    BY <1>1 DEF Publish
  <2>2. owed' \in [Clients -> Nat] /\ drops' \in [Clients -> Nat]
    BY <1>t, <2>1
  <2>3. pending' \in [Clients -> Nat] /\ queue' \in [Clients -> Seq(Nat)]
    BY <1>t, <2>1
  <2>4. frames' \in 0..MaxFrames
    BY <1>1, <1>t DEF Publish
  <2> QED  BY <1>1, <1>t, <2>2, <2>3, <2>4 DEF Publish, connVars, HubTypes
<1>2. ASSUME NEW c \in Clients, Connect(c) PROVE HubTypes'
  BY <1>2, <1>t DEF Connect, HubTypes
<1>3. ASSUME NEW c \in Clients, Refuse(c) \/ SendFails(c) \/ KeepaliveEnds(c)
                              \/ Disconnect(c)
      PROVE  HubTypes'
  BY <1>3, <1>t DEF Refuse, SendFails, KeepaliveEnds, Disconnect,
                    hubVars, HubTypes
<1>4. ASSUME NEW c \in Clients, Recv(c) PROVE HubTypes'
  <2>1. queue[c] \in Seq(Nat) /\ queue[c] # << >>
    BY <1>4, <1>t DEF Recv
  <2>2. Head(queue[c]) \in Nat /\ Tail(queue[c]) \in Seq(Nat)
    BY <2>1
  <2>3. pending[c] - Head(queue[c]) \in Nat
    <3>1. pending[c] = SumTo(queue[c], Len(queue[c]))
      BY DEF HubInv, QueueOf
    <3>2. /\ SumTo(queue[c], Len(queue[c]))
              = queue[c][1] + SumTo(Tail(queue[c]), Len(Tail(queue[c])))
          /\ SumTo(Tail(queue[c]), Len(Tail(queue[c]))) \in Nat /\ queue[c][1] \in Nat
      BY <2>1, SumTail
    <3>3. Head(queue[c]) = queue[c][1]
      BY <2>1
    <3> QED  BY <3>1, <3>2, <3>3
  <2>4. queue' \in [Clients -> Seq(Nat)] /\ pending' \in [Clients -> Nat]
    <3>1. /\ queue' = [queue EXCEPT ![c] = Tail(queue[c])]
          /\ \/ pending' = pending
             \/ pending' = [pending EXCEPT ![c] = pending[c] - Head(queue[c])]
      BY <1>4 DEF Recv
    <3>2. queue' \in [Clients -> Seq(Nat)]
      BY <3>1, <2>2, <1>t
    <3>3. pending' \in [Clients -> Nat]
      BY <3>1, <2>3, <1>t
    <3> QED  BY <3>2, <3>3
  <2>5. loop' \in [Clients -> {"recv", "send", "done"}]
    BY <1>4, <1>t DEF Recv
  <2> QED  BY <1>4, <1>t, <2>4, <2>5 DEF Recv, HubTypes
<1>5. ASSUME NEW c \in Clients, Sent(c) PROVE HubTypes'
  <2>1. owed[c] - 1 \in Nat
    BY <1>5, <1>t DEF Sent, HubInv, OwedTo, Owes
  <2> QED  BY <1>5, <1>t, <2>1 DEF Sent, HubTypes
<1>6. ASSUME NEW c \in Clients, Finish(c) PROVE HubTypes'
  BY <1>6, <1>t DEF Finish, EndHandler, HubTypes
<1>7. ASSUME NEW c \in Clients, Cancelled(c) PROVE HubTypes'
  BY <1>7, <1>t DEF Cancelled, EndHandler, Woken, Sentinel, HubTypes
<1>8. CASE Shutdown
  BY <1>8, <1>t DEF Shutdown, hubVars, HubTypes
<1>9. CASE PubSubStop
  BY <1>9, <1>t DEF PubSubStop, connVars, Woken, Sentinel, HubTypes
<1>10. CASE UNCHANGED streamVars
  BY <1>10, <1>t DEF streamVars, connVars, hubVars, HubTypes
<1> QED
  BY <1>1, <1>2, <1>3, <1>4, <1>5, <1>6, <1>7, <1>8, <1>9, <1>10 DEF StreamNext, HandlerStep

(* What is said of the hub is kept, ... *)
LEMMA HubStep ==
    ASSUME HubInv, [StreamNext]_streamVars
    PROVE  HubInv'
<1>1. HubTypes'
  BY TypeStep
<1>2. CapInv'
  BY CapStep DEF HubInv
<1>3. ASSUME NEW c \in Clients PROVE QueueOf(c)' /\ OwedTo(c)'
  <2>1. HubTypes /\ CapInv /\ QueueOf(c) /\ OwedTo(c)
    BY DEF HubInv
  <2>2. HubStepOf(c)
    BY <2>1, HubSteps
  <2> QED  BY <2>1, <2>2, QueueStep
<1> QED  BY <1>1, <1>2, <1>3 DEF HubInv

(* ...and it is what Accounted says. *)
LEMMA HubAccounted ==
    ASSUME HubInv
    PROVE  Accounted
<1>t. /\ handler \in [Clients -> {"away", "open", "ended"}]
      /\ loop \in [Clients -> {"recv", "send", "done"}]
      /\ queue \in [Clients -> Seq(Nat)] /\ pending \in [Clients -> Nat]
      /\ drops \in [Clients -> Nat] /\ owed \in [Clients -> Nat]
      /\ frames \in 0..MaxFrames /\ MaxFrames \in Nat /\ Cap \in Nat
      /\ subs = Open /\ attached = Open /\ wsCount = Cardinality(Open)
      /\ wsCount =< Cap
  BY FanoutAssumption DEF HubInv, HubTypes, CapInv, NoLeak
<1>1. subs \in SUBSET Clients /\ attached \in SUBSET Clients /\ wsCount \in 0..Cap
  <2>1. Open \in SUBSET Clients
    BY DEF Open
  <2>2. Cardinality(Open) \in Nat
    BY <2>1, FanoutAssumption, FS_Subset, FS_CardinalityType
  <2> QED  BY <1>t, <2>1, <2>2
<1>2. drops \in [Clients -> 0..MaxFrames] /\ owed \in [Clients -> 0..MaxFrames]
  <2>1. \A c \in Clients : drops[c] =< frames /\ owed[c] =< frames
    BY DEF HubInv, OwedTo, Owes
  <2>2. \A c \in Clients : drops[c] \in 0..MaxFrames /\ owed[c] \in 0..MaxFrames
    BY <1>t, <2>1
  <2> QED  BY <1>t, <2>2
<1>3. \A c \in Clients : \A i \in DOMAIN queue[c] :
         queue[c][i] \in Sizes \/ (queue[c][i] = Sentinel /\ i = Len(queue[c]))
  BY <1>t DEF HubInv, QueueOf, Sentinel
<1>4. StreamTypeOK
  BY <1>t, <1>1, <1>2, <1>3 DEF StreamTypeOK, HubInv, HubTypes
<1>5. ASSUME NEW c \in subs, loop[c] # "done"
      PROVE  owed[c] = Len(queue[c]) + drops[c] + IF loop[c] = "send" THEN 1 ELSE 0
  <2>1. c \in Clients /\ handler[c] = "open"
    BY <1>t DEF Open
  <2>2. Len(queue[c]) \in Nat /\ drops[c] \in Nat /\ loop[c] \in {"recv", "send"}
    BY <1>t, <1>5, <2>1
  <2>3. Owes("open", loop[c], Len(queue[c]), drops[c], owed[c], frames)
    BY <2>1 DEF HubInv, OwedTo
  <2> QED  BY <2>2, <2>3 DEF Owes
<1>6. ASSUME NEW c \in Clients
      PROVE  /\ pending[c] = SumTo(queue[c], Len(queue[c]))
             /\ pending[c] > Budget =>
                  Cardinality({i \in DOMAIN queue[c] : queue[c][i] # Sentinel}) = 1
  <2>1. pending[c] = SumTo(queue[c], Len(queue[c]))
    BY DEF HubInv, QueueOf
  <2>2. ASSUME pending[c] > Budget
        PROVE  {i \in DOMAIN queue[c] : queue[c][i] # 0} = {1}
    <3>1. queue[c] # << >> /\ \A i \in 1..Len(queue[c]) : queue[c][i] # 0 <=> i = 1
      BY <2>2 DEF HubInv, QueueOf
    <3>2. 1 \in 1..Len(queue[c]) /\ DOMAIN queue[c] = 1..Len(queue[c])
      BY <1>t, <3>1
    <3> QED  BY <3>1, <3>2
  <2>3. Cardinality({1}) = 1
    BY FS_Singleton
  <2> QED  BY <2>1, <2>2, <2>3 DEF Sentinel
<1> QED  BY <1>4, <1>5, <1>6 DEF Accounted

(* Whatever is published and however its connection goes on, every frame     *)
(* that FanoutHub.deliver matched to a subscriber still served was sent, is  *)
(* being sent, is queued or is counted in dropped, and pending_bytes is the  *)
(* size of what is queued, within queue_bytes or that of one oversize frame  *)
(* queued alone: for any connections, frame sizes, budget and cap.           *)
THEOREM FramesAlwaysAccounted ==
    StreamSpec => []Accounted
<1>1. StreamInit => HubInv
  BY HubInitHolds
<1>2. HubInv /\ [StreamNext]_streamVars => HubInv'
  BY HubStep
<1>3. HubInv => Accounted
  BY HubAccounted
<1> QED  BY <1>1, <1>2, <1>3, PTL DEF StreamSpec

-----------------------------------------------------------------------------
(* The broker.  A reply is sent on an open socket: nothing is in flight when *)
(* stop closes it, and nothing is taken from the pipe after that.            *)
Ended == {r \in Requests : task[r] = "end"}

BrokerInv ==
    /\ broker \in {"up", "draining", "closed"}
    /\ task \in [Requests -> {"none", "await", "reply", "end"}]
    /\ taken \in Nat /\ served \in Nat /\ dropped \in Nat
    /\ \A r \in Requests : r > taken => task[r] = "none"
    /\ broker = "closed" => Inflight = {}
    /\ served + dropped = Cardinality(Ended)

(* At first nothing was asked. *)
LEMMA BrokerInitHolds == BrokerInit => BrokerInv
<1> SUFFICES ASSUME BrokerInit PROVE BrokerInv
  OBVIOUS
<1>1. Ended = {}
  BY DEF BrokerInit, Ended
<1>2. Cardinality(Ended) = 0
  BY <1>1, FS_EmptySet
<1> QED  BY <1>2 DEF BrokerInit, BrokerInv

(* A task that ends has sent its reply or counted it as dropped. *)
LEMMA BrokerStep ==
    ASSUME BrokerInv, [BrokerNext]_brokerVars
    PROVE  BrokerInv'
<1>i. /\ broker \in {"up", "draining", "closed"}
      /\ task \in [Requests -> {"none", "await", "reply", "end"}]
      /\ taken \in Nat /\ served \in Nat /\ dropped \in Nat
      /\ \A r \in Requests : r > taken => task[r] = "none"
      /\ broker = "closed" => Inflight = {}
      /\ served + dropped = Cardinality(Ended)
  BY DEF BrokerInv
<1>f. /\ IsFiniteSet(Ended) /\ Cardinality(Ended) \in Nat
      /\ \A r \in Requests : r \in Nat
  <2>1. IsFiniteSet(Requests)
    BY BrokerAssumption, FS_Interval DEF Requests
  <2>2. Ended \in SUBSET Requests
    BY DEF Ended
  <2>3. IsFiniteSet(Ended)
    BY <2>1, <2>2, FS_Subset
  <2>4. Cardinality(Ended) \in Nat
    BY <2>3, FS_CardinalityType
  <2>5. \A r \in Requests : r \in Nat
    BY DEF Requests
  <2> QED  BY <2>3, <2>4, <2>5
<1>1. CASE RunOnce
  <2>1. /\ broker = "up" /\ taken' = taken + 1 /\ UNCHANGED <<broker, served, dropped>>
        /\ \/ task' = [task EXCEPT ![taken + 1] = "reply"]
           \/ task' = [task EXCEPT ![taken + 1] = "await"]
    BY <1>1 DEF RunOnce
  <2>2. taken + 1 \in Requests => task[taken + 1] = "none"
    BY <1>i
  <2>3. Ended' = Ended
    BY <2>1, <2>2, <1>i DEF Ended
  <2>4. task' \in [Requests -> {"none", "await", "reply", "end"}]
    BY <2>1, <1>i
  <2>5. \A r \in Requests : r > taken' => task'[r] = "none"
    BY <2>1, <1>i, <1>f
  <2> QED  BY <2>1, <2>3, <2>4, <2>5, <1>i DEF BrokerInv
<1>2. ASSUME NEW r \in Requests, HandlerDone(r) \/ HandlerTimeout(r)
      PROVE  BrokerInv'
  <2>1. /\ task[r] = "await" /\ task' = [task EXCEPT ![r] = "reply"]
        /\ UNCHANGED <<broker, taken, served, dropped>>
    BY <1>2 DEF HandlerDone, HandlerTimeout, BudgetOver
  <2>2. Ended' = Ended
    BY <2>1, <1>i DEF Ended
  <2>3. broker # "closed"
    BY <2>1, <1>i DEF Inflight
  <2>4. task' \in [Requests -> {"none", "await", "reply", "end"}]
    BY <2>1, <1>i
  <2>5. \A q \in Requests : q > taken' => task'[q] = "none"
    BY <2>1, <1>i
  <2> QED  BY <2>1, <2>2, <2>3, <2>4, <2>5, <1>i DEF BrokerInv
<1>3. ASSUME NEW r \in Requests, SendRouter(r) PROVE BrokerInv'
  <2>1. /\ task[r] = "reply" /\ task' = [task EXCEPT ![r] = "end"]
        /\ UNCHANGED <<broker, taken>>
        /\ \E o \in SendOutcomes : served' = served + o.sent /\ dropped' = dropped + o.lost
    BY <1>3 DEF SendRouter
  <2>2. broker # "closed"
    BY <2>1, <1>i DEF Inflight
  <2>3. \/ served' = served + 1 /\ dropped' = dropped
        \/ served' = served /\ dropped' = dropped + 1
    <3>1. PICK o \in SendOutcomes : served' = served + o.sent /\ dropped' = dropped + o.lost
      BY <2>1
    <3>2. (o.sent = 1 /\ o.lost = 0) \/ (o.sent = 0 /\ o.lost = 1)
      BY <2>2 DEF SendOutcomes
    <3> QED  BY <3>1, <3>2, <1>i
  <2>4. Ended' = Ended \cup {r} /\ r \notin Ended
    BY <2>1, <1>i DEF Ended
  <2>5. Cardinality(Ended') = Cardinality(Ended) + 1
    BY <2>4, <1>f, FS_AddElement
  <2>6. task' \in [Requests -> {"none", "await", "reply", "end"}]
    BY <2>1, <1>i
  <2>7. \A q \in Requests : q > taken' => task'[q] = "none"
    BY <2>1, <1>i
  <2>8. served' + dropped' = Cardinality(Ended')
    BY <2>3, <2>5, <1>i, <1>f
  <2> QED  BY <2>1, <2>2, <2>3, <2>6, <2>7, <2>8, <1>i DEF BrokerInv
<1>4. CASE StopPump \/ Stop
  <2>1. UNCHANGED <<taken, task, served, dropped>>
        /\ broker' \in {"draining", "closed"} /\ (broker' = "closed" => Inflight = {})
    BY <1>4 DEF StopPump, Stop, TasksGone
  <2>2. Ended' = Ended /\ Inflight' = Inflight
    BY <2>1 DEF Ended, Inflight
  <2> QED  BY <2>1, <2>2, <1>i DEF BrokerInv
<1>5. CASE UNCHANGED <<broker, taken, task, served, dropped>>
  <2>1. Ended' = Ended /\ Inflight' = Inflight
    BY <1>5 DEF Ended, Inflight
  <2> QED  BY <1>5, <2>1, <1>i DEF BrokerInv
<1> QED
  BY <1>1, <1>2, <1>3, <1>4, <1>5
     DEF BrokerNext, brokerVars, loopVars, Tick, Ask, Handler,
         Thread, Put, CacheGet, CacheCheck, QueryFails,
         QueryOversize, PutPop, PutUncount, PutStore,
         PutCount, PutTest, PutEvict, PutEvicted

(* Every request that messaging/broker.py has dispatched and finished with   *)
(* was answered or is counted in replies_dropped, through its stop as well,  *)
(* whatever its handlers and their timeouts do.                              *)
THEOREM NothingSilentlyDiscarded ==
    BrokerSpec => []NoSilentDiscard
<1>1. BrokerInit => BrokerInv
  BY BrokerInitHolds
<1>2. BrokerInv /\ [BrokerNext]_brokerVars => BrokerInv'
  BY BrokerStep
<1>3. BrokerInv => NoSilentDiscard
  BY DEF BrokerInv, NoSilentDiscard, Ended
<1> QED  BY <1>1, <1>2, <1>3, PTL DEF BrokerSpec

-----------------------------------------------------------------------------
(* Sums. *)
(* Sums of the same numbers are the same... *)
LEMMA SumSame ==
    ASSUME NEW n \in Nat, NEW f, NEW g, \A i \in 1..n : f[i] \in Nat /\ g[i] = f[i]
    PROVE  SumTo(g, n) = SumTo(f, n)
<1>1. /\ \A i \in 1..n : f[i] \in Nat /\ g[0 + i] = f[i]
      /\ \A i \in 1..0 : g[i] \in Nat /\ 0 \in Nat /\ 0 + n = n
  OBVIOUS
<1>2. SumTo(g, 0 + n) = SumTo(g, 0) + SumTo(f, n)
  BY <1>1, SumShift
<1>3. SumTo(g, 0) = 0 /\ SumTo(f, n) \in Nat /\ 0 + n = n
  BY SumSteps, SumNat
<1> QED  BY <1>2, <1>3

(* ...but for one of them that has changed... *)
LEMMA SumChange ==
    ASSUME NEW n \in Nat, NEW f, NEW g, NEW k \in 1..n,
           \A i \in 1..n : f[i] \in Nat /\ g[i] \in Nat /\ (i # k => g[i] = f[i])
    PROVE  /\ SumTo(g, n) + f[k] = SumTo(f, n) + g[k]
           /\ SumTo(g, n) \in Nat /\ SumTo(f, n) \in Nat /\ f[k] \in Nat /\ g[k] \in Nat
<1>0. k \in Nat /\ k - 1 \in Nat /\ n - k \in Nat /\ (k - 1) + 1 = k /\ k + (n - k) = n
  OBVIOUS
<1> DEFINE h == [i \in 1..(n - k) |-> f[k + i]]
<1>1. /\ \A i \in 1..(n - k) : h[i] \in Nat /\ f[k + i] = h[i] /\ g[k + i] = h[i]
      /\ \A i \in 1..k : f[i] \in Nat /\ g[i] \in Nat
      /\ \A i \in 1..(k - 1) : f[i] \in Nat /\ g[i] = f[i]
  OBVIOUS
<1> HIDE DEF h
<1>2. SumTo(f, k + (n - k)) = SumTo(f, k) + SumTo(h, n - k)
  BY <1>0, <1>1, SumShift
<1>3. SumTo(g, k + (n - k)) = SumTo(g, k) + SumTo(h, n - k)
  BY <1>0, <1>1, SumShift
<1>4. SumTo(g, k - 1) = SumTo(f, k - 1)
  BY <1>0, <1>1, SumSame
<1>5. SumTo(f, k) = SumTo(f, k - 1) + f[k] /\ SumTo(g, k) = SumTo(g, k - 1) + g[k]
  BY <1>0, SumSteps
<1>6. SumTo(f, k - 1) \in Nat /\ SumTo(h, n - k) \in Nat /\ f[k] \in Nat /\ g[k] \in Nat
  BY <1>0, <1>1, SumNat
<1> QED  BY <1>0, <1>2, <1>3, <1>4, <1>5, <1>6

(* ...or that is gone. *)
LEMMA SumWithout ==
    ASSUME NEW n \in Nat, NEW f, NEW g, NEW k \in 1..n,
           \A i \in 1..n : f[i] \in Nat,
           \A i \in 1..(k - 1) : g[i] = f[i],
           \A i \in 1..(n - k) : g[(k - 1) + i] = f[k + i]
    PROVE  SumTo(f, n) = SumTo(g, n - 1) + f[k] /\ SumTo(g, n - 1) \in Nat
<1>0. /\ k \in Nat /\ k - 1 \in Nat /\ n - k \in Nat /\ (k - 1) + 1 = k
      /\ k + (n - k) = n /\ (k - 1) + (n - k) = n - 1
  OBVIOUS
<1> DEFINE h == [i \in 1..(n - k) |-> f[k + i]]
<1>1. /\ \A i \in 1..(n - k) : h[i] \in Nat /\ f[k + i] = h[i] /\ g[(k - 1) + i] = h[i]
      /\ \A i \in 1..k : f[i] \in Nat
      /\ \A i \in 1..(k - 1) : f[i] \in Nat /\ g[i] = f[i] /\ g[i] \in Nat
  OBVIOUS
<1> HIDE DEF h
<1>2. SumTo(f, k + (n - k)) = SumTo(f, k) + SumTo(h, n - k)
  BY <1>0, <1>1, SumShift
<1>3. SumTo(g, (k - 1) + (n - k)) = SumTo(g, k - 1) + SumTo(h, n - k)
  BY <1>0, <1>1, SumShift
<1>4. SumTo(g, k - 1) = SumTo(f, k - 1)
  BY <1>0, <1>1, SumSame
<1>5. SumTo(f, k) = SumTo(f, k - 1) + f[k]
  BY <1>0, SumSteps
<1>6. SumTo(f, k - 1) \in Nat /\ SumTo(h, n - k) \in Nat /\ f[k] \in Nat
  BY <1>0, <1>1, SumNat
<1> QED  BY <1>0, <1>2, <1>3, <1>4, <1>5, <1>6

-----------------------------------------------------------------------------
(* The query cache.                                                         *)
(*                                                                           *)
(* Its weight is a sum over entries and what the threads have still to count *)
(* a sum over requests; a step changes one term of each.  Where no two       *)
(* operations on one key overlap, an entry that a thread has read is the one *)
(* it deletes, and a key whose entry it popped stays out until it stores.    *)

(* A cache: entries, each of a key of its own. *)
CacheOK(c) ==
    c \in Seq(Entry) /\ \A i, j \in 1..Len(c) : c[i].key = c[j].key => i = j

(* Entries weigh their rows, and the absent one nothing. *)
LEMMA EntryFacts ==
    /\ NoEntry \in Entry /\ NoEntry.rows = 0
    /\ \A e \in Entry : e.rows \in Nat
    /\ \A k \in Keys, t \in 0..MaxClock, n \in Nat :
          LET e == [key |-> k, ts |-> t, rows |-> n]
          IN  e \in Entry /\ e.key = k /\ e.rows = n
BY BrokerAssumption DEF Entry, NoEntry, NoKey

(* What a cache weighs: nothing when empty, ... *)
LEMMA WeighNat ==
    ASSUME NEW c \in Seq(Entry)
    PROVE  Weigh(c) \in Nat /\ (c = << >> => Weigh(c) = 0)
<1> DEFINE f == [i \in DOMAIN c |-> c[i].rows]
<1>1. /\ Len(c) \in Nat /\ \A i \in 1..Len(c) : f[i] \in Nat
      /\ c = << >> => Len(c) = 0
  BY EntryFacts
<1> HIDE DEF f
<1>2. SumTo(f, Len(c)) \in Nat /\ SumTo(f, 0) = 0
  BY <1>1, SumNat, SumSteps
<1> QED  BY <1>1, <1>2 DEF Weigh, f

(* An entry more. *)
LEMMA WeighAppend ==
    ASSUME NEW c \in Seq(Entry), NEW e \in Entry
    PROVE  Weigh(Append(c, e)) = Weigh(c) + e.rows
<1> DEFINE d == Append(c, e)
           f == [i \in DOMAIN c |-> c[i].rows]
           g == [i \in DOMAIN d |-> d[i].rows]
<1>1. /\ Len(c) \in Nat /\ Len(d) = Len(c) + 1 /\ g[Len(c) + 1] = e.rows
      /\ \A i \in 1..Len(c) : f[i] \in Nat /\ g[i] = f[i]
  BY EntryFacts
<1>2. Weigh(d) = SumTo(g, Len(d)) /\ Weigh(c) = SumTo(f, Len(c))
  BY DEF Weigh
<1> HIDE DEF d, f, g
<1>3. SumTo(g, Len(c)) = SumTo(f, Len(c))
  BY <1>1, SumSame
<1>4. SumTo(g, Len(c) + 1) = SumTo(g, Len(c)) + g[Len(c) + 1]
  BY <1>1, SumSteps
<1>5. Weigh(d) = Weigh(c) + e.rows
  BY <1>1, <1>2, <1>3, <1>4
<1> QED  BY <1>5 DEF d

(* An entry less. *)
LEMMA RemoveFacts ==
    ASSUME NEW c \in Seq(Entry), NEW p \in 1..Len(c)
    PROVE  /\ RemoveAt(c, p) \in Seq(Entry) /\ Len(RemoveAt(c, p)) = Len(c) - 1
           /\ \A i \in 1..(Len(c) - 1) :
                 RemoveAt(c, p)[i] = c[IF i < p THEN i ELSE i + 1]
<1>0. Len(c) \in Nat /\ p \in Nat
  OBVIOUS
<1> DEFINE a == SubSeq(c, 1, p - 1)
           b == SubSeq(c, p + 1, Len(c))
<1>1. /\ a \in Seq(Entry) /\ Len(a) = p - 1 /\ \A i \in 1..(p - 1) : a[i] = c[i]
      /\ b \in Seq(Entry) /\ Len(b) = Len(c) - p /\ \A i \in 1..(Len(c) - p) : b[i] = c[p + i]
  BY <1>0
<1>2. RemoveAt(c, p) = a \o b
  BY DEF RemoveAt
<1> HIDE DEF a, b
<1>3. a \o b \in Seq(Entry) /\ Len(a \o b) = Len(a) + Len(b)
      /\ \A i \in 1..(Len(a) + Len(b)) : (a \o b)[i] = IF i <= Len(a) THEN a[i] ELSE b[i - Len(a)]
  BY <1>1, ConcatProperties
<1>4. ASSUME NEW i \in 1..(Len(c) - 1)
      PROVE  (a \o b)[i] = c[IF i < p THEN i ELSE i + 1]
  <2>1. CASE i < p
    <3>1. i \in 1..(Len(a) + Len(b)) /\ i <= Len(a) /\ i \in 1..(p - 1)
      BY <1>0, <1>1, <2>1
    <3> QED  BY <1>1, <1>3, <2>1, <3>1
  <2>2. CASE ~(i < p)
    <3>1. /\ i \in 1..(Len(a) + Len(b)) /\ ~(i <= Len(a))
          /\ i - Len(a) \in 1..(Len(c) - p) /\ p + (i - Len(a)) = i + 1
      BY <1>0, <1>1, <2>2
    <3> QED  BY <1>1, <1>3, <2>2, <3>1
  <2> QED  BY <2>1, <2>2
<1>5. Len(a) + Len(b) = Len(c) - 1
  BY <1>0, <1>1
<1> QED  BY <1>2, <1>3, <1>4, <1>5

(* ...and its weight with it. *)
LEMMA WeighRemove ==
    ASSUME NEW c \in Seq(Entry), NEW p \in 1..Len(c)
    PROVE  Weigh(c) = Weigh(RemoveAt(c, p)) + c[p].rows
<1> DEFINE d == RemoveAt(c, p)
           n == Len(c)
           f == [i \in DOMAIN c |-> c[i].rows]
           g == [i \in DOMAIN d |-> d[i].rows]
<1>1. /\ n \in Nat /\ p \in 1..n /\ f[p] = c[p].rows
      /\ \A i \in 1..n : f[i] \in Nat /\ f[i] = c[i].rows
  BY EntryFacts
<1>2. /\ Len(d) = n - 1 /\ DOMAIN d = 1..(n - 1)
      /\ \A i \in 1..(n - 1) : d[i] = c[IF i < p THEN i ELSE i + 1]
  BY RemoveFacts
<1>3. Weigh(d) = SumTo(g, Len(d)) /\ Weigh(c) = SumTo(f, n)
  BY DEF Weigh
<1>4. \A i \in 1..(n - 1) : g[i] = d[i].rows
  BY <1>2
<1> HIDE DEF d, n, f, g
<1>5. \A i \in 1..(p - 1) : g[i] = f[i]
  <2> TAKE i \in 1..(p - 1)
  <2>1. i \in 1..(n - 1) /\ i < p /\ i \in 1..n
    BY <1>1
  <2> QED  BY <1>1, <1>2, <1>4, <2>1
<1>6. \A i \in 1..(n - p) : g[(p - 1) + i] = f[p + i]
  <2> TAKE i \in 1..(n - p)
  <2>1. /\ (p - 1) + i \in 1..(n - 1) /\ ~((p - 1) + i < p) /\ p + i \in 1..n
        /\ ((p - 1) + i) + 1 = p + i
    BY <1>1
  <2> QED  BY <1>1, <1>2, <1>4, <2>1
<1>7. SumTo(f, n) = SumTo(g, n - 1) + f[p]
  <2>1. /\ n \in Nat /\ p \in 1..n
        /\ \A i \in 1..n : f[i] \in Nat
        /\ \A i \in 1..(p - 1) : g[i] = f[i]
        /\ \A i \in 1..(n - p) : g[(p - 1) + i] = f[p + i]
    BY <1>1, <1>5, <1>6
  <2>2. SumTo(f, n) = SumTo(g, n - 1) + f[p] /\ SumTo(g, n - 1) \in Nat
    BY <2>1, SumWithout
  <2> QED  BY <2>2
<1> QED  BY <1>1, <1>2, <1>3, <1>7 DEF d

(* Without takes out the entry of its key, ... *)
LEMMA CacheWithout ==
    ASSUME CacheOK(cache), NEW k
    PROVE  /\ CacheOK(Without(k)) /\ Len(Without(k)) =< Len(cache)
           /\ \A i \in 1..Len(Without(k)) :
                 Without(k)[i].key # k /\ \E j \in 1..Len(cache) : Without(k)[i] = cache[j]
           /\ ~Has(k) => Without(k) = cache
           /\ Has(k) => /\ Lookup(k) \in Entry /\ Lookup(k).key = k
                        /\ \E j \in 1..Len(cache) : Lookup(k) = cache[j]
                        /\ Len(Without(k)) < Len(cache)
                        /\ Weigh(cache) = Weigh(Without(k)) + Lookup(k).rows
<1>0. /\ cache \in Seq(Entry) /\ Len(cache) \in Nat /\ DOMAIN cache = 1..Len(cache)
      /\ \A i \in 1..Len(cache) : cache[i] \in Entry
      /\ \A i, j \in 1..Len(cache) : cache[i].key = cache[j].key => i = j
  BY DEF CacheOK
<1>1. CASE ~Has(k)
  BY <1>0, <1>1 DEF Without, Has, CacheOK
<1>2. CASE Has(k)
  <2> DEFINE p == Place(k)
             w == RemoveAt(cache, p)
  <2>1. p \in 1..Len(cache) /\ cache[p].key = k /\ Lookup(k) = cache[p]
    BY <1>0, <1>2 DEF Has, Place, Lookup
  <2>2. Without(k) = w
    BY <1>2 DEF Without
  <2> HIDE DEF p
  <2>3. /\ w \in Seq(Entry) /\ Len(w) = Len(cache) - 1
        /\ \A i \in 1..(Len(cache) - 1) : w[i] = cache[IF i < p THEN i ELSE i + 1]
        /\ Weigh(cache) = Weigh(w) + cache[p].rows
    BY <1>0, <2>1, RemoveFacts, WeighRemove
  <2> HIDE DEF w
  <2>4. ASSUME NEW i \in 1..Len(w)
        PROVE  \E j \in 1..Len(cache) : w[i] = cache[j] /\ j # p /\ j = IF i < p THEN i ELSE i + 1
    <3>1. i \in 1..(Len(cache) - 1)
      BY <2>3
    <3>2. CASE i < p
      BY <1>0, <2>1, <2>3, <3>1, <3>2
    <3>3. CASE ~(i < p)
      <4>1. i + 1 \in 1..Len(cache) /\ i + 1 # p /\ w[i] = cache[i + 1]
        BY <1>0, <2>1, <2>3, <3>1, <3>3
      <4> QED  BY <3>3, <4>1
    <3> QED  BY <3>2, <3>3
  <2>5. \A i \in 1..Len(w) : w[i].key # k /\ \E j \in 1..Len(cache) : w[i] = cache[j]
    BY <1>0, <2>1, <2>4
  <2>6. ASSUME NEW i \in 1..Len(w), NEW j \in 1..Len(w), w[i].key = w[j].key
        PROVE  i = j
    <3>1. PICK x \in 1..Len(cache) : w[i] = cache[x] /\ x = IF i < p THEN i ELSE i + 1
      BY <2>4
    <3>2. PICK y \in 1..Len(cache) : w[j] = cache[y] /\ y = IF j < p THEN j ELSE j + 1
      BY <2>4
    <3>3. x = y
      BY <1>0, <3>1, <3>2, <2>6
    <3>4. i \in Int /\ j \in Int /\ p \in Int
      BY <2>1
    <3> QED  BY <3>1, <3>2, <3>3, <3>4
  <2>7. CacheOK(w) /\ Len(w) =< Len(cache)
    BY <1>0, <2>3, <2>6 DEF CacheOK
  <2> QED  BY <1>0, <1>2, <2>1, <2>2, <2>3, <2>5, <2>7
<1> QED  BY <1>1, <1>2

(* ...a new key's entry is appended, ... *)
LEMMA CacheAppend ==
    ASSUME NEW c, CacheOK(c), NEW e \in Entry, \A i \in 1..Len(c) : c[i].key # e.key
    PROVE  /\ CacheOK(Append(c, e))
           /\ \A i \in 1..Len(Append(c, e)) :
                 Append(c, e)[i] = e \/ \E j \in 1..Len(c) : Append(c, e)[i] = c[j]
           /\ Weigh(Append(c, e)) = Weigh(c) + e.rows
<1> DEFINE d == Append(c, e)
<1>1. c \in Seq(Entry) /\ Len(c) \in Nat
  BY DEF CacheOK
<1>2. /\ d \in Seq(Entry) /\ Len(d) = Len(c) + 1 /\ d[Len(c) + 1] = e
      /\ \A i \in 1..Len(c) : d[i] = c[i]
  BY <1>1
<1>3. Weigh(d) = Weigh(c) + e.rows
  BY <1>1, WeighAppend
<1> HIDE DEF d
<1>4. \A i \in 1..Len(d) : i = Len(c) + 1 \/ i \in 1..Len(c)
  BY <1>1, <1>2
<1>5. \A i, j \in 1..Len(d) : d[i].key = d[j].key => i = j
  BY <1>2, <1>4 DEF CacheOK
<1>6. \A i \in 1..Len(d) : d[i] = e \/ \E j \in 1..Len(c) : d[i] = c[j]
  BY <1>2, <1>4
<1>7. CacheOK(d)
  BY <1>2, <1>5 DEF CacheOK
<1> QED  BY <1>3, <1>6, <1>7 DEF d

(* ...and the first one is taken away. *)
LEMMA CacheTail ==
    ASSUME NEW c, CacheOK(c), c # << >>
    PROVE  /\ CacheOK(Tail(c)) /\ Head(c) \in Entry /\ Len(Tail(c)) =< Len(c)
           /\ \A i \in 1..Len(Tail(c)) : \E j \in 1..Len(c) : Tail(c)[i] = c[j]
           /\ Weigh(c) = Weigh(Tail(c)) + Head(c).rows
<1> DEFINE d == Tail(c)
<1>1. c \in Seq(Entry) /\ Len(c) \in Nat /\ 1 \in 1..Len(c) /\ Head(c) = c[1] /\ c[1] \in Entry
  BY DEF CacheOK
<1>2. /\ d \in Seq(Entry) /\ Len(d) = Len(c) - 1
      /\ \A i \in 1..Len(d) : d[i] = c[i + 1] /\ i + 1 \in 1..Len(c)
  BY <1>1
<1>3. d = RemoveAt(c, 1)
  <2>1. /\ RemoveAt(c, 1) \in Seq(Entry) /\ Len(RemoveAt(c, 1)) = Len(c) - 1
        /\ \A i \in 1..(Len(c) - 1) : RemoveAt(c, 1)[i] = c[IF i < 1 THEN i ELSE i + 1]
    BY <1>1, RemoveFacts
  <2>2. \A i \in 1..Len(d) : d[i] = RemoveAt(c, 1)[i]
    BY <1>2, <2>1
  <2> QED  BY <1>2, <2>1, <2>2, SeqEqual
<1>4. Weigh(c) = Weigh(d) + c[1].rows
  BY <1>1, <1>3, WeighRemove
<1> HIDE DEF d
<1>5. \A i, j \in 1..Len(d) : d[i].key = d[j].key => i = j
  BY <1>1, <1>2 DEF CacheOK
<1>6. CacheOK(d) /\ Len(d) =< Len(c) /\ \A i \in 1..Len(d) : \E j \in 1..Len(c) : d[i] = c[j]
  BY <1>1, <1>2, <1>5 DEF CacheOK
<1> QED  BY <1>1, <1>4, <1>6 DEF d
-----------------------------------------------------------------------------
(* The cache.  Who runs where, ... *)
Idle == {"none", "queued", "done"}
Late == {"stored", "test", "evict", "evicted"}
Stages == Idle \cup Late \cup {"found", "query", "popped", "timed"}

CacheTypes ==
    /\ now \in 0..MaxClock
    /\ key \in Seq(Keys \cup {Malformed}) /\ Len(key) =< MaxRequests
    /\ taken \in 0..Len(key)
    /\ thread \in [Requests -> Stages]
    /\ ent \in [Requests -> Entry] /\ rows \in [Requests -> Nat]
    /\ CacheOK(cache) /\ weight \in Int /\ overlap \in {"no", "yes"}

(* ...with what: a thread runs for a request that was taken and has a key,   *)
(* and what it is about to store is the new entry.                           *)
ThreadOf(r) ==
    /\ thread[r] # "none" => r =< taken /\ key[r] \in Keys
    /\ thread[r] = "timed" => ent[r].key = key[r] /\ ent[r].rows = rows[r]

(* Without overlaps a key has one thread inside get or put, ... *)
Apart ==
    \A r, s \in Requests : Mid(thread[r]) /\ Mid(thread[s]) /\ key[r] = key[s] => r = s

(* ...what that one has read is what the cache holds, if it still does, and  *)
(* what it has popped stays out until it stores, ...                         *)
ReadOf(r) ==
    /\ thread[r] = "found" =>
          \A i \in 1..Len(cache) : cache[i].key = key[r] => cache[i] = ent[r]
    /\ thread[r] \in {"popped", "timed"} => \A i \in 1..Len(cache) : cache[i].key # key[r]

(* ...the weight is what is stored but for what is on its way, ... *)
Balance == weight + SumTo(ToCount, MaxRequests) = Weigh(cache) + SumTo(ToUncount, MaxRequests)

(* ...and beyond its bounds the cache has a put that will evict. *)
Bounded ==
    \/ \E r \in Requests : thread[r] \in Late
    \/ Len(cache) =< MaxSize /\ Weigh(cache) =< MaxWeight

CacheInv ==
    /\ CacheTypes
    /\ \A r \in Requests : ThreadOf(r)
    /\ overlap = "no" => Apart /\ (\A r \in Requests : ReadOf(r)) /\ Balance /\ Bounded

(* What one thread has still to count. *)
CountOf(pc, n)   == IF pc = "stored" THEN n ELSE 0
UncountOf(pc, e) == IF pc \in {"popped", "evicted"} THEN e.rows ELSE 0

(* Thread r goes on to pc with e and n. *)
Moved(r, pc, e, n) ==
    /\ Goto(r, pc)
    /\ ent' = [ent EXCEPT ![r] = e] /\ rows' = [rows EXCEPT ![r] = n]
    /\ UNCHANGED <<now, key, taken>>

(* The threads' sums are natural numbers, and nothing is to be counted when  *)
(* nobody is past storing.                                                   *)
LEMMA ThreadSums ==
    ASSUME thread \in [Requests -> Stages], ent \in [Requests -> Entry],
           rows \in [Requests -> Nat]
    PROVE  /\ SumTo(ToCount, MaxRequests) \in Nat /\ SumTo(ToUncount, MaxRequests) \in Nat
           /\ \A i \in 1..MaxRequests :
                 ToCount[i] = CountOf(thread[i], rows[i]) /\ ToCount[i] \in Nat
           /\ \A i \in 1..MaxRequests :
                 ToUncount[i] = UncountOf(thread[i], ent[i]) /\ ToUncount[i] \in Nat
           /\ (\A r \in Requests : thread[r] \notin Late) => SumTo(ToCount, MaxRequests) = 0
<1>1. MaxRequests \in Nat /\ Requests = 1..MaxRequests
  BY BrokerAssumption DEF Requests
<1>2. \A i \in 1..MaxRequests : ToCount[i] = CountOf(thread[i], rows[i]) /\ ToCount[i] \in Nat
  BY <1>1 DEF ToCount, CountOf
<1>3. \A i \in 1..MaxRequests :
         ToUncount[i] = UncountOf(thread[i], ent[i]) /\ ToUncount[i] \in Nat
  BY <1>1, EntryFacts DEF ToUncount, UncountOf
<1>4. SumTo(ToCount, MaxRequests) \in Nat /\ SumTo(ToUncount, MaxRequests) \in Nat
  BY <1>1, <1>2, <1>3, SumNat
<1>5. ASSUME \A r \in Requests : thread[r] \notin Late PROVE SumTo(ToCount, MaxRequests) = 0
  <2>1. \A i \in 1..MaxRequests : ToCount[i] = 0
    BY <1>1, <1>2, <1>5 DEF Late, CountOf
  <2> QED  BY <1>1, <2>1, SumZero
<1> QED  BY <1>2, <1>3, <1>4, <1>5

(* A thread's step keeps the balance when what it does to the weight and to  *)
(* the cache balances what it has still to count.                            *)
LEMMA BalanceStep ==
    ASSUME CacheTypes, CacheTypes', NEW r \in Requests, NEW pc, NEW e, NEW n, Moved(r, pc, e, n),
           Balance,
           weight' + CountOf(pc, n) + Weigh(cache) + UncountOf(thread[r], ent[r])
             = weight + CountOf(thread[r], rows[r]) + Weigh(cache') + UncountOf(pc, e)
    PROVE  Balance'
<1>0. MaxRequests \in Nat /\ Requests = 1..MaxRequests /\ r \in 1..MaxRequests
  BY BrokerAssumption DEF Requests
<1>t. /\ thread \in [Requests -> Stages] /\ ent \in [Requests -> Entry]
      /\ rows \in [Requests -> Nat] /\ weight \in Int /\ cache \in Seq(Entry)
  BY DEF CacheTypes, CacheOK
<1>u. /\ thread' \in [Requests -> Stages] /\ ent' \in [Requests -> Entry]
      /\ rows' \in [Requests -> Nat] /\ weight' \in Int /\ cache' \in Seq(Entry)
  BY DEF CacheTypes, CacheOK
<1>1. /\ thread' = [thread EXCEPT ![r] = pc] /\ ent' = [ent EXCEPT ![r] = e]
      /\ rows' = [rows EXCEPT ![r] = n]
  BY DEF Moved, Goto
<1>2. /\ \A i \in 1..MaxRequests :
            ToCount[i] = CountOf(thread[i], rows[i]) /\ ToCount[i] \in Nat
      /\ \A i \in 1..MaxRequests :
            ToUncount[i] = UncountOf(thread[i], ent[i]) /\ ToUncount[i] \in Nat
  BY <1>t, ThreadSums
<1> DEFINE g == [i \in Requests |-> CountOf(thread'[i], rows'[i])]
           y == [i \in Requests |-> UncountOf(thread'[i], ent'[i])]
<1>3. ToCount' = g /\ ToUncount' = y
  BY DEF ToCount, ToUncount, CountOf, UncountOf
<1>4. \A i \in 1..MaxRequests : ent'[i].rows \in Nat /\ rows'[i] \in Nat
  <2>1. \A i \in 1..MaxRequests : ent'[i] \in Entry /\ rows'[i] \in Nat
    BY <1>0, <1>u
  <2> QED  BY <2>1, EntryFacts
<1>5. \A i \in 1..MaxRequests :
         /\ i # r => thread'[i] = thread[i] /\ ent'[i] = ent[i] /\ rows'[i] = rows[i]
         /\ i = r => thread'[i] = pc /\ ent'[i] = e /\ rows'[i] = n
  BY <1>0, <1>1, <1>t
<1>6. /\ \A i \in 1..MaxRequests : ToCount[i] \in Nat /\ g[i] \in Nat /\ (i # r => g[i] = ToCount[i])
      /\ ToCount[r] = CountOf(thread[r], rows[r]) /\ g[r] = CountOf(pc, n)
  BY <1>0, <1>2, <1>4, <1>5 DEF CountOf
<1>7. /\ \A i \in 1..MaxRequests :
            ToUncount[i] \in Nat /\ y[i] \in Nat /\ (i # r => y[i] = ToUncount[i])
      /\ ToUncount[r] = UncountOf(thread[r], ent[r]) /\ y[r] = UncountOf(pc, e)
  BY <1>0, <1>2, <1>4, <1>5 DEF UncountOf
<1> HIDE DEF g, y
<1>8. Weigh(cache) \in Nat /\ Weigh(cache') \in Nat
  BY <1>t, <1>u, WeighNat
<1>9. weight + SumTo(ToCount, MaxRequests) = Weigh(cache) + SumTo(ToUncount, MaxRequests)
  BY DEF Balance
<1>10. weight' + g[r] + Weigh(cache) + ToUncount[r] = weight + ToCount[r] + Weigh(cache') + y[r]
  BY <1>6, <1>7
<1>11. weight' + SumTo(g, MaxRequests) = Weigh(cache') + SumTo(y, MaxRequests)
  <2> DEFINE f == ToCount  x == ToUncount  m == MaxRequests
             w == weight   v == weight'    c == Weigh(cache)  d == Weigh(cache')
  <2>1. /\ m \in Nat /\ r \in 1..m /\ w \in Int /\ v \in Int /\ c \in Nat /\ d \in Nat
        /\ \A i \in 1..m : f[i] \in Nat /\ g[i] \in Nat /\ (i # r => g[i] = f[i])
        /\ \A i \in 1..m : x[i] \in Nat /\ y[i] \in Nat /\ (i # r => y[i] = x[i])
        /\ w + SumTo(f, m) = c + SumTo(x, m)
        /\ v + g[r] + c + x[r] = w + f[r] + d + y[r]
    BY <1>0, <1>t, <1>u, <1>6, <1>7, <1>8, <1>9, <1>10
  <2> HIDE DEF f, x, m, w, v, c, d
  <2>x. /\ m \in Nat /\ r \in 1..m
        /\ \A i \in 1..m : x[i] \in Nat /\ y[i] \in Nat /\ (i # r => y[i] = x[i])
    BY <2>1
  <2>2. /\ SumTo(g, m) + f[r] = SumTo(f, m) + g[r]
        /\ SumTo(g, m) \in Nat /\ SumTo(f, m) \in Nat /\ f[r] \in Nat /\ g[r] \in Nat
    BY <2>1, SumChange
  <2>3. /\ SumTo(y, m) + x[r] = SumTo(x, m) + y[r]
        /\ SumTo(y, m) \in Nat /\ SumTo(x, m) \in Nat /\ x[r] \in Nat /\ y[r] \in Nat
    BY <2>x, SumChange
  <2> DEFINE F == SumTo(f, m)  G == SumTo(g, m)  X == SumTo(x, m)  Y == SumTo(y, m)
             a == f[r]         b == g[r]         p == x[r]         q == y[r]
  <2>4. /\ F \in Int /\ G \in Int /\ X \in Int /\ Y \in Int /\ c \in Int /\ d \in Int
        /\ w \in Int /\ v \in Int /\ a \in Int /\ b \in Int /\ p \in Int /\ q \in Int
        /\ G + a = F + b /\ Y + p = X + q /\ w + F = c + X /\ v + b + c + p = w + a + d + q
    BY <2>1, <2>2, <2>3
  <2> SUFFICES v + G = d + Y
    BY DEF m, v, d
  <2> HIDE DEF F, G, X, Y, a, b, p, q
  <2>5. G = F + b - a /\ Y = X + q - p /\ F = c + X - w /\ v = w + a + d + q - b - c - p
    BY <2>4
  <2> QED  BY <2>4, <2>5
<1> QED  BY <1>3, <1>11 DEF Balance

(* What a thread's step does to the cache: it brings in nothing but what it  *)
(* stores for its own key...                                                 *)
NewOnly(r) ==
    \A i \in 1..Len(cache') :
        \/ \E j \in 1..Len(cache) : cache'[i] = cache[j]
        \/ thread[r] = "timed" /\ cache'[i].key = key[r]

(* ...it holds what it has read or taken out, ... *)
Holds(r, pc, e) ==
    /\ pc = "found" => \A i \in 1..Len(cache') : cache'[i].key = key[r] => cache'[i] = e
    /\ pc \in {"popped", "timed"} => \A i \in 1..Len(cache') : cache'[i].key # key[r]

(* ...it keeps the balance... *)
Balanced(r, pc, e, n) ==
    weight' + CountOf(pc, n) + Weigh(cache) + UncountOf(thread[r], ent[r])
      = weight + CountOf(thread[r], rows[r]) + Weigh(cache') + UncountOf(pc, e)

(* ...and leaves the cache no fuller, or within its bounds, or goes on to    *)
(* evict.                                                                    *)
StaysBounded(r, pc) ==
    \/ pc \in Late
    \/ thread[r] \notin Late /\ Len(cache') =< Len(cache) /\ Weigh(cache') =< Weigh(cache)
    \/ cache' = << >>
    \/ Len(cache') =< MaxSize /\ weight' =< MaxWeight

(* Such a step preserves the invariant. *)
LEMMA MoveInv ==
    ASSUME CacheInv, NEW r \in Requests, thread[r] # "none",
           NEW pc \in Stages, NEW e \in Entry, NEW n \in Nat, Moved(r, pc, e, n),
           CacheOK(cache'), weight' \in Int,
           pc = "timed" => e.key = key[r] /\ e.rows = n,
           overlap = "no" => NewOnly(r) /\ Holds(r, pc, e) /\ Balanced(r, pc, e, n) /\ StaysBounded(r, pc)
    PROVE  CacheInv'
<1>0. /\ CacheTypes /\ \A s \in Requests : ThreadOf(s)
      /\ overlap = "no" => Apart /\ (\A s \in Requests : ReadOf(s)) /\ Balance /\ Bounded
  BY DEF CacheInv
<1>t. /\ thread \in [Requests -> Stages] /\ ent \in [Requests -> Entry]
      /\ rows \in [Requests -> Nat] /\ overlap \in {"no", "yes"}
  BY <1>0 DEF CacheTypes
<1>1. /\ thread' = [thread EXCEPT ![r] = pc] /\ ent' = [ent EXCEPT ![r] = e]
      /\ rows' = [rows EXCEPT ![r] = n] /\ now' = now /\ key' = key /\ taken' = taken
      /\ overlap' = IF Mid(pc) /\ \E s \in Requests \ {r} : Mid(thread[s]) /\ key[s] = key[r]
                    THEN "yes" ELSE overlap
  BY DEF Moved, Goto
<1>2. \A s \in Requests :
         /\ s # r => thread'[s] = thread[s] /\ ent'[s] = ent[s] /\ rows'[s] = rows[s]
         /\ s = r => thread'[s] = pc /\ ent'[s] = e /\ rows'[s] = n
  BY <1>1, <1>t
<1>3. CacheTypes'
  <2>1. thread' \in [Requests -> Stages] /\ ent' \in [Requests -> Entry] /\ rows' \in [Requests -> Nat]
    BY <1>1, <1>t
  <2>2. overlap' \in {"no", "yes"}
    BY <1>1, <1>t
  <2>3. /\ now' \in 0..MaxClock /\ key' \in Seq(Keys \cup {Malformed}) /\ Len(key') =< MaxRequests
        /\ taken' \in 0..Len(key')
    BY <1>0, <1>1 DEF CacheTypes
  <2> QED  BY <2>1, <2>2, <2>3 DEF CacheTypes, CacheOK
<1>4. \A s \in Requests : ThreadOf(s)'
  <2> TAKE s \in Requests
  <2>1. ThreadOf(s) /\ ThreadOf(r)
    BY <1>0
  <2>2. CASE s = r
    BY <1>1, <1>2, <2>1, <2>2 DEF ThreadOf
  <2>3. CASE s # r
    BY <1>1, <1>2, <2>1, <2>3 DEF ThreadOf
  <2> QED  BY <2>2, <2>3
<1>5. ASSUME overlap' = "no"
      PROVE  (Apart /\ (\A s \in Requests : ReadOf(s)) /\ Balance /\ Bounded)'
  <2>0. /\ overlap = "no"
        /\ ~(Mid(pc) /\ \E s \in Requests \ {r} : Mid(thread[s]) /\ key[s] = key[r])
    BY <1>1, <1>5
  <2>1. /\ Apart /\ (\A s \in Requests : ReadOf(s)) /\ Balance /\ Bounded
        /\ NewOnly(r) /\ Holds(r, pc, e) /\ Balanced(r, pc, e, n) /\ StaysBounded(r, pc)
    BY <1>0, <2>0
  <2>2. Apart'
    <3> SUFFICES ASSUME NEW p \in Requests, NEW q \in Requests,
                        Mid(thread'[p]), Mid(thread'[q]), key[p] = key[q], p # q
                 PROVE  FALSE
      BY <1>1 DEF Apart, Mid
    <3>1. CASE p = r
      BY <1>2, <2>0, <3>1
    <3>2. CASE q = r
      BY <1>2, <2>0, <3>2
    <3>3. CASE p # r /\ q # r
      BY <1>2, <2>1, <3>3 DEF Apart
    <3> QED  BY <3>1, <3>2, <3>3
  <2>3. ASSUME NEW s \in Requests
        PROVE  ReadOf(s)'
    <3>1. CASE s = r
      BY <1>1, <1>2, <2>1, <3>1 DEF ReadOf, Holds
    <3>2. CASE s # r
      <4>1. ASSUME Mid(thread[s]), NEW i \in 1..Len(cache'), cache'[i].key = key[s]
            PROVE  \E j \in 1..Len(cache) : cache'[i] = cache[j]
        <5>1. thread[r] = "timed" /\ cache'[i].key = key[r] => FALSE
          BY <2>1, <3>2, <4>1 DEF Apart, Mid
        <5> QED  BY <2>1, <5>1 DEF NewOnly
      <4>2. ReadOf(s) /\ thread'[s] = thread[s] /\ ent'[s] = ent[s] /\ key'[s] = key[s]
        BY <1>1, <1>2, <2>1, <3>2
      <4>3. ASSUME thread[s] = "found", NEW i \in 1..Len(cache'), cache'[i].key = key[s]
            PROVE  cache'[i] = ent[s]
        <5>1. PICK j \in 1..Len(cache) : cache'[i] = cache[j]
          BY <4>1, <4>3 DEF Mid
        <5> QED  BY <4>2, <4>3, <5>1 DEF ReadOf
      <4>4. ASSUME thread[s] \in {"popped", "timed"}, NEW i \in 1..Len(cache'), cache'[i].key = key[s]
            PROVE  FALSE
        <5>1. PICK j \in 1..Len(cache) : cache'[i] = cache[j]
          BY <4>1, <4>4 DEF Mid
        <5> QED  BY <4>2, <4>4, <5>1 DEF ReadOf
      <4> QED  BY <4>2, <4>3, <4>4 DEF ReadOf
    <3> QED  BY <3>1, <3>2
  <2>4. Balance'
    BY <1>0, <1>3, <2>1, BalanceStep DEF Balanced
  <2>5. Bounded'
    <3>1. CASE \E s \in Requests : thread'[s] \in Late
      BY <3>1 DEF Bounded
    <3>2. CASE \A s \in Requests : thread'[s] \notin Late
      <4>0. SUFFICES Len(cache') =< MaxSize /\ Weigh(cache') =< MaxWeight
        BY DEF Bounded, Weigh
      <4>1. pc \notin Late
        BY <1>2, <3>2
      <4>2. CASE thread[r] \notin Late /\ Len(cache') =< Len(cache) /\ Weigh(cache') =< Weigh(cache)
        <5>1. \A s \in Requests : thread[s] \notin Late
          BY <1>2, <3>2, <4>2
        <5>2. Len(cache) =< MaxSize /\ Weigh(cache) =< MaxWeight
          BY <2>1, <5>1 DEF Bounded
        <5>3. /\ Len(cache) \in Int /\ Len(cache') \in Int /\ MaxSize \in Int
              /\ Weigh(cache) \in Int /\ Weigh(cache') \in Int /\ MaxWeight \in Int
          BY <1>0, WeighNat, BrokerAssumption DEF CacheTypes, CacheOK
        <5> QED  BY <4>2, <5>2, <5>3
      <4>3. CASE cache' = << >>
        <5>1. Len(cache') = 0 /\ Weigh(cache') = 0
          BY <4>3, WeighNat DEF CacheOK
        <5> QED  BY <5>1, BrokerAssumption
      <4>4. CASE Len(cache') =< MaxSize /\ weight' =< MaxWeight
        <5>1. /\ SumTo(ToCount, MaxRequests)' = 0 /\ SumTo(ToUncount, MaxRequests)' \in Nat
          <6> DEFINE g == [i \in Requests |-> CountOf(thread'[i], rows'[i])]
                     y == [i \in Requests |-> UncountOf(thread'[i], ent'[i])]
          <6>1. ToCount' = g /\ ToUncount' = y
            BY DEF ToCount, ToUncount, CountOf, UncountOf
          <6>2. MaxRequests \in Nat /\ Requests = 1..MaxRequests
            BY BrokerAssumption DEF Requests
          <6>3. \A i \in 1..MaxRequests : ent'[i] \in Entry
            BY <1>3, <6>2 DEF CacheTypes
          <6>4. \A i \in 1..MaxRequests : g[i] = 0 /\ y[i] \in Nat
            BY <3>2, <6>2, <6>3, EntryFacts DEF CountOf, UncountOf, Late
          <6> HIDE DEF g, y
          <6>5. SumTo(g, MaxRequests) = 0
            BY <6>2, <6>4, SumZero
          <6>6. SumTo(y, MaxRequests) \in Nat
            BY <6>2, <6>4, SumNat
          <6> QED  BY <6>1, <6>5, <6>6
        <5>2. weight' + SumTo(ToCount, MaxRequests)' = Weigh(cache') + SumTo(ToUncount, MaxRequests)'
          BY <2>4 DEF Balance
        <5>3. Weigh(cache') \in Nat
          BY WeighNat DEF CacheOK
        <5> DEFINE u == SumTo(ToUncount, MaxRequests)'  W == Weigh(cache')
        <5>4. u \in Nat /\ W \in Nat /\ weight' + 0 = W + u
          BY <5>1, <5>2, <5>3
        <5> HIDE DEF u, W
        <5>5. W =< MaxWeight
          BY <4>4, <5>4, BrokerAssumption
        <5> QED  BY <4>4, <5>5 DEF W
      <4> QED  BY <2>1, <4>1, <4>2, <4>3, <4>4 DEF StaysBounded
    <3> QED  BY <3>1, <3>2
  <2> QED  BY <2>2, <2>3, <2>4, <2>5
<1> QED  BY <1>3, <1>4, <1>5 DEF CacheInv
-----------------------------------------------------------------------------
(* What a step of a thread may use. *)
LEMMA ThreadFacts ==
    ASSUME CacheInv, NEW r \in Requests, thread[r] # "none"
    PROVE  /\ key[r] \in Keys /\ ent[r] \in Entry /\ rows[r] \in Nat /\ ent[r].rows \in Nat
           /\ ent = [ent EXCEPT ![r] = ent[r]] /\ rows = [rows EXCEPT ![r] = rows[r]]
           /\ now \in 0..MaxClock /\ weight \in Int /\ CacheOK(cache)
           /\ Len(cache) \in Nat /\ Weigh(cache) \in Nat /\ DOMAIN cache = 1..Len(cache)
           /\ thread[r] = "timed" => ent[r].key = key[r] /\ ent[r].rows = rows[r]
           /\ overlap = "no" => ReadOf(r)
<1>1. CacheTypes /\ ThreadOf(r) /\ (overlap = "no" => ReadOf(r))
  BY DEF CacheInv
<1>2. ent[r] \in Entry /\ rows[r] \in Nat /\ ent[r].rows \in Nat
  BY <1>1, EntryFacts DEF CacheTypes
<1>3. ent = [ent EXCEPT ![r] = ent[r]] /\ rows = [rows EXCEPT ![r] = rows[r]]
  BY <1>1 DEF CacheTypes
<1>4. cache \in Seq(Entry) /\ CacheOK(cache) /\ Weigh(cache) \in Nat
  BY <1>1, WeighNat DEF CacheTypes, CacheOK
<1> QED  BY <1>1, <1>2, <1>3, <1>4 DEF CacheTypes, ThreadOf

(* A step that leaves the cache and its weight alone. *)
LEMMA QuietInv ==
    ASSUME CacheInv, NEW r \in Requests, thread[r] # "none",
           NEW pc \in Stages, NEW e \in Entry, NEW n \in Nat, Moved(r, pc, e, n),
           UNCHANGED cacheVars,
           pc \notin {"popped", "timed", "stored", "evicted"},
           thread[r] \notin {"popped", "stored", "evicted"},
           pc = "found" => \A i \in 1..Len(cache) : cache[i].key = key[r] => cache[i] = e,
           pc \in Late \/ thread[r] \notin Late \/ ~OverBound
    PROVE  CacheInv'
<1>1. cache' = cache /\ weight' = weight /\ Weigh(cache') = Weigh(cache)
  BY DEF cacheVars
<1>2. /\ CacheOK(cache) /\ weight \in Int /\ Len(cache) \in Nat /\ Weigh(cache) \in Nat
  BY ThreadFacts
<1>3. NewOnly(r) /\ Holds(r, pc, e)
  BY <1>1 DEF NewOnly, Holds
<1>4. Balanced(r, pc, e, n)
  BY <1>1, <1>2 DEF Balanced, CountOf, UncountOf
<1>5. StaysBounded(r, pc)
  BY <1>1, <1>2, BrokerAssumption DEF StaysBounded, OverBound
<1> QED  BY <1>1, <1>2, <1>3, <1>4, <1>5, MoveInv

(* get reads its entry, ... *)
LEMMA CacheGetInv ==
    ASSUME CacheInv, NEW r \in Requests, CacheGet(r)
    PROVE  CacheInv'
<1>0. thread[r] = "queued" /\ UNCHANGED <<now, loopVars, rows, cacheVars>>
  BY DEF CacheGet
<1>1. /\ ent[r] \in Entry /\ rows[r] \in Nat /\ CacheOK(cache) /\ DOMAIN cache = 1..Len(cache)
      /\ ent = [ent EXCEPT ![r] = ent[r]] /\ rows = [rows EXCEPT ![r] = rows[r]]
  BY <1>0, ThreadFacts
<1>2. CASE Has(key[r]) /\ ent' = [ent EXCEPT ![r] = Lookup(key[r])] /\ Goto(r, "found")
  <2>1. Lookup(key[r]) \in Entry
    BY <1>1, <1>2, CacheWithout
  <2>2. Moved(r, "found", Lookup(key[r]), rows[r])
    BY <1>0, <1>1, <1>2 DEF Moved, loopVars
  <2>3. \A i \in 1..Len(cache) : cache[i].key = key[r] => cache[i] = Lookup(key[r])
    <3>1. Place(key[r]) \in 1..Len(cache) /\ cache[Place(key[r])].key = key[r]
      BY <1>1, <1>2 DEF Has, Place
    <3> QED  BY <1>1, <3>1 DEF CacheOK, Lookup
  <2> QED  BY <1>0, <1>1, <2>1, <2>2, <2>3, QuietInv DEF Stages, Idle, Late
<1>3. CASE Goto(r, "query") /\ UNCHANGED ent
  <2>1. Moved(r, "query", ent[r], rows[r])
    BY <1>0, <1>1, <1>3 DEF Moved, loopVars
  <2> QED  BY <1>0, <1>1, <2>1, QuietInv DEF Stages, Idle, Late
<1> QED  BY <1>2, <1>3 DEF CacheGet

(* A handler that returns, from a step that left the cache alone. *)
LEMMA ReturnInv ==
    ASSUME CacheInv, NEW r \in Requests, Return(r), UNCHANGED <<now, loopVars, cacheVars>>,
           thread[r] \notin {"none", "popped", "stored", "evicted"},
           thread[r] \in Late => ~OverBound
    PROVE  CacheInv'
<1>1. Moved(r, "done", NoEntry, 0)
  BY DEF Return, Moved, loopVars
<1> QED  BY <1>1, EntryFacts, QuietInv DEF Stages, Idle, Late

(* ...and deletes it, moves it to the end or finds it gone; the entry it     *)
(* deletes is the one it read, so it uncounts what it takes out.             *)
LEMMA CacheCheckInv ==
    ASSUME CacheInv, NEW r \in Requests, CacheCheck(r)
    PROVE  CacheInv'
<1>0. thread[r] = "found" /\ UNCHANGED <<now, loopVars>>
  BY DEF CacheCheck
<1>1. /\ ent[r] \in Entry /\ rows[r] \in Nat /\ ent[r].rows \in Nat
      /\ CacheOK(cache) /\ DOMAIN cache = 1..Len(cache) /\ Weigh(cache) \in Nat
      /\ Len(cache) \in Nat /\ weight \in Int
      /\ ent = [ent EXCEPT ![r] = ent[r]] /\ rows = [rows EXCEPT ![r] = rows[r]]
      /\ overlap = "no" => ReadOf(r)
  BY <1>0, ThreadFacts
<1> DEFINE k == key[r]
           w == Without(k)
<1>2. CASE Return(r) /\ UNCHANGED cacheVars
  BY <1>0, <1>2, ReturnInv DEF Late
<1>w. ASSUME Has(k)
      PROVE  /\ CacheOK(w) /\ Len(w) \in Nat /\ Len(w) =< Len(cache) /\ Weigh(w) \in Nat
             /\ \A i \in 1..Len(w) : w[i].key # k /\ \E j \in 1..Len(cache) : w[i] = cache[j]
             /\ Lookup(k) \in Entry /\ Lookup(k).key = k /\ Lookup(k).rows \in Nat
             /\ \E j \in 1..Len(cache) : Lookup(k) = cache[j]
             /\ Weigh(cache) = Weigh(w) + Lookup(k).rows
  <2>1. /\ CacheOK(w) /\ Len(w) =< Len(cache)
        /\ \A i \in 1..Len(w) : w[i].key # k /\ \E j \in 1..Len(cache) : w[i] = cache[j]
        /\ Lookup(k) \in Entry /\ Lookup(k).key = k
        /\ \E j \in 1..Len(cache) : Lookup(k) = cache[j]
        /\ Weigh(cache) = Weigh(w) + Lookup(k).rows
    BY <1>1, <1>w, CacheWithout
  <2>2. w \in Seq(Entry)
    BY <2>1 DEF CacheOK
  <2>3. Len(w) \in Nat /\ Weigh(w) \in Nat /\ Lookup(k).rows \in Nat
    BY <2>1, <2>2, WeighNat, EntryFacts
  <2> QED  BY <2>1, <2>3
<1>3. CASE /\ Has(k) /\ cache' = w /\ weight' = weight - ent[r].rows
           /\ Goto(r, "query") /\ UNCHANGED <<ent, rows>>
  <2>1. Moved(r, "query", ent[r], rows[r])
    BY <1>0, <1>1, <1>3 DEF Moved, loopVars
  <2>2. CacheOK(cache') /\ weight' \in Int
    BY <1>1, <1>3, <1>w
  <2>3. ASSUME overlap = "no"
        PROVE  /\ NewOnly(r) /\ Holds(r, "query", ent[r])
               /\ Balanced(r, "query", ent[r], rows[r]) /\ StaysBounded(r, "query")
    <3>1. Lookup(k) = ent[r]
      BY <1>0, <1>1, <1>3, <1>w, <2>3 DEF ReadOf
    <3>2. NewOnly(r) /\ Holds(r, "query", ent[r])
      BY <1>3, <1>w DEF NewOnly, Holds
    <3>3. Weigh(cache) = Weigh(cache') + ent[r].rows /\ Weigh(cache') \in Nat
      BY <1>3, <1>w, <3>1
    <3>4. Balanced(r, "query", ent[r], rows[r])
      BY <1>0, <1>1, <1>3, <3>3 DEF Balanced, CountOf, UncountOf
    <3>5. StaysBounded(r, "query")
      <4>1. Len(cache') =< Len(cache) /\ Weigh(cache') =< Weigh(cache)
        BY <1>1, <1>3, <1>w, <3>3
      <4> QED  BY <1>0, <4>1 DEF StaysBounded, Late
    <3> QED  BY <3>2, <3>4, <3>5
  <2> QED  BY <1>0, <1>1, <2>1, <2>2, <2>3, MoveInv DEF Stages, Idle
<1>4. CASE /\ Has(k) /\ cache' = Append(w, Lookup(k)) /\ Return(r) /\ UNCHANGED weight
  <2>1. Moved(r, "done", NoEntry, 0)
    BY <1>0, <1>4 DEF Return, Moved, loopVars
  <2>2. /\ CacheOK(cache')
        /\ \A i \in 1..Len(cache') :
              cache'[i] = Lookup(k) \/ \E j \in 1..Len(w) : cache'[i] = w[j]
        /\ Weigh(cache') = Weigh(w) + Lookup(k).rows
    BY <1>4, <1>w, CacheAppend
  <2>3. Weigh(cache') = Weigh(cache) /\ weight' = weight
    BY <1>4, <1>w, <2>2
  <2>4. NewOnly(r) /\ Holds(r, "done", NoEntry)
    BY <1>4, <1>w, <2>2 DEF NewOnly, Holds
  <2>5. Balanced(r, "done", NoEntry, 0)
    BY <1>0, <1>1, <2>3 DEF Balanced, CountOf, UncountOf
  <2>6. StaysBounded(r, "done")
    <3>1. Len(w) < Len(cache)
      BY <1>1, <1>4, CacheWithout
    <3>2. Len(cache') = Len(w) + 1
      BY <1>4, <1>w DEF CacheOK
    <3> QED  BY <1>0, <1>1, <1>4, <1>w, <2>3, <3>1, <3>2 DEF StaysBounded, Late
  <2> QED  BY <1>0, <1>1, <2>1, <2>2, <2>3, <2>4, <2>5, <2>6, EntryFacts, MoveInv DEF Stages, Idle
<1> QED  BY <1>2, <1>3, <1>4 DEF CacheCheck

(* A query that fails or is too large for the cache. *)
LEMMA QueryEndInv ==
    ASSUME CacheInv, NEW r \in Requests, QueryFails(r) \/ QueryOversize(r)
    PROVE  CacheInv'
BY ReturnInv DEF QueryFails, QueryOversize, Late

(* put takes out the entry its key has, ... *)
LEMMA PutPopInv ==
    ASSUME CacheInv, NEW r \in Requests, PutPop(r)
    PROVE  CacheInv'
<1> DEFINE k == key[r]
           e == IF Has(k) THEN Lookup(k) ELSE NoEntry
<1>0. /\ thread[r] = "query" /\ cache' = Without(k) /\ weight' = weight /\ Goto(r, "popped")
      /\ ent' = [ent EXCEPT ![r] = e] /\ UNCHANGED <<now, loopVars>>
  BY DEF PutPop
<1>1. /\ CacheOK(cache) /\ Weigh(cache) \in Nat /\ Len(cache) \in Nat /\ weight \in Int
      /\ k \in Keys
  BY <1>0, ThreadFacts
<1>n. PICK n \in Nat : rows' = [rows EXCEPT ![r] = n]
  BY BrokerAssumption DEF PutPop, Counts
<1>2. /\ CacheOK(cache') /\ Len(cache') =< Len(cache)
      /\ \A i \in 1..Len(cache') :
            cache'[i].key # k /\ \E j \in 1..Len(cache) : cache'[i] = cache[j]
  <2> DEFINE w == Without(k)
  <2>1. /\ CacheOK(w) /\ Len(w) =< Len(cache)
        /\ \A i \in 1..Len(w) : w[i].key # k /\ \E j \in 1..Len(cache) : w[i] = cache[j]
    BY <1>1, CacheWithout
  <2>2. cache' = w
    BY <1>0
  <2> HIDE DEF w
  <2> QED  BY <2>1, <2>2
<1>3. e \in Entry /\ e.rows \in Nat /\ Weigh(cache) = Weigh(cache') + e.rows /\ Weigh(cache') \in Nat
  <2>1. Weigh(cache') \in Nat
    BY <1>2, WeighNat DEF CacheOK
  <2>2. CASE Has(k)
    BY <1>0, <1>1, <2>1, <2>2, CacheWithout, EntryFacts
  <2>3. CASE ~Has(k)
    <3>1. cache' = cache /\ e = NoEntry
      BY <1>0, <1>1, <2>3, CacheWithout
    <3> QED  BY <1>1, <3>1, EntryFacts
  <2> QED  BY <2>2, <2>3
<1> HIDE DEF e
<1>4. Moved(r, "popped", e, n)
  BY <1>0, <1>n DEF Moved, loopVars
<1>5. NewOnly(r) /\ Holds(r, "popped", e)
  BY <1>2 DEF NewOnly, Holds
<1>6. Balanced(r, "popped", e, n)
  BY <1>0, <1>1, <1>3 DEF Balanced, CountOf, UncountOf
<1>7. StaysBounded(r, "popped")
  BY <1>0, <1>1, <1>2, <1>3 DEF StaysBounded, Late
<1> QED  BY <1>0, <1>1, <1>2, <1>3, <1>4, <1>5, <1>6, <1>7, MoveInv DEF Stages

(* ...uncounts it, ... *)
LEMMA PutUncountInv ==
    ASSUME CacheInv, NEW r \in Requests, PutUncount(r)
    PROVE  CacheInv'
<1> DEFINE e == [key |-> key[r], ts |-> now, rows |-> rows[r]]
<1>0. /\ thread[r] = "popped" /\ cache' = cache /\ weight' = weight - ent[r].rows
      /\ ent' = [ent EXCEPT ![r] = e] /\ Goto(r, "timed") /\ UNCHANGED <<now, loopVars, rows>>
  BY DEF PutUncount, Uncounted
<1>1. /\ CacheOK(cache) /\ Weigh(cache) \in Nat /\ Len(cache) \in Nat /\ weight \in Int
      /\ key[r] \in Keys /\ now \in 0..MaxClock /\ rows[r] \in Nat /\ ent[r].rows \in Nat
      /\ rows = [rows EXCEPT ![r] = rows[r]] /\ (overlap = "no" => ReadOf(r))
  BY <1>0, ThreadFacts
<1>2. e \in Entry /\ e.key = key[r] /\ e.rows = rows[r]
  BY <1>1, EntryFacts
<1> HIDE DEF e
<1>3. Moved(r, "timed", e, rows[r])
  BY <1>0, <1>1 DEF Moved, loopVars
<1>4. overlap = "no" => NewOnly(r) /\ Holds(r, "timed", e)
  BY <1>0, <1>1 DEF NewOnly, Holds, ReadOf
<1>5. Balanced(r, "timed", e, rows[r])
  BY <1>0, <1>1 DEF Balanced, CountOf, UncountOf
<1>6. StaysBounded(r, "timed")
  BY <1>0, <1>1 DEF StaysBounded, Late
<1>7. weight' \in Int
  BY <1>0, <1>1
<1> QED  BY <1>0, <1>1, <1>2, <1>3, <1>4, <1>5, <1>6, <1>7, MoveInv DEF Stages

(* ...stores the new one, for a key that has none by now, ... *)
LEMMA PutStoreInv ==
    ASSUME CacheInv, NEW r \in Requests, PutStore(r)
    PROVE  CacheInv'
<1> DEFINE k == key[r]
           w == Without(k)
<1>0. /\ thread[r] = "timed" /\ cache' = Stored(ent[r]) /\ weight' = weight /\ Goto(r, "stored")
      /\ UNCHANGED <<now, loopVars, ent, rows>>
  BY DEF PutStore
<1>1. /\ CacheOK(cache) /\ Weigh(cache) \in Nat /\ weight \in Int /\ DOMAIN cache = 1..Len(cache)
      /\ ent[r] \in Entry /\ rows[r] \in Nat /\ ent[r].key = k /\ ent[r].rows = rows[r]
      /\ ent = [ent EXCEPT ![r] = ent[r]] /\ rows = [rows EXCEPT ![r] = rows[r]]
      /\ overlap = "no" => ReadOf(r)
  BY <1>0, ThreadFacts
<1>2. Moved(r, "stored", ent[r], rows[r])
  BY <1>0, <1>1 DEF Moved, loopVars
<1>3. /\ CacheOK(w) /\ (~Has(k) => w = cache)
      /\ \A i \in 1..Len(w) : w[i].key # k /\ \E j \in 1..Len(cache) : w[i] = cache[j]
  BY <1>1, CacheWithout
<1>4. cache' = Append(w, ent[r])
  BY <1>0, <1>1 DEF Stored
<1> HIDE DEF w
<1>5. /\ CacheOK(cache') /\ Weigh(cache') = Weigh(w) + rows[r]
      /\ \A i \in 1..Len(cache') : cache'[i] = ent[r] \/ \E j \in 1..Len(w) : cache'[i] = w[j]
  BY <1>1, <1>3, <1>4, CacheAppend
<1>6. NewOnly(r) /\ Holds(r, "stored", ent[r])
  <2>1. \A i \in 1..Len(cache') : cache'[i].key = k \/ \E j \in 1..Len(cache) : cache'[i] = cache[j]
    BY <1>1, <1>3, <1>5
  <2> QED  BY <1>0, <2>1 DEF NewOnly, Holds
<1>7. ASSUME overlap = "no" PROVE Balanced(r, "stored", ent[r], rows[r])
  <2>1. ~Has(k)
    BY <1>0, <1>1, <1>7 DEF ReadOf, Has
  <2>2. Weigh(cache') = Weigh(cache) + rows[r]
    BY <1>3, <1>5, <2>1
  <2> QED  BY <1>0, <1>1, <2>2 DEF Balanced, CountOf, UncountOf
<1>8. StaysBounded(r, "stored")
  BY DEF StaysBounded, Late
<1> QED  BY <1>0, <1>1, <1>2, <1>5, <1>6, <1>7, <1>8, MoveInv DEF Stages, Late

(* ...counts it; an evicted one is uncounted likewise, ... *)
LEMMA PutCountInv ==
    ASSUME CacheInv, NEW r \in Requests, PutCount(r) \/ PutEvicted(r)
    PROVE  CacheInv'
<1>0. /\ thread[r] \in {"stored", "evicted"} /\ cache' = cache /\ Goto(r, "test")
      /\ weight' = IF thread[r] = "stored" THEN weight + rows[r] ELSE weight - ent[r].rows
      /\ UNCHANGED <<now, loopVars, ent, rows>>
  BY DEF PutCount, PutEvicted
<1>1. /\ CacheOK(cache) /\ Weigh(cache) \in Nat /\ weight \in Int
      /\ ent[r] \in Entry /\ ent[r].rows \in Nat /\ rows[r] \in Nat
      /\ ent = [ent EXCEPT ![r] = ent[r]] /\ rows = [rows EXCEPT ![r] = rows[r]]
  BY <1>0, ThreadFacts
<1>2. Moved(r, "test", ent[r], rows[r])
  BY <1>0, <1>1 DEF Moved, loopVars
<1>3. NewOnly(r) /\ Holds(r, "test", ent[r]) /\ StaysBounded(r, "test")
  BY <1>0 DEF NewOnly, Holds, StaysBounded, Late
<1>4. Balanced(r, "test", ent[r], rows[r])
  BY <1>0, <1>1 DEF Balanced, CountOf, UncountOf
<1>5. weight' \in Int
  BY <1>0, <1>1
<1> QED  BY <1>0, <1>1, <1>2, <1>3, <1>4, <1>5, MoveInv DEF Stages, Late

(* ...tests the bounds, returning only within them or with nothing left, ... *)
LEMMA PutTestInv ==
    ASSUME CacheInv, NEW r \in Requests, PutTest(r)
    PROVE  CacheInv'
<1>0. thread[r] = "test" /\ UNCHANGED <<now, loopVars, cacheVars>>
  BY DEF PutTest
<1>1. CASE Goto(r, "evict") /\ UNCHANGED <<ent, rows>>
  <2>1. /\ ent[r] \in Entry /\ rows[r] \in Nat
        /\ ent = [ent EXCEPT ![r] = ent[r]] /\ rows = [rows EXCEPT ![r] = rows[r]]
    BY <1>0, ThreadFacts
  <2>2. Moved(r, "evict", ent[r], rows[r])
    BY <1>0, <1>1, <2>1 DEF Moved, loopVars
  <2> QED  BY <1>0, <2>1, <2>2, QuietInv DEF Stages, Late
<1>2. CASE ~OverBound /\ Return(r)
  BY <1>0, <1>2, ReturnInv
<1> QED  BY <1>1, <1>2 DEF PutTest

(* ...and evicts the oldest. *)
LEMMA PutEvictInv ==
    ASSUME CacheInv, NEW r \in Requests, PutEvict(r)
    PROVE  CacheInv'
<1>0. thread[r] = "evict" /\ UNCHANGED <<now, loopVars, weight>>
  BY DEF PutEvict
<1>1. /\ CacheOK(cache) /\ Weigh(cache) \in Nat /\ weight \in Int /\ rows[r] \in Nat
      /\ rows = [rows EXCEPT ![r] = rows[r]]
  BY <1>0, ThreadFacts
<1>2. CASE /\ cache # << >> /\ ent' = [ent EXCEPT ![r] = Head(cache)]
           /\ cache' = Tail(cache) /\ Goto(r, "evicted") /\ UNCHANGED rows
  <2>1. /\ CacheOK(cache') /\ Head(cache) \in Entry
        /\ \A i \in 1..Len(cache') : \E j \in 1..Len(cache) : cache'[i] = cache[j]
        /\ Weigh(cache) = Weigh(cache') + Head(cache).rows
    BY <1>1, <1>2, CacheTail
  <2>2. Weigh(cache') \in Nat /\ Head(cache).rows \in Nat
    BY <2>1, WeighNat, EntryFacts DEF CacheOK
  <2>3. Moved(r, "evicted", Head(cache), rows[r])
    BY <1>0, <1>1, <1>2 DEF Moved, loopVars
  <2>4. NewOnly(r) /\ Holds(r, "evicted", Head(cache)) /\ StaysBounded(r, "evicted")
    BY <2>1 DEF NewOnly, Holds, StaysBounded, Late
  <2>5. Balanced(r, "evicted", Head(cache), rows[r])
    BY <1>0, <1>1, <2>1, <2>2 DEF Balanced, CountOf, UncountOf
  <2> QED  BY <1>0, <1>1, <2>1, <2>3, <2>4, <2>5, MoveInv DEF Stages, Late
<1>3. CASE cache = << >> /\ Return(r) /\ UNCHANGED cache
  BY <1>0, <1>3, ReturnInv DEF OverBound, cacheVars
<1> QED  BY <1>2, <1>3 DEF PutEvict

(* Every step of a thread preserves the invariant. *)
LEMMA ThreadInv ==
    ASSUME CacheInv, NEW r \in Requests, Thread(r)
    PROVE  CacheInv'
BY CacheGetInv, CacheCheckInv, QueryEndInv, PutPopInv, PutUncountInv, PutStoreInv,
   PutCountInv, PutTestInv, PutEvictInv
   DEF Thread, Put

(* The event loop's steps leave the cache alone: they start and cancel       *)
(* handlers that are not running.                                            *)
LEMMA LoopInv ==
    ASSUME CacheInv, UNCHANGED <<ent, rows, cacheVars, overlap>>,
           now' \in 0..MaxClock,
           key' \in Seq(Keys \cup {Malformed}), Len(key') =< MaxRequests,
           \A i \in 1..Len(key) : key'[i] = key[i],
           taken' \in 0..Len(key'), taken =< taken',
           thread' \in [Requests -> Stages],
           \A s \in Requests :
              /\ thread'[s] # thread[s] => thread[s] \in Idle /\ thread'[s] \in Idle
              /\ thread'[s] # "none" => s =< taken' /\ key'[s] \in Keys
    PROVE  CacheInv'
<1>0. /\ CacheTypes /\ \A s \in Requests : ThreadOf(s)
      /\ overlap = "no" => Apart /\ (\A s \in Requests : ReadOf(s)) /\ Balance /\ Bounded
  BY DEF CacheInv
<1>1. /\ ent' = ent /\ rows' = rows /\ cache' = cache /\ weight' = weight /\ overlap' = overlap
  BY DEF cacheVars
<1>2. CacheTypes'
  BY <1>0, <1>1 DEF CacheTypes, CacheOK
<1>3. ASSUME NEW s \in Requests, thread'[s] \notin Idle
      PROVE  thread'[s] = thread[s] /\ key'[s] = key[s]
  <2>1. thread'[s] = thread[s] /\ thread[s] # "none"
    BY <1>3 DEF Idle
  <2>2. s \in 1..Len(key)
    <3>1. s =< taken /\ taken \in 0..Len(key) /\ Len(key) \in Nat /\ s \in Nat /\ 1 =< s
      BY <1>0, <2>1, BrokerAssumption DEF ThreadOf, CacheTypes, Requests
    <3> QED  BY <3>1
  <2> QED  BY <2>1, <2>2
<1>4. \A s \in Requests : ThreadOf(s)'
  <2> TAKE s \in Requests
  <2>1. ThreadOf(s)
    BY <1>0
  <2>2. thread'[s] = "timed" => ent'[s].key = key'[s] /\ ent'[s].rows = rows'[s]
    BY <1>1, <1>3, <2>1 DEF ThreadOf, Idle
  <2> QED  BY <2>2 DEF ThreadOf
<1>5. ASSUME overlap' = "no"
      PROVE  (Apart /\ (\A s \in Requests : ReadOf(s)) /\ Balance /\ Bounded)'
  <2>0. Apart /\ (\A s \in Requests : ReadOf(s)) /\ Balance /\ Bounded
    BY <1>0, <1>1, <1>5
  <2>1. Apart'
    <3> SUFFICES ASSUME NEW p \in Requests, NEW q \in Requests,
                        Mid(thread'[p]), Mid(thread'[q]), key'[p] = key'[q]
                 PROVE  p = q
      BY DEF Apart, Mid
    <3>1. thread'[p] \notin Idle /\ thread'[q] \notin Idle
      BY DEF Mid, Idle
    <3> QED  BY <1>3, <2>0, <3>1 DEF Apart
  <2>2. \A s \in Requests : ReadOf(s)'
    <3> TAKE s \in Requests
    <3>1. ReadOf(s)
      BY <2>0
    <3>2. CASE thread'[s] \in Idle
      BY <3>2 DEF ReadOf, Idle
    <3>3. CASE thread'[s] \notin Idle
      <4>1. thread'[s] = thread[s] /\ key'[s] = key[s]
        BY <1>3, <3>3
      <4> QED  BY <1>1, <3>1, <4>1 DEF ReadOf
    <3> QED  BY <3>2, <3>3
  <2>3. Balance'
    <3>1. \A s \in Requests :
             /\ (thread'[s] = "stored" <=> thread[s] = "stored")
             /\ (thread'[s] \in {"popped", "evicted"} <=> thread[s] \in {"popped", "evicted"})
      BY DEF Idle
    <3>2. ToCount' = ToCount /\ ToUncount' = ToUncount
      BY <1>1, <3>1 DEF ToCount, ToUncount
    <3>3. weight + SumTo(ToCount, MaxRequests) = Weigh(cache) + SumTo(ToUncount, MaxRequests)
      BY <2>0 DEF Balance
    <3>4. weight' + SumTo(ToCount', MaxRequests) = Weigh(cache') + SumTo(ToUncount', MaxRequests)
      BY <1>1, <3>2, <3>3
    <3> QED  BY <3>4 DEF Balance
  <2>4. Bounded'
    <3>1. CASE \E s \in Requests : thread[s] \in Late
      <4>1. PICK s \in Requests : thread[s] \in Late
        BY <3>1
      <4>2. thread'[s] \in Late
        BY <4>1 DEF Idle, Late
      <4> QED  BY <4>2 DEF Bounded
    <3>2. CASE Len(cache) =< MaxSize /\ Weigh(cache) =< MaxWeight
      BY <1>1, <3>2 DEF Bounded, Weigh
    <3> QED  BY <2>0, <3>1, <3>2 DEF Bounded
  <2> QED  BY <2>1, <2>2, <2>3, <2>4
<1> QED  BY <1>2, <1>4, <1>5 DEF CacheInv

(* Every step preserves the invariant; a request is taken before its handler *)
(* starts.                                                                   *)
LEMMA CacheStep ==
    ASSUME CacheInv, [BrokerNext]_brokerVars
    PROVE  CacheInv'
<1>t. /\ now \in 0..MaxClock /\ key \in Seq(Keys \cup {Malformed}) /\ Len(key) =< MaxRequests
      /\ taken \in 0..Len(key) /\ thread \in [Requests -> Stages] /\ Len(key) \in Nat
      /\ MaxRequests \in Nat /\ MaxClock \in Nat /\ Requests = 1..MaxRequests
      /\ \A s \in Requests : thread[s] # "none" => s =< taken /\ key[s] \in Keys
  BY BrokerAssumption DEF CacheInv, CacheTypes, ThreadOf, Requests
<1>1. CASE Tick
  <2>1. now' \in 0..MaxClock /\ UNCHANGED <<loopVars, threadVars, cacheVars, overlap>>
    BY <1>1, <1>t DEF Tick
  <2> QED  BY <1>t, <2>1, LoopInv DEF loopVars, threadVars
<1>2. CASE Ask
  <2>1. PICK k \in Keys \cup {Malformed} : key' = Append(key, k)
    BY <1>2 DEF Ask
  <2>2. /\ Len(key) < MaxRequests
        /\ UNCHANGED <<now, taken, threadVars, cacheVars, overlap>>
    BY <1>2 DEF Ask
  <2>3. /\ key' \in Seq(Keys \cup {Malformed}) /\ Len(key') = Len(key) + 1
        /\ \A i \in 1..Len(key) : key'[i] = key[i]
    BY <1>t, <2>1
  <2>4. Len(key') =< MaxRequests /\ taken' \in 0..Len(key') /\ taken =< taken'
    BY <1>t, <2>2, <2>3
  <2>5. \A s \in Requests : thread'[s] # "none" => s =< taken' /\ key'[s] \in Keys
    <3> SUFFICES ASSUME NEW s \in Requests, thread'[s] # "none"
                 PROVE  s =< taken' /\ key'[s] \in Keys
      OBVIOUS
    <3>1. s =< taken /\ key[s] \in Keys /\ taken' = taken
      BY <1>t, <2>2 DEF threadVars
    <3>2. s \in 1..Len(key)
      BY <1>t, <3>1
    <3> QED  BY <2>3, <3>1, <3>2
  <2> QED  BY <1>t, <2>2, <2>3, <2>4, <2>5, LoopInv DEF threadVars
<1>3. CASE RunOnce
  <2>0. /\ taken < Len(key) /\ taken' = taken + 1
        /\ UNCHANGED <<now, key, ent, rows, cacheVars, overlap>>
        /\ \/ UNCHANGED thread
           \/ key[taken'] # Malformed /\ thread' = [thread EXCEPT ![taken'] = "queued"]
    BY <1>3 DEF RunOnce
  <2>1. taken' \in 0..Len(key) /\ taken =< taken' /\ taken' \in Requests /\ taken' \in 1..Len(key)
    BY <1>t, <2>0
  <2>2. thread[taken'] = "none"
    <3>1. ~(taken' =< taken)
      BY <1>t, <2>0
    <3> QED  BY <1>t, <2>1, <3>1
  <2>3. CASE UNCHANGED thread
    <3>1. \A s \in Requests : thread[s] # "none" => s =< taken'
      <4> SUFFICES ASSUME NEW s \in Requests, thread[s] # "none" PROVE s =< taken'
        OBVIOUS
      <4>1. s =< taken /\ s \in Int /\ taken \in Int
        BY <1>t
      <4> QED  BY <2>0, <4>1
    <3> QED  BY <1>t, <2>0, <2>1, <2>3, <3>1, LoopInv
  <2>4. CASE key[taken'] # Malformed /\ thread' = [thread EXCEPT ![taken'] = "queued"]
    <3>1. thread' \in [Requests -> Stages]
      BY <1>t, <2>4 DEF Stages, Idle
    <3>2. key[taken'] \in Keys
      BY <1>t, <2>1, <2>4
    <3>3. \A s \in Requests :
             /\ s # taken' => thread'[s] = thread[s]
             /\ s = taken' => thread'[s] = "queued"
      BY <1>t, <2>4
    <3>4. ASSUME NEW s \in Requests
          PROVE  /\ thread'[s] # thread[s] => thread[s] \in Idle /\ thread'[s] \in Idle
                 /\ thread'[s] # "none" => s =< taken' /\ key[s] \in Keys
      <4>1. CASE s = taken'
        BY <1>t, <2>1, <2>2, <3>2, <3>3, <4>1 DEF Idle
      <4>2. CASE s # taken'
        <5>1. thread'[s] = thread[s]
          BY <3>3, <4>2
        <5>2. thread[s] # "none" => s =< taken /\ key[s] \in Keys
          BY <1>t
        <5>3. s \in Int /\ taken \in Int
          BY <1>t
        <5> QED  BY <2>0, <5>1, <5>2, <5>3
      <4> QED  BY <4>1, <4>2
    <3> QED  BY <1>t, <2>0, <2>1, <3>1, <3>4, LoopInv
  <2> QED  BY <2>0, <2>3, <2>4
<1>4. ASSUME NEW r \in Requests, HandlerTimeout(r) PROVE CacheInv'
  <2>0. /\ UNCHANGED <<now, key, taken, ent, rows, cacheVars, overlap>>
        /\ thread' = IF thread[r] = "queued" THEN [thread EXCEPT ![r] = "done"] ELSE thread
    BY <1>4 DEF HandlerTimeout
  <2>1. thread' \in [Requests -> Stages]
    BY <1>t, <2>0 DEF Stages, Idle
  <2>2. ASSUME NEW s \in Requests
        PROVE  /\ thread'[s] # thread[s] => thread[s] \in Idle /\ thread'[s] \in Idle
               /\ thread'[s] # "none" => s =< taken /\ key[s] \in Keys
    <3>1. thread'[s] = thread[s] \/ (thread[s] = "queued" /\ thread'[s] = "done")
      BY <1>t, <2>0
    <3> QED  BY <1>t, <3>1 DEF Idle
  <2> QED  BY <1>t, <2>0, <2>1, <2>2, LoopInv
<1>5. CASE UNCHANGED <<now, key, taken, threadVars, cacheVars, overlap>>
  BY <1>t, <1>5, LoopInv DEF threadVars
<1>6. ASSUME NEW r \in Requests, HandlerDone(r) \/ SendRouter(r) PROVE CacheInv'
  BY <1>5, <1>6 DEF HandlerDone, SendRouter
<1>7. CASE StopPump \/ Stop
  BY <1>5, <1>7 DEF StopPump, Stop
<1>8. CASE UNCHANGED brokerVars
  BY <1>5, <1>8 DEF brokerVars, loopVars
<1>9. ASSUME NEW r \in Requests, Handler(r) \/ Thread(r) PROVE CacheInv'
  BY <1>4, <1>6, <1>9, ThreadInv DEF Handler
<1> QED  BY <1>1, <1>2, <1>3, <1>7, <1>8, <1>9 DEF BrokerNext

(* At first the cache holds what earlier requests left and no thread runs. *)
LEMMA CacheInit == BrokerInit => CacheInv
<1> SUFFICES ASSUME BrokerInit PROVE CacheInv
  OBVIOUS
<1>0. /\ now = 0 /\ key = << >> /\ taken = 0 /\ thread = [r \in Requests |-> "none"]
      /\ ent = [r \in Requests |-> NoEntry] /\ rows = [r \in Requests |-> 0]
      /\ cache \in Warm /\ weight = Weigh(cache) /\ overlap = "no"
  BY DEF BrokerInit
<1>1. /\ \E n \in 0..MaxSize : cache \in [1..n -> [key : Keys, ts : {0}, rows : RowCounts \cup {1}]]
      /\ \A i, j \in DOMAIN cache : cache[i].key = cache[j].key => i = j
      /\ Weigh(cache) =< MaxWeight
  BY <1>0 DEF Warm
<1>2. PICK n \in 0..MaxSize : cache \in [1..n -> [key : Keys, ts : {0}, rows : RowCounts \cup {1}]]
  BY <1>1
<1>3. [key : Keys, ts : {0}, rows : RowCounts \cup {1}] \subseteq Entry
  <2>1. 0 \in 0..MaxClock /\ RowCounts \cup {1} \subseteq Nat
    BY BrokerAssumption
  <2> QED  BY <2>1 DEF Entry
<1>4. n \in Nat /\ n =< MaxSize
  BY BrokerAssumption
<1>5. cache \in Seq(Entry) /\ Len(cache) = n
  <2>1. cache \in [1..n -> Entry]
    BY <1>2, <1>3
  <2> QED  BY <1>4, <2>1
<1>6. CacheOK(cache) /\ Weigh(cache) \in Nat
  BY <1>1, <1>5, WeighNat DEF CacheOK
<1>7. CacheTypes
  <2>1. NoEntry \in Entry
    BY EntryFacts
  <2>2. thread \in [Requests -> Stages] /\ ent \in [Requests -> Entry] /\ rows \in [Requests -> Nat]
    BY <1>0, <2>1 DEF Stages, Idle
  <2>3. key \in Seq(Keys \cup {Malformed}) /\ Len(key) = 0
    BY <1>0
  <2>4. now \in 0..MaxClock /\ taken \in 0..Len(key) /\ Len(key) =< MaxRequests
    BY <1>0, <2>3, BrokerAssumption
  <2> QED  BY <1>0, <1>6, <2>2, <2>3, <2>4 DEF CacheTypes
<1>8. \A r \in Requests : thread[r] = "none"
  BY <1>0
<1>9. (\A r \in Requests : ThreadOf(r) /\ ReadOf(r)) /\ Apart
  BY <1>8 DEF ThreadOf, ReadOf, Apart, Mid
<1>10. Bounded
  BY <1>1, <1>4, <1>5 DEF Bounded
<1>11. Balance
  <2>1. MaxRequests \in Nat /\ Requests = 1..MaxRequests
    BY BrokerAssumption DEF Requests
  <2>2. \A i \in 1..MaxRequests : ToCount[i] = 0 /\ ToUncount[i] = 0
    BY <1>8, <2>1 DEF ToCount, ToUncount
  <2>3. SumTo(ToCount, MaxRequests) = 0
    BY <2>1, <2>2, SumZero
  <2>4. SumTo(ToUncount, MaxRequests) = 0
    BY <2>1, <2>2, SumZero
  <2> QED  BY <1>0, <1>6, <2>3, <2>4 DEF Balance
<1> QED  BY <1>7, <1>9, <1>10, <1>11 DEF CacheInv

(* Both invariants give the types, ... *)
LEMMA BrokerTypes ==
    ASSUME CacheInv, BrokerInv
    PROVE  BrokerTypeOK
<1>1. /\ now \in 0..MaxClock
      /\ key \in Seq(Keys \cup {Malformed}) /\ taken \in 0..Len(key) /\ taken \in Nat
      /\ thread \in [Requests -> Stages] /\ ent \in [Requests -> Entry]
      /\ rows \in [Requests -> Nat] /\ CacheOK(cache) /\ weight \in Int
      /\ overlap \in {"no", "yes"}
  BY DEF CacheInv, CacheTypes
<1>2. /\ task \in [Requests -> {"none", "await", "reply", "end"}]
      /\ served \in Nat /\ dropped \in Nat /\ served + dropped = Cardinality(Ended)
      /\ \A r \in Requests : r > taken => task[r] = "none"
      /\ broker \in {"up", "draining", "closed"}
  BY DEF BrokerInv
<1>3. served \in 0..taken /\ dropped \in 0..taken
  <2>1. Ended \subseteq 1..taken
    BY <1>1, <1>2, BrokerAssumption DEF Ended, Requests
  <2>2. IsFiniteSet(1..taken) /\ Cardinality(1..taken) = taken
    BY <1>1, FS_Interval
  <2>3. IsFiniteSet(Ended) /\ Cardinality(Ended) =< taken
    BY <2>1, <2>2, FS_Subset
  <2>4. Cardinality(Ended) \in Nat
    BY <2>3, FS_CardinalityType
  <2> QED  BY <1>1, <1>2, <2>3, <2>4
<1>4. \A i \in DOMAIN key : key[i] \in Keys \cup {Malformed}
  BY <1>1
<1>5. \A i, j \in DOMAIN cache : cache[i] \in Entry /\ (cache[i].key = cache[j].key => i = j)
  <2>1. DOMAIN cache = 1..Len(cache) /\ \A i \in 1..Len(cache) : cache[i] \in Entry
    BY <1>1 DEF CacheOK
  <2>2. \A i, j \in 1..Len(cache) : cache[i].key = cache[j].key => i = j
    BY <1>1 DEF CacheOK
  <2> QED  BY <2>1, <2>2
<1>6. thread \in [Requests -> {"none", "queued", "found", "query", "popped", "timed",
                               "stored", "test", "evict", "evicted", "done"}]
  <2>1. Stages = {"none", "queued", "found", "query", "popped", "timed",
                  "stored", "test", "evict", "evicted", "done"}
    BY DEF Stages, Idle, Late
  <2> QED  BY <1>1, <2>1
<1> QED  BY <1>1, <1>2, <1>3, <1>4, <1>5, <1>6 DEF BrokerTypeOK

(* ...and the cache's says what its weight is and how far it fills. *)
LEMMA CacheWeighed ==
    ASSUME CacheInv, BrokerInv
    PROVE  WeightUnlessOverlap
<1>1. BrokerTypeOK
  BY BrokerTypes
<1>2. ASSUME overlap = "no"
      PROVE  weight + SumTo(ToCount, MaxRequests) = Weigh(cache) + SumTo(ToUncount, MaxRequests)
  BY <1>2 DEF CacheInv, Balance
<1>3. ASSUME overlap = "no", At("stored") \cup At("test") \cup At("evict") \cup At("evicted") = {}
      PROVE  Len(cache) =< MaxSize /\ Weigh(cache) =< MaxWeight
  <2>1. \A r \in Requests : thread[r] \notin Late
    BY <1>3 DEF At, Late
  <2> QED  BY <1>3, <2>1 DEF CacheInv, Bounded
<1> QED  BY <1>1, <1>2, <1>3 DEF WeightUnlessOverlap

(* messaging/query_cache.py: whatever the executor's threads interleave, as  *)
(* long as no two of them are on one key at once the weight the cache keeps  *)
(* is that of its entries but for what each thread has still to count, and   *)
(* with no put under way the cache is within max_weight and maxsize.         *)
THEOREM WeightAlwaysUnlessOverlap ==
    BrokerSpec => []WeightUnlessOverlap
<1>1. BrokerInit => CacheInv /\ BrokerInv
  BY CacheInit, BrokerInitHolds
<1>2. CacheInv /\ BrokerInv /\ [BrokerNext]_brokerVars => CacheInv' /\ BrokerInv'
  BY CacheStep, BrokerStep
<1>3. CacheInv /\ BrokerInv => WeightUnlessOverlap
  BY CacheWeighed
<1> QED  BY <1>1, <1>2, <1>3, PTL DEF BrokerSpec
=============================================================================
