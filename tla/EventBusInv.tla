----------------------------- MODULE EventBusInv -----------------------------
(***************************************************************************)
(* The inductive invariant of EventBus: what a list of listeners says of   *)
(* the subscriptions under its key, and what a goroutine that walks such a *)
(* list has done so far.                                                   *)
(***************************************************************************)
EXTENDS EventBus

\* A topic, or the key under which the default listeners are subscribed.
Key == Topic \cup {"default"}
ListOf(k) == IF k = "default" THEN dispatchers ELSE listeners[k]

Goroutine ==
    [pc : {"idle", "start", "notify", "done"}, list : Seq(IdListener), next : Nat,
     failed : Seq(AnyListener), due : SUBSET AnyListener, past : SUBSET AnyListener]

\* l is among the first n of list.
Among(l, list, n) == \E i \in 1 .. n : list[i].lis = l

\* No listener is in the list twice.
Distinct(list) ==
    \A i, j \in 1 .. Len(list) : list[i].lis = list[j].lis => i = j

\* The types that TypeOK leaves open.
BusTypes ==
    /\ TypeOK
    /\ sent \in [AnyListener -> Seq(Msg \cup {Older})]
    /\ read \in [AnyListener -> Nat]
    /\ publisher \in [Msg -> Goroutine]
    /\ forwarder \in [Msg -> Goroutine]

\* The list under k has each of its listeners once, with the id it was given,
\* and a listener whose id is its own is there until it unsubscribes.
Listed(k) ==
    /\ Distinct(ListOf(k))
    /\ \A i \in 1 .. Len(ListOf(k)) :
          LET e == ListOf(k)[i]
          IN  <<k, e.lis>> \in Subscription /\ subID[<<k, e.lis>>] = e.id
    /\ \A l \in AnyListener :
          (<<k, l>> \in Subscription /\ subID[<<k, l>>] # NoId /\ OwnId(k, l))
              => (Among(l, ListOf(k), Len(ListOf(k))) <=> <<k, l>> \notin gone)

ListInv ==
    /\ \A k \in Key : Listed(k)
    /\ \A p \in gone : subID[p] # NoId

\* What g remembers of the subscribers it found under k is still true of them.
Remembered(g, k) ==
    /\ \A l \in g.due : <<k, l>> \in Subscription /\ subID[<<k, l>>] # NoId
    /\ \A l \in g.past : <<k, l>> \in gone

\* The listeners in L that have been notified of m, by channel or by error,
\* are the first n of list, each of them once.
NotifiedFirst(m, g, L, list, n) ==
    \A l \in L : Notices(m, g, l) = IF Among(l, list, n) THEN 1 ELSE 0

\* The goroutine in Publish: it has notified the listeners of its copy up to
\* its place, and the copy has whoever it owes a notice and no one who left.
PublisherInv(m) ==
    LET g == publisher[m]
        k == TopicOf[m]
    IN  /\ Remembered(g, k)
        /\ Distinct(g.list)
        /\ \A i \in 1 .. Len(g.list) : g.list[i].lis \in Listener
        /\ g.next \in 1 .. Len(g.list) + 1
        /\ NotifiedFirst(m, g, Listener, g.list, g.next - 1)
        /\ g.pc \in {"idle", "start"} => g.list = <<>>
        /\ g.pc \in {"notify", "done"} =>
              /\ \A l \in g.due : (<<k, l>> \notin gone /\ OwnId(k, l))
                                      => Among(l, g.list, Len(g.list))
              /\ \A l \in g.past : OwnId(k, l) => ~Among(l, g.list, Len(g.list))
        /\ g.pc = "done" => g.next = Len(g.list) + 1

\* The goroutine in Forward: while it has the read lock it walks the list
\* itself.
ForwarderInv(m) ==
    LET g == forwarder[m]
    IN  /\ publisher[m].pc = "idle" => g.pc = "idle"
        /\ Remembered(g, "default")
        /\ g.pc \in {"idle", "start"} =>
              g.next = 1 /\ NotifiedFirst(m, g, DefaultListener, <<>>, 0)
        /\ g.pc = "notify" =>
              /\ g.next \in 1 .. Len(dispatchers) + 1
              /\ NotifiedFirst(m, g, DefaultListener, dispatchers, g.next - 1)
        /\ Served(m, g, "default")

BusInv ==
    /\ BusTypes
    /\ ListInv
    /\ \A m \in Msg : PublisherInv(m) /\ ForwarderInv(m)
=============================================================================
