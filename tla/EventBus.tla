------------------------------ MODULE EventBus ------------------------------
(***************************************************************************)
(* The event bus of a node: eventbus/*.go, and its use by p2p/basereader.go*)
(* (a goroutine per message publishes it) and by the handlers of consensus *)
(* and chain (which read their channels).                                  *)
(*                                                                         *)
(* A goroutine that publishes works on a copy of the listeners of the      *)
(* topic, one listener per step; a second goroutine forwards to the        *)
(* default listeners under a read lock.  Every other operation runs under  *)
(* a lock and is one step.  A message is published once, so a listener     *)
(* that has it twice was notified twice.                                   *)
(***************************************************************************)
EXTENDS Integers, Sequences, FiniteSets, SequencesExt

CONSTANTS
    Topic,
    Msg,             \* bound: the messages that are published
    TopicOf,         \* [Msg -> Topic]
    Listener,        \* listeners of topics, each subscribed to a topic once
    DefaultListener, \* listeners of all default topics
    Callback,        \* the listeners that are CallbackListeners
    ListenerId,      \* what rand.Int(rand.Reader, 32) may return
    Capacity,        \* the buffer of a channel (1000 or 10000)
    Older,           \* a message that was published before
    Busy,            \* the listeners whose handler has not yet read Older
    NoId             \* not subscribed yet

ASSUME BusAssumption ==
    /\ TopicOf \in [Msg -> Topic] /\ Capacity \in Nat \ {0}
    /\ Listener \cap DefaultListener = {}
    /\ NoId \notin ListenerId /\ "default" \notin Topic
    /\ Older \notin Msg /\ Busy \subseteq Listener \cup DefaultListener

VARIABLES
    listeners,     \* [Topic -> Seq([id, lis])]: listenerMap.listeners
    dispatchers,   \* Seq([id, lis]): multiListener.dispatchers
    topicSet,      \* SUBSET Topic: multiListener.set
    subID,         \* the id a subscriber got, by topic or for the default
    gone,          \* the subscriptions that have been ended
    sent,          \* [lis -> Seq(Msg \cup {Older})]: all that went into its channel
    read,          \* [lis -> Nat]: how much of it has been taken out
    publisher,     \* [Msg -> Publisher]: the goroutine in Publish
    forwarder      \* [Msg -> Forwarder]: the goroutine in Forward

vars == <<listeners, dispatchers, topicSet, subID, gone, sent, read,
          publisher, forwarder>>

AnyListener == Listener \cup DefaultListener
Subscription == (Topic \X Listener) \cup ({"default"} \X DefaultListener)
IdListener == [id : ListenerId, lis : AnyListener]

\* due and past are what the subscribers know when the goroutine starts: who
\* is subscribed and who has unsubscribed.
Idle == [pc |-> "idle", list |-> <<>>, next |-> 1, failed |-> <<>>,
         due |-> {}, past |-> {}]

Subscribers(k) == {p[2] : p \in {q \in Subscription :
                     q[1] = k /\ subID[q] # NoId /\ q \notin gone}}
Former(k) == {p[2] : p \in {q \in gone : q[1] = k}}

Init ==
    /\ listeners = [t \in Topic |-> <<>>]
    /\ dispatchers = <<>> /\ topicSet = {}
    /\ subID = [p \in Subscription |-> NoId] /\ gone = {}
    /\ sent = [l \in AnyListener |-> IF l \in Busy THEN <<Older>> ELSE <<>>]
    /\ read = [l \in AnyListener |-> 0]
    /\ publisher = [m \in Msg |-> Idle]
    /\ forwarder = [m \in Msg |-> Idle]

----------------------------------------------------------------------------
(* Subscribers.                                                            *)

\* The list without its first element with this id.
Delete(list, id) ==
    LET found == {i \in DOMAIN list : list[i].id = id}
    IN  IF found = {} THEN list ELSE RemoveAt(list, Min(found))

\* Store: the id is drawn before the lock is taken and may be in use.
Subscribe(t, l) ==
    \E id \in ListenerId :
        /\ subID[<<t, l>>] = NoId
        /\ listeners' = [listeners EXCEPT ![t] = Append(@, [id |-> id, lis |-> l])]
        /\ subID' = [subID EXCEPT ![<<t, l>>] = id]
        /\ UNCHANGED <<dispatchers, topicSet, gone, sent, read, publisher, forwarder>>

Unsubscribe(t, l) ==
    /\ subID[<<t, l>>] # NoId /\ <<t, l>> \notin gone
    /\ listeners' = [listeners EXCEPT ![t] = Delete(@, subID[<<t, l>>])]
    /\ gone' = gone \cup {<<t, l>>}
    /\ UNCHANGED <<dispatchers, topicSet, subID, sent, read, publisher, forwarder>>

\* multiListener.rwLock can be taken for writing.
Free == \A m \in Msg : forwarder[m].pc # "notify"

\* As LockForDelete, without the lock.
NoLock == TRUE

\* Delete takes it.
LockForDelete == Free

AddTopicDefault(t) ==
    /\ Free /\ t \notin topicSet
    /\ topicSet' = topicSet \cup {t}
    /\ UNCHANGED <<listeners, dispatchers, subID, gone, sent, read, publisher, forwarder>>

SubscribeDefault(l) ==
    \E id \in ListenerId :
        /\ Free /\ subID[<<"default", l>>] = NoId
        /\ dispatchers' = Append(dispatchers, [id |-> id, lis |-> l])
        /\ subID' = [subID EXCEPT ![<<"default", l>>] = id]
        /\ UNCHANGED <<listeners, topicSet, gone, sent, read, publisher, forwarder>>

DeleteDefault(l) ==
    /\ LockForDelete
    /\ subID[<<"default", l>>] # NoId /\ <<"default", l>> \notin gone
    /\ dispatchers' = Delete(dispatchers, subID[<<"default", l>>])
    /\ gone' = gone \cup {<<"default", l>>}
    /\ UNCHANGED <<listeners, topicSet, subID, sent, read, publisher, forwarder>>

----------------------------------------------------------------------------
(* Publishing.                                                             *)

\* As Accepts, with room for one more than the buffer has.
AcceptsOneMore(l) == l \in Callback \/ Len(sent[l]) - read[l] <= Capacity

\* A callback always gets a goroutine; a channel may be full.
Accepts(l) == l \in Callback \/ Len(sent[l]) - read[l] < Capacity

\* As MayNotify, with a send that waits for room in the channel.
MayNotifyWaiting(l) == Accepts(l)

\* A send that does not find room returns an error at once.
MayNotify(l) == l \in AnyListener

Notified(l, m) == IF Accepts(l) THEN [sent EXCEPT ![l] = Append(@, m)] ELSE sent

\* The goroutine g notifies the listener at its place of list.
Advance(g, l) ==
    [g EXCEPT !.next = @ + 1, !.failed = IF Accepts(l) THEN @ ELSE Append(@, l)]

Publish(m) ==
    LET start == [Idle EXCEPT !.pc = "start"] IN
    /\ publisher[m].pc = "idle"
    /\ publisher' = [publisher EXCEPT ![m] =
           [start EXCEPT !.due = Subscribers(TopicOf[m]), !.past = Former(TopicOf[m])]]
    /\ forwarder' = [forwarder EXCEPT ![m] = start]
    /\ UNCHANGED <<listeners, dispatchers, topicSet, subID, gone, sent, read>>

Load(m) ==
    /\ publisher[m].pc = "start"
    /\ publisher' = [publisher EXCEPT ![m].pc = "notify",
                                      ![m].list = listeners[TopicOf[m]]]
    /\ UNCHANGED <<listeners, dispatchers, topicSet, subID, gone, sent, read, forwarder>>

\* What Publish iterates over if Load does not copy.
SharedList(m) == listeners[TopicOf[m]]

\* The copy that Load has made.
LoadedList(m) == publisher[m].list

PublishNotify(m) ==
    LET g == publisher[m] IN
    /\ g.pc = "notify" /\ g.next <= Len(LoadedList(m))
    /\ LET l == LoadedList(m)[g.next].lis
       IN  /\ MayNotify(l)
           /\ sent' = Notified(l, m)
           /\ publisher' = [publisher EXCEPT ![m] = Advance(g, l)]
    /\ UNCHANGED <<listeners, dispatchers, topicSet, subID, gone, read, forwarder>>

PublishReturn(m) ==
    /\ publisher[m].pc = "notify" /\ publisher[m].next > Len(LoadedList(m))
    /\ publisher' = [publisher EXCEPT ![m].pc = "done"]
    /\ UNCHANGED <<listeners, dispatchers, topicSet, subID, gone, sent, read, forwarder>>

\* Forward takes the read lock and looks at the topic.
Forward(m) ==
    /\ forwarder[m].pc = "start"
    /\ forwarder' = [forwarder EXCEPT
           ![m].pc = IF TopicOf[m] \in topicSet THEN "notify" ELSE "done",
           ![m].due = IF TopicOf[m] \in topicSet THEN Subscribers("default") ELSE {},
           ![m].past = Former("default")]
    /\ UNCHANGED <<listeners, dispatchers, topicSet, subID, gone, sent, read, publisher>>

ForwardNotify(m) ==
    LET g == forwarder[m] IN
    /\ g.pc = "notify" /\ g.next <= Len(dispatchers)
    /\ LET l == dispatchers[g.next].lis
       IN  /\ MayNotify(l)
           /\ sent' = Notified(l, m)
           /\ forwarder' = [forwarder EXCEPT ![m] = Advance(g, l)]
    /\ UNCHANGED <<listeners, dispatchers, topicSet, subID, gone, read, publisher>>

\* The read lock is released.
ForwardReturn(m) ==
    /\ forwarder[m].pc = "notify" /\ forwarder[m].next > Len(dispatchers)
    /\ forwarder' = [forwarder EXCEPT ![m].pc = "done"]
    /\ UNCHANGED <<listeners, dispatchers, topicSet, subID, gone, sent, read, publisher>>

\* A handler takes a message from its channel.  A callback has no channel.
Receive(l) ==
    /\ l \notin Callback /\ read[l] < Len(sent[l])
    /\ read' = [read EXCEPT ![l] = @ + 1]
    /\ UNCHANGED <<listeners, dispatchers, topicSet, subID, gone, sent, publisher, forwarder>>

PublishStep(m) == Load(m) \/ PublishNotify(m) \/ PublishReturn(m)
ForwardStep(m) == Forward(m) \/ ForwardNotify(m) \/ ForwardReturn(m)

Next ==
    \/ \E t \in Topic, l \in Listener : Subscribe(t, l) \/ Unsubscribe(t, l)
    \/ \E t \in Topic : AddTopicDefault(t)
    \/ \E l \in DefaultListener : SubscribeDefault(l) \/ DeleteDefault(l)
    \/ \E m \in Msg : Publish(m)
    \/ \E m \in Msg : PublishStep(m)
    \/ \E m \in Msg : ForwardStep(m)
    \/ \E l \in AnyListener : Receive(l)

Spec == Init /\ [][Next]_vars

\* Goroutines that publish keep running; nothing is assumed of subscribers
\* and of the goroutines that read the channels.
FairSpec ==
    /\ Spec
    /\ \A m \in Msg : WF_vars(PublishStep(m)) /\ WF_vars(ForwardStep(m))

----------------------------------------------------------------------------
(* Properties.                                                             *)

\* No channel holds more than its buffer.
TypeOK ==
    /\ listeners \in [Topic -> Seq(IdListener)]
    /\ dispatchers \in Seq(IdListener)
    /\ topicSet \subseteq Topic
    /\ subID \in [Subscription -> ListenerId \cup {NoId}]
    /\ gone \subseteq Subscription
    /\ \A l \in AnyListener :
          /\ read[l] \in 0 .. Len(sent[l])
          /\ l \notin Callback => Len(sent[l]) - read[l] <= Capacity
    /\ \A m \in Msg :
          /\ publisher[m].pc \in {"idle", "start", "notify", "done"}
          /\ forwarder[m].pc \in {"idle", "start", "notify", "done"}

Occurrences(x, seq) == Cardinality({i \in DOMAIN seq : seq[i] = x})

\* How often l has been notified of m: put into its channel, or reported.
Notices(m, g, l) == Occurrences(m, sent[l]) + Occurrences(l, g.failed)

\* No other subscription under the same key was given the id of l.
OwnId(k, l) ==
    \A p \in Subscription : (p[1] = k /\ p # <<k, l>>) => subID[p] # subID[<<k, l>>]

\* What subscribers of key k may expect of the goroutine g: one that is
\* subscribed from its start to its end is notified exactly once, or the
\* error says that its channel was full; one that has unsubscribed before is
\* not notified.
Served(m, g, k) ==
    g.pc = "done" =>
        /\ \A l \in g.due : (<<k, l>> \notin gone /\ OwnId(k, l)) => Notices(m, g, l) = 1
        /\ \A l \in g.past : OwnId(k, l) => Notices(m, g, l) = 0

\* Publish serves the listeners of the topic while others subscribe and
\* unsubscribe (publisher.go:22-30, listenermap.go:44-52), as long as rand
\* gave them ids of their own.
TopicServed == \A m \in Msg : Served(m, publisher[m], TopicOf[m])

\* Forward serves the default listeners: the read lock keeps the list still
\* (listener.go:88-104).
DefaultServed == \A m \in Msg : Served(m, forwarder[m], "default")

\* Listeners of topics and default listeners are served, within their channels.
ListenersServed == TypeOK /\ TopicServed /\ DefaultServed

\* Publish and Forward return although no handler reads its channel, so the
\* network's goroutines do not pile up behind a slow one (listener.go:50-57).
PublishReturns ==
    \A m \in Msg : (publisher[m].pc = "start") ~>
                       (publisher[m].pc = "done" /\ forwarder[m].pc = "done")
=============================================================================
