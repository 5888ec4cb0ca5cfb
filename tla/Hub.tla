-------------------------------- MODULE Hub ---------------------------------
(***************************************************************************)
(* The event hub (src/src/x2net/Hub.cs): the flows attached to it, their   *)
(* channel subscriptions, and the distribution of posted events.  Attach,  *)
(* Detach, DetachAll, Subscribe and Unsubscribe hold the write lock and    *)
(* are one step each.  Feed holds the read lock while it hands the event   *)
(* to one flow after another, so several posts interleave.                 *)
(***************************************************************************)
EXTENDS Integers, FiniteSets, SequencesExt

CONSTANTS
  Flows,
  Channels,
  Posts,         \* event objects, each posted once
  ChannelOf,     \* the _Channel of each: a member of Channels, or NoChannel
  NoChannel,     \* null or the empty string
  Posters,       \* threads that call Hub.Post
  MaxRefs,       \* bound on channelRefCount
  MaxDebt        \* bound on how far below zero it goes

ASSUME NoChannelIsNone == NoChannel \notin Channels
ASSUME ChannelOfType == ChannelOf \in [Posts -> Channels \cup {NoChannel}]
ASSUME NoneIsNoPost == "none" \notin Posts
ASSUME BoundsType == {MaxRefs, MaxDebt} \subseteq Nat

VARIABLES
  flows,          \* List<Flow> flows
  subscriptions,  \* the flows of each channel; <<>> if it has no key
  refs,           \* Flow.channelRefCount
  feeding,        \* each poster's post in progress and its loop index
  inbox,          \* the events fed to each flow
  audience,       \* history: whom each post was meant for when it was made
  careless,       \* history: who unsubscribed more often than subscribed
  balance         \* history: subscribes less unsubscribes since attachment,
                  \* not counted for the careless

hubVars == <<flows, subscriptions, refs, feeding, inbox, audience, balance, careless>>

Idle == [post |-> "none", next |-> 1]

Readers == {p \in Posters : feeding[p] # Idle}

Uncounted == [ch \in Channels |-> 0]

HubInit ==
  /\ flows = <<>>
  /\ subscriptions = [ch \in Channels |-> <<>>]
  /\ refs = [f \in Flows |-> 0]
  /\ feeding = [p \in Posters |-> Idle]
  /\ inbox = [f \in Flows |-> <<>>]
  /\ audience = [e \in {} |-> {}]
  /\ balance = [f \in Flows |-> Uncounted]
  /\ careless = {}

-----------------------------------------------------------------------------
(* Mutant of WriteLock: no lock at all.                                    *)
NoLock == TRUE

(* The write lock is granted when no Feed holds the read lock.             *)
WriteLock == Readers = {}

Attach(f) ==
  /\ WriteLock
  /\ ~Contains(flows, f)
  /\ flows' = Append(flows, f)
  /\ UNCHANGED <<subscriptions, refs, feeding, inbox, audience, balance, careless>>

(* Detach removes the flow from every channel, and resets its reference    *)
(* count if it was in one.                                                 *)
Detach(f) ==
  /\ WriteLock
  /\ Contains(flows, f)
  /\ flows' = RemoveFirst(flows, f)
  /\ subscriptions' = [ch \in Channels |-> RemoveFirst(subscriptions[ch], f)]
  /\ refs' = IF \E ch \in Channels : Contains(subscriptions[ch], f)
             THEN [refs EXCEPT ![f] = 0] ELSE refs
  /\ balance' = [balance EXCEPT ![f] = Uncounted]
  /\ UNCHANGED <<feeding, inbox, audience, careless>>

(* Mutant of DetachAll: clears the list of flows only.                     *)
DetachAllKeepsSubscriptions ==
  /\ WriteLock
  /\ flows' = <<>>
  /\ balance' = [f \in Flows |-> Uncounted]
  /\ UNCHANGED <<subscriptions, refs, feeding, inbox, audience, careless>>

(* DetachAll clears both collections and leaves every reference count.     *)
DetachAll ==
  /\ WriteLock
  /\ flows' = <<>>
  /\ subscriptions' = [ch \in Channels |-> <<>>]
  /\ balance' = [f \in Flows |-> Uncounted]
  /\ UNCHANGED <<refs, feeding, inbox, audience, careless>>

AddSubscriber(s, f) == IF Contains(s, f) THEN s ELSE Append(s, f)

(* Subscribe by an attached flow; another flow gets an exception.          *)
Subscribe(f, ch) ==
  /\ WriteLock
  /\ Contains(flows, f)
  /\ refs[f] < MaxRefs
  /\ refs' = [refs EXCEPT ![f] = @ + 1]
  /\ subscriptions' = [subscriptions EXCEPT ![ch] = AddSubscriber(@, f)]
  /\ balance' = [balance EXCEPT ![f][ch] = IF f \in careless THEN 0 ELSE @ + 1]
  /\ UNCHANGED <<flows, feeding, inbox, audience, careless>>

(* Mutant of LastRef: references are not counted.                          *)
LastRefAlways(f) == TRUE

(* RemoveChannelRef returns zero.                                          *)
LastRef(f) == refs[f] - 1 = 0

(***************************************************************************)
(* Unsubscribe counts down the references of the flow, which all channels  *)
(* share, and removes the flow from the channel when none is left.         *)
(***************************************************************************)
Unsubscribe(f, ch) ==
  /\ WriteLock
  /\ Contains(flows, f)
  /\ refs[f] > -MaxDebt
  /\ IF balance[f][ch] > 0
     THEN balance' = [balance EXCEPT ![f][ch] = @ - 1] /\ UNCHANGED careless
     ELSE balance' = [balance EXCEPT ![f] = Uncounted] /\ careless' = careless \cup {f}
  /\ IF Contains(subscriptions[ch], f)
     THEN /\ refs' = [refs EXCEPT ![f] = @ - 1]
          /\ subscriptions' =
               IF LastRef(f)
               THEN [subscriptions EXCEPT ![ch] = RemoveFirst(@, f)]
               ELSE subscriptions
     ELSE UNCHANGED <<subscriptions, refs>>
  /\ UNCHANGED <<flows, feeding, inbox, audience>>

(* The list Feed walks: all flows, or the subscribers of the channel.      *)
Recipients(e) ==
  IF ChannelOf[e] = NoChannel THEN flows ELSE subscriptions[ChannelOf[e]]

(* Feed takes the read lock.                                               *)
FeedBegin(p, e) ==
  /\ feeding[p] = Idle
  /\ e \notin DOMAIN audience
  /\ feeding' = [feeding EXCEPT ![p] = [post |-> e, next |-> 1]]
  /\ audience' = [d \in DOMAIN audience \cup {e} |->
                    IF d = e THEN ToSet(Recipients(e)) ELSE audience[d]]
  /\ UNCHANGED <<flows, subscriptions, refs, inbox, balance, careless>>

(* The next flow of the list is fed, by reference to the hub's own list.   *)
FeedNext(p) ==
  /\ feeding[p] # Idle
  /\ LET e == feeding[p].post
         i == feeding[p].next
     IN  /\ i <= Len(Recipients(e))
         /\ inbox' = [inbox EXCEPT ![Recipients(e)[i]] = Append(@, e)]
  /\ feeding' = [feeding EXCEPT ![p].next = @ + 1]
  /\ UNCHANGED <<flows, subscriptions, refs, audience, balance, careless>>

(* The list is exhausted, and Feed releases the read lock.                 *)
FeedEnd(p) ==
  /\ feeding[p] # Idle
  /\ feeding[p].next > Len(Recipients(feeding[p].post))
  /\ feeding' = [feeding EXCEPT ![p] = Idle]
  /\ UNCHANGED <<flows, subscriptions, refs, inbox, audience, balance, careless>>

HubNext ==
  \/ \E f \in Flows : Attach(f) \/ Detach(f)
  \/ DetachAll
  \/ \E f \in Flows, ch \in Channels : Subscribe(f, ch) \/ Unsubscribe(f, ch)
  \/ \E p \in Posters, e \in Posts : FeedBegin(p, e)
  \/ \E p \in Posters : FeedNext(p) \/ FeedEnd(p)

HubSpec == HubInit /\ [][HubNext]_hubVars

-----------------------------------------------------------------------------
(* Types of the lists, the counters and the feeds in progress.             *)
HubTypeOK ==
  /\ flows \in Seq(Flows)
  /\ subscriptions \in [Channels -> Seq(Flows)]
  /\ refs \in [Flows -> Int]
  /\ feeding \in [Posters -> {Idle} \cup [post : Posts, next : Nat \ {0}]]
  /\ inbox \in [Flows -> Seq(Posts)]
  /\ DOMAIN audience \subseteq Posts
  /\ balance \in [Flows -> [Channels -> Nat]]
  /\ careless \subseteq Flows

(***************************************************************************)
(* Only attached flows subscribe: Detach and DetachAll leave no channel    *)
(* that would go on feeding a flow the hub no longer has.                  *)
(***************************************************************************)
SubscribersAttached ==
  \A ch \in Channels : ToSet(subscriptions[ch]) \subseteq ToSet(flows)

Times(s, e) == Cardinality({i \in DOMAIN s : s[i] = e})

(***************************************************************************)
(* Once its Feed has returned, a post is in the inbox of every flow it was *)
(* meant for exactly once, and in no other, whatever was attached,         *)
(* detached, subscribed or unsubscribed meanwhile.                         *)
(***************************************************************************)
DeliveredExactly ==
  \A e \in DOMAIN audience : \A f \in Flows :
    (\A p \in Posters : feeding[p].post # e)
      => Times(inbox[f], e) = IF f \in audience[e] THEN 1 ELSE 0

(***************************************************************************)
(* A flow that unsubscribes at most as often as it subscribes never loses  *)
(* a channel early: although the references of a flow are counted over all *)
(* its channels, a subscription in use is there.                           *)
(***************************************************************************)
SubscriptionKept ==
  \A f \in Flows \ careless, ch \in Channels :
    balance[f][ch] > 0 => f \in ToSet(subscriptions[ch])
=============================================================================
