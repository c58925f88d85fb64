----------------------------- MODULE Dispatcher -----------------------------
(***************************************************************************)
(* The event dispatcher (pkg/plugin/dispatcher.go) and the part of the     *)
(* plugin Manager it borrows from.                                         *)
(*                                                                         *)
(* The subscription map is guarded by a sync.RWMutex.  One refresher       *)
(* goroutine runs RefreshSubscriptions (write lock), the goroutines in     *)
(* Dispatchers run Dispatch and HasSubscribers (read lock).  Go's RWMutex  *)
(* lets no new reader in once a writer is waiting, and the writer waits    *)
(* until the readers inside have left.  Each call into a guest             *)
(* (GetSubscribedEvents, HandleEvent) is one step: the instance runs it to *)
(* completion and the Manager bounds its duration (spec 5).                *)
(*                                                                         *)
(* A LoadedPlugin is a handle <<p, n>>: the n-th load of plugin p.  The    *)
(* Manager (not in this repository: modelled from spec 4.1) loads and      *)
(* unloads plugins; the dispatcher keeps the handles it was given.         *)
(***************************************************************************)
EXTENDS Naturals, Sequences, SequencesExt, FiniteSets

CONSTANTS
  Plugins,      \* plugin info IDs
  Order,        \* the order GetPlugins lists plugins in (a sequence)
  Enabled,      \* the plugins whose LoadedPlugin.Enabled is set
  Subscribes,   \* Subscribes[p]: the events p's GetSubscribedEvents returns
  Events,       \* event types
  Cancellable,  \* the PRE_* event types (isCancellableEvent)
  Dispatchers,  \* goroutines calling Dispatch / HasSubscribers
  Outcomes,     \* guest HandleEvent results: an error, or what it returned
  MaxLoads,     \* MaxLoads[p]: bound on how often plugin p is loaded
  NONE

ASSUME /\ Cancellable \subseteq Events
       /\ Enabled \subseteq Plugins
       /\ ToSet(Order) = Plugins /\ Len(Order) = Cardinality(Plugins)
       /\ Outcomes \subseteq
            [err : BOOLEAN, handled : BOOLEAN, cancel : BOOLEAN, writes : BOOLEAN]

VARIABLES
  loads,        \* loads[p]: how often p has been loaded
  live,         \* the handles the Manager holds (GetPlugins)
  subscriptions,\* subscriptions[e]: the handles subscribed to e, in order
  subsOK,       \* subscriptionsOK
  writer,       \* the refresher's lock state: "none", "waiting", "held"
  readers,      \* the dispatchers holding the read lock
  rsnap,        \* the GetPlugins snapshot Refresh still has to visit
  dpc,          \* dpc[d]: "idle" or "scan" (inside Dispatch's loop)
  event,        \* event[d]: the type d dispatches
  snap0,        \* snap0[d]: d's subscriber list as read under the lock
  dsnap,        \* dsnap[d]: the part of it d still has to visit
  invoked,      \* invoked[d]: the handles d called HandleEvent on
  outs,         \* outs[d]: what each of those calls returned
  result,       \* result[d]: d's EventDispatchResult
  nested        \* nested[d]: a guest of d's dispatch re-entered Dispatch

managerVars == <<loads, live>>
lockVars    == <<writer, readers>>
dispVars    == <<dpc, event, snap0, dsnap, invoked, outs, result, nested>>
vars == <<managerVars, subscriptions, subsOK, lockVars, rsnap, dispVars>>

Handles == UNION {{p} \X (1..MaxLoads[p]) : p \in Plugins}
PluginOf(h) == h[1]
IsEnabled(h) == PluginOf(h) \in Enabled

\* A plugin's data write: the merged map's one key holds the writer's ID.
EmptyResult ==
  [handledBy |-> <<>>, cancelled |-> FALSE, cancelledBy |-> NONE,
   data |-> NONE, errors |-> <<>>]

(* Manager.GetPlugins: the live handles, in the Manager's order (at most  *)
(* one LoadedPlugin per info ID, spec 4.1).                                *)
IsLive(p) == \E h \in live : PluginOf(h) = p
LiveHandle(p) == CHOOSE h \in live : PluginOf(h) = p
GetPlugins ==
  LET ps == SelectSeq(Order, IsLive)
  IN  [i \in 1..Len(ps) |-> LiveHandle(ps[i])]

Init ==
  /\ loads = [p \in Plugins |-> 0]
  /\ live = {}
  /\ subscriptions = [e \in Events |-> <<>>]
  /\ subsOK = FALSE
  /\ writer = "none"
  /\ readers = {}
  /\ rsnap = <<>>
  /\ dpc = [d \in Dispatchers |-> "idle"]
  /\ event = [d \in Dispatchers |-> NONE]
  /\ snap0 = [d \in Dispatchers |-> <<>>]
  /\ dsnap = [d \in Dispatchers |-> <<>>]
  /\ invoked = [d \in Dispatchers |-> <<>>]
  /\ outs = [d \in Dispatchers |-> <<>>]
  /\ result = [d \in Dispatchers |-> EmptyResult]
  /\ nested = [d \in Dispatchers |-> FALSE]

-----------------------------------------------------------------------------
(* Manager.Load (spec 4.1): a plugin with no live LoadedPlugin gets a new  *)
(* one (DUPLICATE_ID otherwise); a failed load leaves nothing visible and  *)
(* is no step here.                                                        *)
(* Variant: the DUPLICATE_ID check dropped.                               *)
LoadNoDuplicateCheck(p) ==
  /\ loads[p] < MaxLoads[p]
  /\ loads' = [loads EXCEPT ![p] = @ + 1]
  /\ live' = live \cup {<<p, loads[p] + 1>>}
  /\ UNCHANGED <<subscriptions, subsOK, lockVars, rsnap, dispVars>>

Load(p) ==
  /\ ~IsLive(p)
  /\ loads[p] < MaxLoads[p]
  /\ loads' = [loads EXCEPT ![p] = @ + 1]
  /\ live' = live \cup {<<p, loads[p] + 1>>}
  /\ UNCHANGED <<subscriptions, subsOK, lockVars, rsnap, dispVars>>

(* Manager.Unload (spec 4.1): Shutdown, then release the instance.  The    *)
(* dispatcher is not told.                                                 *)
Unload(p) ==
  /\ IsLive(p)
  /\ live' = live \ {LiveHandle(p)}
  /\ UNCHANGED <<loads, subscriptions, subsOK, lockVars, rsnap, dispVars>>

-----------------------------------------------------------------------------
(* RefreshSubscriptions.  d.mu.Lock(): the writer is pending from here on. *)
RefreshLock ==
  /\ writer = "none"
  /\ writer' = "waiting"
  /\ UNCHANGED <<managerVars, subscriptions, subsOK, readers, rsnap, dispVars>>

(* Variant: the writer does not wait for the readers to leave.             *)
RefreshAcquireEarly ==
  /\ writer = "waiting"
  /\ writer' = "held"
  /\ subscriptions' = [e \in Events |-> <<>>]
  /\ subsOK' = FALSE
  /\ rsnap' = GetPlugins
  /\ UNCHANGED <<managerVars, readers, dispVars>>

(* ... the lock is granted once no reader holds it; the map is reset and   *)
(* the Manager's plugin list is read.                                      *)
RefreshAcquire ==
  /\ writer = "waiting"
  /\ readers = {}
  /\ writer' = "held"
  /\ subscriptions' = [e \in Events |-> <<>>]
  /\ subsOK' = FALSE
  /\ rsnap' = GetPlugins
  /\ UNCHANGED <<managerVars, readers, dispVars>>

(* Variant: the !plugin.Enabled check dropped.                            *)
RefreshVisitAll ==
  /\ writer = "held"
  /\ rsnap # <<>>
  /\ LET h == Head(rsnap) IN
       \/ UNCHANGED subscriptions
       \/ subscriptions' =
            [e \in Events |-> IF e \in Subscribes[PluginOf(h)]
                              THEN Append(subscriptions[e], h)
                              ELSE subscriptions[e]]
  /\ rsnap' = Tail(rsnap)
  /\ UNCHANGED <<managerVars, subsOK, lockVars, dispVars>>

(* One plugin of the snapshot: disabled ones are skipped, an error of      *)
(* GetSubscribedEvents is logged and skipped, otherwise the plugin is      *)
(* appended to the list of every event it returned.                        *)
RefreshVisit ==
  /\ writer = "held"
  /\ rsnap # <<>>
  /\ LET h == Head(rsnap) IN
       \/ ~IsEnabled(h) /\ UNCHANGED subscriptions
       \/ IsEnabled(h) /\ UNCHANGED subscriptions          \* the call failed
       \/ /\ IsEnabled(h)
          /\ subscriptions' =
               [e \in Events |-> IF e \in Subscribes[PluginOf(h)]
                                 THEN Append(subscriptions[e], h)
                                 ELSE subscriptions[e]]
  /\ rsnap' = Tail(rsnap)
  /\ UNCHANGED <<managerVars, subsOK, lockVars, dispVars>>

RefreshUnlock ==
  /\ writer = "held"
  /\ rsnap = <<>>
  /\ subsOK' = TRUE
  /\ writer' = "none"
  /\ UNCHANGED <<managerVars, subscriptions, readers, rsnap, dispVars>>

-----------------------------------------------------------------------------
(* Variant: RLock granted while a writer waits (a reader-preferring lock). *)
DispatchBeginNoWriterCheck(d, e) ==
  /\ dpc[d] = "idle"
  /\ writer # "held"
  /\ event' = [event EXCEPT ![d] = e]
  /\ snap0' = [snap0 EXCEPT ![d] = subscriptions[e]]
  /\ invoked' = [invoked EXCEPT ![d] = <<>>]
  /\ outs' = [outs EXCEPT ![d] = <<>>]
  /\ result' = [result EXCEPT ![d] = EmptyResult]
  /\ nested' = [nested EXCEPT ![d] = FALSE]
  /\ \/ /\ subscriptions[e] = <<>>
        /\ UNCHANGED <<dpc, dsnap, readers>>
     \/ /\ subscriptions[e] # <<>>
        /\ readers' = readers \cup {d}
        /\ dpc' = [dpc EXCEPT ![d] = "scan"]
        /\ dsnap' = [dsnap EXCEPT ![d] = subscriptions[e]]
  /\ UNCHANGED <<managerVars, subscriptions, subsOK, writer, rsnap>>

(* Dispatch.  d.mu.RLock() is granted while no writer is pending or        *)
(* holding; the subscriber list of the event is read.  With none, the      *)
(* empty result is returned at once.                                       *)
DispatchBegin(d, e) ==
  /\ dpc[d] = "idle"
  /\ writer = "none"
  /\ event' = [event EXCEPT ![d] = e]
  /\ snap0' = [snap0 EXCEPT ![d] = subscriptions[e]]
  /\ invoked' = [invoked EXCEPT ![d] = <<>>]
  /\ outs' = [outs EXCEPT ![d] = <<>>]
  /\ result' = [result EXCEPT ![d] = EmptyResult]
  /\ nested' = [nested EXCEPT ![d] = FALSE]
  /\ \/ /\ subscriptions[e] = <<>>
        /\ UNCHANGED <<dpc, dsnap, readers>>
     \/ /\ subscriptions[e] # <<>>
        /\ readers' = readers \cup {d}
        /\ dpc' = [dpc EXCEPT ![d] = "scan"]
        /\ dsnap' = [dsnap EXCEPT ![d] = subscriptions[e]]
  /\ UNCHANGED <<managerVars, subscriptions, subsOK, writer, rsnap>>

Cancels(e, o) == ~o.err /\ e \in Cancellable /\ o.cancel

(* Variant: the cancellation check before HandledBy is appended to.        *)
HandleOutcomeCancelFirst(d, h, o) ==
  LET r == result[d] IN
  \/ /\ o.err
     /\ result' = [result EXCEPT ![d].errors = Append(r.errors, PluginOf(h))]
     /\ dsnap' = [dsnap EXCEPT ![d] = Tail(@)]
     /\ UNCHANGED <<dpc, readers>>
  \/ /\ Cancels(event[d], o)
     /\ result' = [result EXCEPT ![d].cancelled = TRUE, ![d].cancelledBy = PluginOf(h)]
     /\ dsnap' = [dsnap EXCEPT ![d] = <<>>]
     /\ dpc' = [dpc EXCEPT ![d] = "idle"]
     /\ readers' = readers \ {d}
  \/ /\ ~o.err /\ ~Cancels(event[d], o)
     /\ result' = [result EXCEPT
                     ![d].handledBy = IF o.handled THEN Append(r.handledBy, PluginOf(h)) ELSE @,
                     ![d].data = IF o.writes THEN PluginOf(h) ELSE @]
     /\ dsnap' = [dsnap EXCEPT ![d] = Tail(@)]
     /\ UNCHANGED <<dpc, readers>>

(* What Dispatch does with one HandleEvent result o of handle h (results   *)
(* name the plugin by its info ID): an error is recorded and the loop goes *)
(* on; a handled event is recorded; a        *)
(* cancelling result of a cancellable event ends the dispatch (RUnlock)    *)
(* without merging its data; otherwise the data is merged, last writer     *)
(* winning, and the loop goes on.                                          *)
HandleOutcome(d, h, o) ==
  LET r == result[d]
      handled == IF ~o.err /\ o.handled THEN Append(r.handledBy, PluginOf(h))
                                                  ELSE r.handledBy
  IN
  \/ /\ o.err
     /\ result' = [result EXCEPT ![d].errors = Append(r.errors, PluginOf(h))]
     /\ dsnap' = [dsnap EXCEPT ![d] = Tail(@)]
     /\ UNCHANGED <<dpc, readers>>
  \/ /\ Cancels(event[d], o)
     /\ result' = [result EXCEPT ![d].handledBy = handled,
                                 ![d].cancelled = TRUE, ![d].cancelledBy = PluginOf(h)]
     /\ dsnap' = [dsnap EXCEPT ![d] = <<>>]
     /\ dpc' = [dpc EXCEPT ![d] = "idle"]
     /\ readers' = readers \ {d}
  \/ /\ ~o.err /\ ~Cancels(event[d], o)
     /\ result' = [result EXCEPT ![d].handledBy = handled,
                                 ![d].data = IF o.writes THEN PluginOf(h) ELSE @]
     /\ dsnap' = [dsnap EXCEPT ![d] = Tail(@)]
     /\ UNCHANGED <<dpc, readers>>

(* One subscriber of the loop: a disabled one is skipped, an enabled one   *)
(* is called with HandleEvent, whatever the Manager did to it since.       *)
DispatchVisit(d) ==
  /\ dpc[d] = "scan"
  /\ dsnap[d] # <<>>
  /\ LET h == Head(dsnap[d]) IN
       \/ /\ ~IsEnabled(h)
          /\ dsnap' = [dsnap EXCEPT ![d] = Tail(@)]
          /\ UNCHANGED <<dpc, readers, invoked, outs, result>>
       \/ /\ IsEnabled(h)
          /\ \E o \in Outcomes :
               /\ invoked' = [invoked EXCEPT ![d] = Append(@, h)]
               /\ outs' = [outs EXCEPT ![d] = Append(@, o)]
               /\ HandleOutcome(d, h, o)
  /\ UNCHANGED <<managerVars, subscriptions, subsOK, writer, rsnap, event, snap0,
                 nested>>

(* The loop ran out: RUnlock and return the result.                        *)
DispatchEnd(d) ==
  /\ dpc[d] = "scan"
  /\ dsnap[d] = <<>>
  /\ dpc' = [dpc EXCEPT ![d] = "idle"]
  /\ readers' = readers \ {d}
  /\ UNCHANGED <<managerVars, subscriptions, subsOK, writer, rsnap,
                 event, snap0, dsnap, invoked, outs, result, nested>>

(* A guest inside HandleEvent calls ServerControl.Start (or Stop,         *)
(* Restart, ...) of the host library: getServer finds the server and the   *)
(* ServerController runs.  The controller (not in this repository: spec 1, *)
(* "the runtime may veto a host operation when a plugin cancels a          *)
(* pre-event") dispatches the PRE event through ServerControlAdapter and   *)
(* Dispatcher.DispatchServerEvent, on the goroutine that still holds d's   *)
(* read lock.  A server not found, or a repository error, returns before   *)
(* the controller and changes nothing.  One re-entry per dispatch.         *)
GuestControl(d) ==
  /\ dpc[d] = "scan"
  /\ dsnap[d] # <<>> /\ IsEnabled(Head(dsnap[d]))
  /\ ~nested[d]
  /\ dpc' = [dpc EXCEPT ![d] = "nest"]
  /\ nested' = [nested EXCEPT ![d] = TRUE]
  /\ UNCHANGED <<managerVars, subscriptions, subsOK, lockVars, rsnap,
                 event, snap0, dsnap, invoked, outs, result>>

(* The nested Dispatch takes d.mu.RLock() a second time.  The RWMutex      *)
(* grants it only while no writer is pending, although d's outer read lock *)
(* is still held.  Once in, the nested dispatch runs its own loop as above *)
(* and returns to the controller; the guest call then resumes.             *)
NestedDispatch(d) ==
  /\ dpc[d] = "nest"
  /\ writer = "none"
  /\ dpc' = [dpc EXCEPT ![d] = "scan"]
  /\ UNCHANGED <<managerVars, subscriptions, subsOK, lockVars, rsnap,
                 event, snap0, dsnap, invoked, outs, result, nested>>

-----------------------------------------------------------------------------
Refresher ==
  RefreshLock \/ RefreshAcquire \/ RefreshVisit \/ RefreshUnlock

Next ==
  \/ \E p \in Plugins : Load(p) \/ Unload(p)
  \/ Refresher
  \/ \E d \in Dispatchers :
       \/ \E e \in Events : DispatchBegin(d, e)
       \/ DispatchVisit(d)
       \/ DispatchEnd(d)

(* The goroutines that hold or wait for the lock keep running: a guest     *)
(* call returns within the Manager's bound, a runnable goroutine is        *)
(* scheduled.  Callers (Load, Unload, starting a Refresh or a Dispatch)    *)
(* are not assumed to act.                                                 *)
Fairness ==
  /\ WF_vars(RefreshAcquire \/ RefreshVisit \/ RefreshUnlock)
  /\ \A d \in Dispatchers : WF_vars(DispatchVisit(d) \/ DispatchEnd(d))

Spec == Init /\ [][Next]_vars /\ Fairness

(* Guests that drive server control from inside HandleEvent.  The nested   *)
(* RLock is a runnable step whenever it is enabled.                        *)
NextNested ==
  \/ Next
  \/ \E d \in Dispatchers : GuestControl(d) \/ NestedDispatch(d)

SpecNested ==
  Init /\ [][NextNested]_vars /\ Fairness
  /\ \A d \in Dispatchers : WF_vars(NestedDispatch(d))

-----------------------------------------------------------------------------
TypeOK ==
  /\ \A p \in Plugins : loads[p] \in 0..MaxLoads[p]
  /\ live \subseteq Handles
  /\ \A g, h \in live : PluginOf(g) = PluginOf(h) => g = h   \* keyed by info ID
  /\ subscriptions \in [Events -> Seq(Handles)]
  /\ subsOK \in BOOLEAN
  /\ writer \in {"none", "waiting", "held"}
  /\ readers \subseteq Dispatchers
  /\ rsnap \in Seq(Handles)
  /\ dpc \in [Dispatchers -> {"idle", "scan", "nest"}]
  /\ nested \in [Dispatchers -> BOOLEAN]
  /\ event \in [Dispatchers -> Events \cup {NONE}]
  /\ \A d \in Dispatchers :
       /\ {snap0[d], dsnap[d], invoked[d]} \subseteq Seq(Handles)
       /\ outs[d] \in Seq(Outcomes)
       /\ result[d].cancelledBy \in Plugins \cup {NONE}
       /\ result[d].data \in Plugins \cup {NONE}
       /\ {result[d].handledBy, result[d].errors} \subseteq Seq(Plugins)

(* Read and write sections exclude each other: while a Dispatch is inside  *)
(* its loop, the subscriber list it read is still the map's list for its   *)
(* event, and the map is a finished one (spec 5, "Subscription snapshots   *)
(* are consistent"; the RWMutex between Dispatch and Refresh).             *)
SnapshotConsistent ==
  \A d \in Dispatchers :
    dpc[d] = "scan" =>
      /\ writer # "held"
      /\ subsOK
      /\ subscriptions[event[d]] = snap0[d]

(* The reference result of a dispatch of event e whose guests hs returned  *)
(* os (spec 4.2 and 8.4 to 8.6), built from the last guest backwards: an   *)
(* error is only recorded; a cancelling guest ends the dispatch, counts as *)
(* handled if it said so and contributes no data; a later writer's data    *)
(* wins over an earlier one.                                               *)
RECURSIVE Reference(_, _, _)
Reference(e, hs, os) ==
  IF hs = <<>> THEN EmptyResult
  ELSE
    LET h == PluginOf(Head(hs))
        o == Head(os)
        r == Reference(e, Tail(hs), Tail(os))
    IN  IF o.err
        THEN [r EXCEPT !.errors = <<h>> \o @]
        ELSE IF Cancels(e, o)
        THEN [EmptyResult EXCEPT !.handledBy = IF o.handled THEN <<h>> ELSE <<>>,
                                 !.cancelled = TRUE, !.cancelledBy = h]
        ELSE [r EXCEPT !.handledBy = IF o.handled THEN <<h>> \o @ ELSE @,
                       !.data = IF @ = NONE /\ o.writes THEN h ELSE @]

(* A finished Dispatch called exactly the enabled subscribers of its       *)
(* snapshot, in order, up to and including the first guest that cancelled  *)
(* a cancellable event and no further (8.4); errors neither stop nor       *)
(* cancel (8.5); POST events visit everyone (8.6); and its result is the   *)
(* reference result of those calls.                                        *)
DispatchFollowsReference ==
  \A d \in Dispatchers :
    dpc[d] = "idle" /\ event[d] # NONE =>
      LET S == SelectSeq(snap0[d], IsEnabled)
          n == Len(invoked[d])
      IN  /\ n = Len(outs[d]) /\ n <= Len(S)
          /\ invoked[d] = SubSeq(S, 1, n)
          /\ \A i \in 1..n - 1 : ~Cancels(event[d], outs[d][i])
          /\ n < Len(S) => Cancels(event[d], outs[d][n])
          /\ result[d] = Reference(event[d], invoked[d], outs[d])

(* After a Refresh, every list of the map names enabled plugins that       *)
(* subscribe to its event, each once and in the Manager's order (spec 4.2, *)
(* "iterates subscribers in sort order").                                  *)
Position(h) == CHOOSE i \in 1..Len(Order) : Order[i] = PluginOf(h)
SubscriptionsSound ==
  subsOK /\ writer = "none" =>
    \A e \in Events :
      LET s == subscriptions[e] IN
        \A i \in 1..Len(s) :
          /\ IsEnabled(s[i]) /\ e \in Subscribes[PluginOf(s[i])]
          /\ \A j \in i + 1..Len(s) : Position(s[i]) < Position(s[j])

(* A RefreshSubscriptions that has asked for the lock gets it and finishes *)
(* however Dispatch calls keep arriving: Go's RWMutex admits no new reader *)
(* once a writer waits.                                                    *)
RefreshCompletes == writer = "waiting" ~> writer = "none"

(* HandleEvent is only ever called on a LoadedPlugin the Manager still     *)
(* holds (spec 4.1: no handle is retained across Unload).                  *)
NoInvokeUnloaded ==
  [][\A d \in Dispatchers :
       Len(invoked'[d]) > Len(invoked[d]) => Last(invoked'[d]) \in live]_vars

=============================================================================
