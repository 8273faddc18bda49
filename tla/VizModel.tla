------------------------------ MODULE VizModel ------------------------------
(***************************************************************************)
(* plugins/viz: the terminal monitor.  Bubbletea runs Update on one        *)
(* message at a time and every command it returns in a goroutine of its    *)
(* own, whose result comes back as a message, in any order.  The screen    *)
(* stays fresh by a chain: a fetch returns data, data starts a timer, the  *)
(* timer's tick starts the next fetch.  Prompts, filter inputs and the     *)
(* detail view take the keyboard, and with it every other message.         *)
(*                                                                         *)
(* Not modelled: scrolling, the window size, the text of feedback and of   *)
(* typed buffers, and a program started without a Kubernetes client.  Key q*)
(* ends the program, as a behaviour may end anywhere.                      *)
(***************************************************************************)
EXTENDS Naturals, Sequences, FiniteSets, Bags

CONSTANTS Tabs,         \* the resource tabs in use
          FirstTab,
          Order,        \* all resources, in the order the API server lists them
          Scopes,       \* what namespace and label filters let through
          Statuses,     \* what status filters let through
          Queries,      \* what name searches let through
          Changing,     \* bound: the resources others create and delete
          MaxInFlight   \* bound on the commands that keys leave in flight

Resources == {Order[i] : i \in 1..Len(Order)}

NoName == ""

AllTabs == {"pods", "deployments", "services", "nodes", "statefulsets", "jobs",
            "ingresses", "configmaps", "events"}
Scalable == {"deployments", "statefulsets"}
Deletable == AllTabs \ {"nodes", "events"}

ASSUME VizOK ==
    /\ Order \in Seq([tab : Tabs, ns : STRING, name : STRING \ {NoName}])
    /\ Tabs \subseteq AllTabs /\ FirstTab \in Tabs
    /\ \A filters \in {Scopes, Statuses, Queries} :
          filters \subseteq SUBSET Resources /\ Resources \in filters
    /\ Changing \subseteq Resources /\ MaxInFlight \in Nat

VARIABLES
    tab,            \* activeTab
    data,           \* pods, deployments, ...: what each tab last received
    selected,       \* selectedIndex
    filter,         \* the applied filters
    input,          \* InputField while a filter is being typed
    view,           \* viewMode
    action,         \* actionMode and actionTarget
    retryCount, reconnecting, err,
    inflight,       \* commands running and messages not yet handled: a bag
    cluster         \* the resources that exist

screen == <<tab, data, selected, filter, input, view, action>>
health == <<retryCount, reconnecting, err>>
vars == <<screen, health, inflight, cluster>>

maxRetries == 3

NoInput == "none"
NoAction == [op |-> "none"]
NoFilter == [scope |-> Resources, status |-> Resources, search |-> Resources]

Tick == [kind |-> "tick"]
ReconnectTimer == [kind |-> "reconnect"]
Failure == [kind |-> "error"]
Detail == [kind |-> "detail"]
Result == [kind |-> "result"]

Fetch(t, f) == [kind |-> "fetch", tab |-> t, scope |-> f.scope]
Listing(t, rows) == [kind |-> "data", tab |-> t, rows |-> rows]
Job(op, on, prompted) == [kind |-> "job", op |-> op, on |-> on, prompted |-> prompted]

Targets == [tab : Tabs, ns : STRING, name : STRING]
(* "rollout" stands for scale and restart, which differ only in the input. *)
Actions == {"delete", "rollout"}

TypeOK ==
    /\ tab \in Tabs
    /\ data \in [Tabs -> SUBSET Resources]
    /\ selected \in Nat /\ (selected = 0 \/ selected < Len(Order))
    /\ filter \in [scope : Scopes, status : Statuses, search : Queries]
    /\ input \in {NoInput, "scope", "status", "search"}
    /\ view \in {"list", "detail"}
    /\ action \in [op : Actions, name : STRING, prompted : Targets] \union {NoAction}
    /\ retryCount \in 0..maxRetries /\ reconnecting \in BOOLEAN /\ err \in BOOLEAN
    /\ cluster \subseteq Resources

(* Init starts a first timer and a first fetch: two chains from the start. *)
Init ==
    /\ tab = FirstTab
    /\ data = [t \in Tabs |-> {}]
    /\ selected = 0
    /\ filter = NoFilter /\ input = NoInput
    /\ view = "list" /\ action = NoAction
    /\ retryCount = 0 /\ reconnecting = FALSE /\ err = FALSE
    /\ inflight = SetToBag({Tick, Fetch(FirstTab, NoFilter)})
    /\ cluster = Resources

-----------------------------------------------------------------------------
(* Rows of the active tab: the places of what is visible in the order of   *)
(* the API server.                                                         *)

Rows(visible) == {k \in 1..Len(Order) : Order[k] \in visible}

(* filteredPods; selectedResourceInfo indexes this list.                   *)
Actionable == IF tab = "pods" THEN data[tab] \intersect filter.status ELSE data[tab]

(* What the table shows and itemCount counts: the search applies as well.  *)
Displayed == Actionable \intersect filter.search

(* Kind, namespace and name, all empty beyond the end of the list.         *)
NoRow == [tab |-> NoName, ns |-> NoName, name |-> NoName]
RowAt(visible, i) ==
    IF i < Cardinality(Rows(visible))
    THEN Order[CHOOSE k \in Rows(visible) : Cardinality({j \in Rows(visible) : j < k}) = i]
    ELSE NoRow

selectedResourceInfo == RowAt(Actionable, selected)
highlighted == RowAt(Displayed, selected)

-----------------------------------------------------------------------------
(* Commands and messages.                                                  *)

InFlight(c) == BagIn(c, inflight)
Done(c) == inflight' = inflight (-) SetToBag({c})
Becomes(c, d) == inflight' = (inflight (-) SetToBag({c})) (+) SetToBag({d})
Copies(bag) == UNION {{c} \X (1..bag[c]) : c \in BagToSet(bag)}
Issue(c) ==
    /\ Cardinality(Copies(inflight)) < MaxInFlight
    /\ inflight' = inflight (+) SetToBag({c})

ListMode == action = NoAction /\ view = "list" /\ input = NoInput

(* tickMsg and reconnectMsg.                                               *)
TickArrives ==
    \E c \in {Tick, ReconnectTimer} :
        /\ InFlight(c) /\ ListMode
        /\ Becomes(c, Fetch(tab, filter))
        /\ UNCHANGED <<screen, health, cluster>>

(* fetchResources through RetryClient, in its goroutine.                   *)
Read ==
    \E c \in BagToSet(inflight) :
        /\ c.kind = "fetch"
        /\ Becomes(c, Listing(c.tab, {r \in cluster : r.tab = c.tab} \intersect c.scope))
        /\ UNCHANGED <<screen, health, cluster>>

(* The three attempts of RetryClient have failed.                          *)
ReadFails ==
    \E c \in BagToSet(inflight) :
        /\ c.kind = "fetch"
        /\ Becomes(c, Failure)
        /\ UNCHANGED <<screen, health, cluster>>

DataArrivesAnywhere ==           \* mutant: data is applied behind dialogs too
    \E c \in BagToSet(inflight) :
        /\ c.kind = "data"
        /\ data' = [data EXCEPT ![c.tab] = c.rows]
        /\ retryCount' = 0 /\ reconnecting' = FALSE
        /\ Becomes(c, Tick)
        /\ UNCHANGED <<tab, selected, filter, input, view, action, err, cluster>>

DataArrivesLast ==               \* mutant: data does not start the next timer
    \E c \in BagToSet(inflight) :
        /\ c.kind = "data" /\ ListMode
        /\ data' = [data EXCEPT ![c.tab] = c.rows]
        /\ retryCount' = 0 /\ reconnecting' = FALSE
        /\ Done(c)
        /\ UNCHANGED <<tab, selected, filter, input, view, action, err, cluster>>

DataArrivesNonEmpty ==           \* mutant: an empty list is not applied
    \E c \in BagToSet(inflight) :
        /\ c.kind = "data" /\ ListMode
        /\ data' = IF c.rows = {} THEN data ELSE [data EXCEPT ![c.tab] = c.rows]
        /\ retryCount' = 0 /\ reconnecting' = FALSE
        /\ Becomes(c, Tick)
        /\ UNCHANGED <<tab, selected, filter, input, view, action, err, cluster>>

DataArrives ==
    \E c \in BagToSet(inflight) :
        /\ c.kind = "data" /\ ListMode
        /\ data' = [data EXCEPT ![c.tab] = c.rows]
        /\ retryCount' = 0 /\ reconnecting' = FALSE
        /\ Becomes(c, Tick)
        /\ UNCHANGED <<tab, selected, filter, input, view, action, err, cluster>>

(* The case error: with data on the screen it tries again, maxRetries - 1  *)
(* times.  The count is not capped in the code; it changes nothing above   *)
(* maxRetries.                                                             *)
ErrorArrives ==
    LET hasData == \E t \in Tabs : data[t] # {}
        last == retryCount + 1 >= maxRetries IN
    /\ InFlight(Failure) /\ ListMode
    /\ retryCount' = IF hasData /\ retryCount < maxRetries THEN retryCount + 1 ELSE retryCount
    /\ reconnecting' = IF hasData THEN ~last ELSE reconnecting
    /\ err' = (err \/ ~hasData \/ last)
    /\ IF hasData /\ ~last THEN Becomes(Failure, ReconnectTimer) ELSE Done(Failure)
    /\ UNCHANGED <<screen, cluster>>

(* actionResultMsg.                                                        *)
ResultArrives ==
    /\ InFlight(Result) /\ ListMode
    /\ Becomes(Result, Fetch(tab, filter))
    /\ UNCHANGED <<screen, health, cluster>>

DetailArrivesAnywhere ==         \* mutant: it opens over prompts and inputs
    /\ InFlight(Detail)
    /\ Done(Detail)
    /\ view' = "detail"
    /\ UNCHANGED <<tab, data, selected, filter, input, action, health, cluster>>

DetailArrives ==
    /\ InFlight(Detail) /\ action = NoAction /\ input = NoInput
    /\ Done(Detail)
    /\ view' = "detail"
    /\ UNCHANGED <<tab, data, selected, filter, input, action, health, cluster>>

(* A prompt, an input or the detail view ignores any message that is not   *)
(* a key, but for detailMsg in the detail view.                            *)
Swallow ==
    \E c \in BagToSet(inflight) :
        /\ c.kind \in {"tick", "reconnect", "data", "error", "result", "detail"}
        /\ ~ListMode
        /\ c.kind = "detail" => action # NoAction \/ input # NoInput
        /\ Done(c)
        /\ UNCHANGED <<screen, health, cluster>>

-----------------------------------------------------------------------------
(* Keys of the list.                                                       *)

SwitchTab(t) ==
    /\ tab' = t /\ selected' = 0
    /\ Issue(Fetch(t, filter))
    /\ UNCHANGED <<data, filter, input, view, action>>

DownUnbounded ==                 \* mutant: the end of the list is not checked
    /\ selected' = selected + 1
    /\ UNCHANGED <<tab, data, filter, input, view, action, inflight>>

Down ==
    /\ selected + 1 < Cardinality(Rows(Displayed))
    /\ selected' = selected + 1
    /\ UNCHANGED <<tab, data, filter, input, view, action, inflight>>

Up ==
    /\ selected > 0
    /\ selected' = selected - 1
    /\ UNCHANGED <<tab, data, filter, input, view, action, inflight>>

Home ==
    /\ selected' = 0
    /\ UNCHANGED <<tab, data, filter, input, view, action, inflight>>

End ==
    /\ Displayed # {}
    /\ selected' = Cardinality(Rows(Displayed)) - 1
    /\ UNCHANGED <<tab, data, filter, input, view, action, inflight>>

ClearFilters ==
    /\ filter' = NoFilter /\ selected' = 0
    /\ Issue(Fetch(tab, NoFilter))
    /\ UNCHANGED <<tab, data, input, view, action>>

OpenInput(field) ==
    /\ input' = field
    /\ UNCHANGED <<tab, data, selected, filter, view, action, inflight>>

(* Keys l, y and e.                                                        *)
RequestDetail ==
    /\ selectedResourceInfo # NoRow
    /\ Issue(Detail)
    /\ UNCHANGED screen

(* Keys d, s and r; prompted is history: the resource the prompt is for.   *)
OpenPrompt(op) ==
    /\ selectedResourceInfo # NoRow
    /\ tab \in IF op = "delete" THEN Deletable ELSE Scalable
    /\ action' = [op |-> op, name |-> selectedResourceInfo.name, prompted |-> selectedResourceInfo]
    /\ UNCHANGED <<tab, data, selected, filter, input, view, inflight>>

ListKeys ==
    /\ ListMode
    /\ \/ Down \/ Up \/ Home \/ End \/ ClearFilters \/ RequestDetail
       \/ \E t \in Tabs : SwitchTab(t)
       \/ \E field \in {"scope", "status", "search"} : OpenInput(field)
       \/ \E op \in Actions : OpenPrompt(op)
    /\ UNCHANGED <<health, cluster>>

-----------------------------------------------------------------------------
(* Keys of the dialogs.  Update looks at the prompt first, then at the     *)
(* detail view, then at the filter input.                                  *)

(* ScaleDeployment and RestartDeployment always address a Deployment.      *)
AddressedTab(op, t) == IF op = "rollout" THEN "deployments" ELSE t

(* Enter: executeAction takes the name from the prompt, namespace and kind *)
(* from the selection as it is now.                                        *)
Confirm ==
    /\ action # NoAction
    /\ \/ LET now == selectedResourceInfo
              on == [tab |-> AddressedTab(action.op, now.tab), ns |-> now.ns,
                     name |-> action.name]
          IN Issue(Job(action.op, on, action.prompted))
       \/ Issue(Result)           \* not "yes", or not a number
    /\ action' = NoAction
    /\ UNCHANGED <<tab, data, selected, filter, input, view, health, cluster>>

CancelPrompt ==
    /\ action # NoAction
    /\ action' = NoAction
    /\ UNCHANGED <<tab, data, selected, filter, input, view, health, inflight, cluster>>

CloseDetail ==
    /\ action = NoAction /\ view = "detail"
    /\ view' = "list"
    /\ UNCHANGED <<tab, data, selected, filter, input, action, health, inflight, cluster>>

Choices == [scope |-> Scopes, status |-> Statuses, search |-> Queries]

ApplyFilter ==
    /\ action = NoAction /\ view = "list" /\ input # NoInput
    /\ \E f \in Choices[input] : filter' = [filter EXCEPT ![input] = f]
    /\ input' = NoInput
    /\ Issue(Fetch(tab, filter'))
    /\ UNCHANGED <<tab, data, selected, view, action, health, cluster>>

CancelInput ==
    /\ action = NoAction /\ view = "list" /\ input # NoInput
    /\ input' = NoInput
    /\ UNCHANGED <<tab, data, selected, filter, view, action, health, inflight, cluster>>

-----------------------------------------------------------------------------
(* Kubernetes.                                                             *)

Supported == Deletable \ {"ingresses"}    \* DeleteResource knows these kinds

(* The goroutine of executeAction; the API server may refuse.              *)
RunJob ==
    \E c \in BagToSet(inflight) :
        /\ c.kind = "job"
        /\ Becomes(c, Result)
        /\ \/ UNCHANGED cluster
           \/ /\ c.op = "delete" /\ c.on.tab \in Supported
              /\ cluster' = cluster \ {c.on}
        /\ UNCHANGED <<screen, health>>

ClusterChanges ==
    \E r \in Changing :
        /\ cluster' = IF r \in cluster THEN cluster \ {r} ELSE cluster \union {r}
        /\ UNCHANGED <<screen, health, inflight>>

-----------------------------------------------------------------------------

Messages ==
    TickArrives \/ Read \/ DataArrives \/ ErrorArrives \/ ResultArrives
    \/ DetailArrives \/ Swallow \/ RunJob

Keys ==
    ListKeys \/ Confirm \/ CancelPrompt \/ CloseDetail \/ ApplyFilter \/ CancelInput

Next == Messages \/ ReadFails \/ Keys \/ ClusterChanges

Spec == Init /\ [][Next]_vars

(* Timers fire, goroutines end and messages are handled.                   *)
Fairness ==
    /\ WF_vars(TickArrives) /\ WF_vars(Read) /\ WF_vars(DataArrives)
    /\ WF_vars(ErrorArrives) /\ WF_vars(ResultArrives) /\ WF_vars(DetailArrives)
    /\ WF_vars(RunJob) /\ WF_vars(Swallow)

FairSpec == Spec /\ Fairness

-----------------------------------------------------------------------------
(* Properties.                                                             *)

(* One dialog at a time has the keyboard: a detail that arrives late never *)
(* opens over a prompt or a filter input.                                  *)
OneDialog ==
    /\ action # NoAction => view = "list" /\ input = NoInput
    /\ view = "detail" => input = NoInput

(* A confirmed action goes to the resource its prompt was opened for, even *)
(* though namespace and kind are read from the selection again: no refresh *)
(* moves the rows under an open prompt.  Only the kind may differ, since   *)
(* scaling and restarting a StatefulSet addresses the Deployment's API.    *)
ActsOnPrompted ==
    \A c \in BagToSet(inflight) :
        c.kind = "job" =>
            c.on = [tab |-> AddressedTab(c.op, c.prompted.tab), ns |-> c.prompted.ns,
                    name |-> c.prompted.name]

(* model.go:351 says that selectedResourceInfo returns the resource that   *)
(* is selected in the active tab, which is the row highlighted there.      *)
SelectedIsHighlighted ==
    action # NoAction => action.prompted = highlighted

Chains == Cardinality({copy \in Copies(inflight) : copy[1] # Detail})

(* While the list is on the screen no refresh is lost: a message that is   *)
(* handled starts the next command, until an error is final.               *)
RefreshSurvives == [][ListMode /\ Chains' < Chains => err']_vars

Quiet == <>[][~(ReadFails \/ Keys \/ ClusterChanges)]_vars

Current == data[tab] = {r \in cluster : r.tab = tab} \intersect filter.scope

(* As long as some refresh is alive the list converges to the cluster,     *)
(* whatever answers for other tabs and filters are still to come, or the   *)
(* program shows an error.                                                 *)
ConvergesWhileRefreshing ==
    Quiet /\ <>[](ListMode /\ Chains > 0) => <>[](err \/ Current)

(* model.go:466 says that data messages are handled in detail mode too, so *)
(* as not to block the ticker: with no other dialog the list stays fresh.  *)
KeepsRefreshing ==
    Quiet /\ [](action = NoAction /\ input = NoInput) /\ <>[]ListMode =>
        <>[](err \/ Current)
=============================================================================
