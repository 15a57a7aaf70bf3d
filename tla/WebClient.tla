------------------------------ MODULE WebClient ------------------------------
(***************************************************************************)
(* The Dashboard's web client (src/agentbraid/dashboard_assets/app.js): a  *)
(* list of runs, one of them selected and shown in detail, which a poll    *)
(* refreshes every two seconds under whatever the user is doing.  One      *)
(* thread runs the script, but every request is awaited, and what was      *)
(* asked at one time is answered at a second and used at a third.          *)
(*                                                                         *)
(* A call is an asynchronous function that awaits an answer: "lists", then *)
(* "page", then "detail" (refreshAll), or the later ones of these          *)
(* (loadRuns, selectRun), or the request of a dialog, followed by a        *)
(* refresh.                                                                *)
(***************************************************************************)
EXTENDS Integers, SequencesExt

CONSTANTS
  Runs,
  Home,        \* the workspace of each run
  None,        \* no run
  Starts,      \* the lists of runs the server may have at first
  StartScopes, \* what may be chosen at first: everything, or initial_workspace
  PageSize,    \* PAGE_SIZE
  Calls,       \* numbers of calls that may be awaited at a time
  MaxActs,     \* bound on what the user does
  MaxTouches,  \* bound on what other processes do to the runs
  MaxErrors    \* bound on requests that fail for no other reason

Workspaces == {Home[r] : r \in Runs}
Scopes == Workspaces \cup {"all"}

ASSUME ClientAssumption ==
  /\ PageSize \in Nat \ {0} /\ Calls \subseteq Nat /\ None \notin Runs
  /\ {MaxActs, MaxTouches, MaxErrors} \subseteq Nat /\ "all" \notin Workspaces
  /\ StartScopes \subseteq Scopes /\ \A s \in Starts : s \in Seq(Runs) /\ IsInjective(s)

VARIABLES
  order,      \* the runs the server has, the last changed one first
  touches, errors, acts,
  scope,      \* workspaceSelect.value
  offset,     \* state.offset, in pages
  shown,      \* state.runs
  hasMore,    \* state.hasMore
  selected,   \* state.selectedRunId
  detail,     \* the run of state.detail
  ticked,     \* state.selectedRunIds
  previews,   \* the runs of state.deletePreviews
  busy,       \* state.pollInFlight
  dialogs,    \* the dialogs that are open, the last one on top: the runs each was about when
              \* the user opened it or typed into it, and whether another was selected since
  calls,      \* the calls that wait for an answer
  missed      \* whether a call failed, or a refresh was skipped, since the last one began

serverVars == <<order, touches>>
dialogVars == <<previews, dialogs>>
listVars == <<scope, offset, shown, hasMore, selected, detail, ticked>>
vars == <<serverVars, errors, acts, listVars, busy, calls, dialogVars, missed>>

NoCall ==
  [at |-> "none", runs |-> {}, scope |-> "all", offset |-> 0, append |-> FALSE,
   owns |-> FALSE, served |-> FALSE, page |-> <<>>]

\* Requests.  "owns" is a call of refreshAll, which has set pollInFlight, "append" one of
\* "load more", for its page and for the detail that follows.
Lists == [NoCall EXCEPT !.at = "lists", !.owns = TRUE]
Page(s, o, more, owner) ==
  [NoCall EXCEPT !.at = "page", !.scope = s, !.offset = o, !.append = more, !.owns = owner]
Detail(r, more, owner) ==
  [NoCall EXCEPT !.at = "detail", !.runs = {r}, !.append = more, !.owns = owner]
Request(kind, runs) == [NoCall EXCEPT !.at = kind, !.runs = runs]

OnRun == {"cancel", "apply"}
Confirmed == OnRun \cup {"delete"}

Await(c) ==
  \E i \in Calls :
    /\ calls[i] = NoCall /\ \A k \in Calls : calls[k] = NoCall => i <= k
    /\ calls' = [calls EXCEPT ![i] = c]

Init ==
  /\ order \in Starts
  /\ touches = 0 /\ errors = 0 /\ acts = 0
  /\ scope \in StartScopes
  /\ offset = 0 /\ shown = <<>> /\ hasMore = FALSE
  /\ selected = None /\ detail = None /\ ticked = {}
  /\ previews = {} /\ busy = FALSE /\ dialogs = <<>>
  /\ calls = [i \in Calls |-> IF i = 1 THEN Page(scope, 0, FALSE, FALSE) ELSE NoCall]
  /\ missed = FALSE

-----------------------------------------------------------------------------
(* The server.                                                             *)

InScope(s) == SelectSeq(order, LAMBDA r : s \in {"all", Home[r]})

PageAt(s, o) ==
  LET all == InScope(s)
      last == (o + 1) * PageSize
  IN SubSeq(all, o * PageSize + 1, IF last < Len(all) THEN last ELSE Len(all))

First(r) == <<r>> \o SelectSeq(order, LAMBDA q : q # r)

\* Another process creates or changes a run, or deletes it.
Touch ==
  /\ touches < MaxTouches
  /\ touches' = touches + 1
  /\ \E r \in Runs : order' \in {First(r), SelectSeq(order, LAMBDA q : q # r)} \ {order}
  /\ UNCHANGED <<errors, acts, listVars, busy, calls, dialogVars, missed>>

Served(i, page) ==
  calls' = [calls EXCEPT ![i].served = TRUE, ![i].page = page]

\* The server handles a request, and the client takes the answer later.  What it says of
\* one run, or of those previewed, and that one was cancelled or applied, tells no time:
\* these are answered and taken at once.
Reply(i) ==
  LET c == calls[i]
  IN /\ c.at # "none" /\ ~c.served
     /\ \/ c.at = "lists" /\ Served(i, order) /\ UNCHANGED order
        \/ c.at = "page" /\ c.offset >= 0 /\ Served(i, PageAt(c.scope, c.offset)) /\ UNCHANGED order
        \/ c.at = "start" /\ \E r \in Runs \ ToSet(order) : order' = First(r) /\ Served(i, <<r>>)
        \/ c.at = "delete" /\ \E D \in SUBSET (c.runs \cap ToSet(order)) :
             /\ order' = SelectSeq(order, LAMBDA r : r \notin D)
             /\ Served(i, SetToSeq(D))
     /\ UNCHANGED <<touches, errors, acts, listVars, busy, dialogVars, missed>>

\* What cannot be served: a run that is gone, a page before the first.
Impossible(c) ==
  \/ c.at = "page" /\ c.offset < 0
  \/ c.at \in {"detail", "cancel", "apply", "preview"} /\ ~ c.runs \subseteq ToSet(order)
  \/ c.at = "start" /\ Runs \subseteq ToSet(order)

-----------------------------------------------------------------------------
(* Answers.                                                                *)

Dialog(kind, runs, wrong) == [kind |-> kind, read |-> runs, replaced |-> wrong]
Top == Last(dialogs)

\* Each dialog is one element of the page.
Close(kind) ==
  IF \E k \in DOMAIN dialogs : dialogs[k].kind = kind
  THEN RemoveAt(dialogs, CHOOSE k \in DOMAIN dialogs : dialogs[k].kind = kind)
  ELSE dialogs

\* The selected run is gone from under the dialogs about it.
Replace(open) == [k \in DOMAIN open |-> [open[k] EXCEPT !.replaced = @ \/ open[k].kind \in OnRun]]

EndCall(i) ==
  /\ calls' = [calls EXCEPT ![i] = NoCall]
  /\ busy' = IF calls[i].owns THEN FALSE ELSE busy

\* refreshAll after a request was answered; it returns when another one is at work.
ThenRefresh(i) ==
  \/ busy /\ EndCall(i) /\ missed' = TRUE
  \/ ~busy /\ busy' = TRUE /\ missed' = FALSE /\ calls' = [calls EXCEPT ![i] = Lists]

\* A workspace the new options lack gives way to the first option, all of them.
ReceiveLists(i) ==
  LET known == {Home[r] : r \in ToSet(calls[i].page)}
      kept == IF scope \in known THEN scope ELSE "all"
  IN /\ calls[i].at = "lists"
     /\ scope' = kept /\ offset' = 0
     /\ calls' = [calls EXCEPT ![i] = Page(kept, 0, FALSE, TRUE)]
     /\ UNCHANGED <<shown, hasMore, selected, detail, ticked, busy, dialogVars, missed>>

\* A bug to find: a run stays selected although the list lacks it.
KeptAlways(page) == IF selected # None \/ page = <<>> THEN selected ELSE page[1]

\* The run that is selected once the list is there.
Kept(page) ==
  IF selected \in ToSet(page) THEN selected ELSE IF page = <<>> THEN None ELSE page[1]

\* The end of loadRuns.
ReceivePage(i) ==
  LET list == IF calls[i].append THEN shown \o calls[i].page ELSE calls[i].page
      chosen == Kept(list)
  IN /\ calls[i].at = "page"
     /\ shown' = list /\ selected' = chosen
     /\ hasMore' = (Len(calls[i].page) = PageSize)
     /\ ticked' = ticked \cap ToSet(list)
     /\ \/ chosen = None /\ detail' = None /\ EndCall(i)
        \/ /\ chosen # None /\ UNCHANGED <<detail, busy>>
           /\ calls' = [calls EXCEPT ![i] = Detail(chosen, @.append, @.owns)]
     /\ dialogs' = IF selected \in ToSet(list) THEN dialogs ELSE Replace(dialogs)
     /\ UNCHANGED <<scope, offset, previews, missed>>

\* A bug to find: an answer is shown whatever was selected since.
WantedAlways(r) == TRUE

Wanted(r) == selected = r

ReceiveDetail(i) ==
  /\ calls[i].at = "detail" /\ calls[i].runs \subseteq ToSet(order)
  /\ \E r \in calls[i].runs : detail' = IF Wanted(r) THEN r ELSE detail
  /\ EndCall(i)
  /\ UNCHANGED <<scope, offset, shown, hasMore, selected, ticked, dialogVars, missed>>

ReceiveDone(i) ==
  /\ calls[i].at \in OnRun
  /\ \E r \in calls[i].runs \cap ToSet(order) : order' = First(r)
  /\ dialogs' = IF calls[i].at = "apply" THEN Close("apply") ELSE dialogs
  /\ ThenRefresh(i)
  /\ UNCHANGED <<touches, errors, acts, listVars, previews>>

ReceiveStarted(i) ==
  /\ calls[i].at = "start"
  /\ selected' = calls[i].page[1]
  /\ dialogs' = Replace(Close("start"))
  /\ ThenRefresh(i)
  /\ UNCHANGED <<scope, offset, shown, hasMore, detail, ticked, previews>>

\* The end of openDeleteDialog, which also empties the field for the confirmation.
ReceivePreview(i) ==
  /\ calls[i].at = "preview" /\ calls[i].runs \subseteq ToSet(order)
  /\ previews' = calls[i].runs
  /\ dialogs' = Append(Close("delete"), Dialog("delete", {}, FALSE))
  /\ EndCall(i)
  /\ UNCHANGED <<listVars, missed>>

ReceiveDeleted(i) ==
  LET gone == ToSet(calls[i].page)
  IN /\ calls[i].at = "delete"
     /\ ticked' = ticked \ gone
     /\ selected' = IF selected \in gone THEN None ELSE selected
     /\ previews' = {}
     /\ dialogs' = IF selected \in gone THEN Replace(Close("delete")) ELSE Close("delete")
     /\ ThenRefresh(i)
     /\ UNCHANGED <<scope, offset, shown, hasMore, detail>>

\* The rejected request leaves all its callers; loading more takes its page back, also
\* when the page was appended already and the detail after it is what fails.
Fail(i) ==
  /\ calls[i].at # "none" /\ ~calls[i].served
  /\ \/ Impossible(calls[i]) /\ UNCHANGED errors
     \/ ~Impossible(calls[i]) /\ errors < MaxErrors /\ errors' = errors + 1
  /\ offset' = IF calls[i].append THEN offset - 1 ELSE offset
  /\ dialogs' = IF calls[i].at = "apply" THEN Close("apply") ELSE dialogs
  /\ EndCall(i)
  /\ missed' = TRUE
  /\ UNCHANGED <<serverVars, acts, scope, shown, hasMore, selected, detail, ticked,
                 previews>>

Receive(i) ==
  \/ ReceiveDone(i)
  \/ /\ \/ ReceiveDetail(i) \/ ReceivePreview(i)
        \/ /\ calls[i].served
           /\ \/ ReceiveLists(i) \/ ReceivePage(i) \/ ReceiveStarted(i) \/ ReceiveDeleted(i)
     /\ UNCHANGED <<serverVars, errors, acts>>

\* Every two seconds, at the button, and when the page becomes visible.
Poll ==
  /\ ~busy /\ busy' = TRUE /\ missed' = FALSE
  /\ Await(Lists)
  /\ UNCHANGED <<serverVars, errors, acts, listVars, dialogVars>>

-----------------------------------------------------------------------------
(* The user, who cannot reach what lies behind an open dialog.             *)

Click ==
  /\ dialogs = <<>>
  /\ \E r \in ToSet(shown) : selected' = r /\ Await(Detail(r, FALSE, FALSE))
  /\ UNCHANGED <<scope, offset, shown, hasMore, detail, ticked, dialogVars>>

ChangeScope ==
  /\ dialogs = <<>>
  /\ scope' \in Scopes \ {scope}
  /\ offset' = 0 /\ selected' = None /\ detail' = None
  /\ ticked' = {} /\ previews' = {}
  /\ Await(Page(scope', 0, FALSE, FALSE))
  /\ UNCHANGED <<shown, hasMore, dialogs>>

LoadMore ==
  /\ dialogs = <<>> /\ hasMore
  /\ offset' = offset + 1
  /\ Await(Page(scope, offset', TRUE, FALSE))
  /\ UNCHANGED <<scope, shown, hasMore, selected, detail, ticked, dialogVars>>

Tick ==
  /\ dialogs = <<>>
  /\ \E r \in ToSet(shown) : ticked' = SymDiff(ticked, {r})
  /\ UNCHANGED <<scope, offset, shown, hasMore, selected, detail, calls, dialogVars>>

Preview ==
  /\ dialogs = <<>> /\ ticked # {}
  /\ Await(Request("preview", ticked))
  /\ UNCHANGED <<listVars, dialogVars>>

\* The buttons belong to the detail that is shown.
OpenDialog ==
  /\ dialogs = <<>>
  /\ \/ detail # None /\ \E kind \in OnRun : dialogs' = <<Dialog(kind, {detail}, selected # detail)>>
     \/ dialogs' = <<Dialog("start", {}, FALSE)>>
  /\ UNCHANGED <<listVars, calls, previews>>

\* "delete-selected-runs", under the runs of the preview.
Type ==
  /\ dialogs # <<>> /\ Top.kind = "delete"
  /\ dialogs' = Append(Front(dialogs), [Top EXCEPT !.read = previews])
  /\ UNCHANGED <<listVars, calls, previews>>

\* A bug to find: the runs selected for deletion now, not those previewed.
AskedTicked(kind) == CASE kind = "start" -> {} [] kind = "delete" -> ticked [] OTHER -> {selected}

\* The runs a confirmed dialog asks for.
Asked(kind) == CASE kind = "start" -> {} [] kind = "delete" -> previews [] OTHER -> {selected}

Confirm ==
  /\ dialogs # <<>>
  /\ Top.kind = "delete" => Top.read # {}
  /\ None \notin Asked(Top.kind)
  /\ Await(Request(Top.kind, Asked(Top.kind)))
  /\ dialogs' = IF Top.kind = "cancel" THEN Front(dialogs) ELSE dialogs
  /\ UNCHANGED <<listVars, previews>>

Dismiss ==
  /\ dialogs # <<>>
  /\ dialogs' = Front(dialogs)
  /\ previews' = IF Top.kind = "delete" THEN {} ELSE previews
  /\ UNCHANGED <<listVars, calls>>

User ==
  /\ acts < MaxActs /\ acts' = acts + 1
  /\ \/ Click \/ ChangeScope \/ LoadMore \/ Tick \/ Preview
     \/ OpenDialog \/ Type \/ Confirm \/ Dismiss
  /\ UNCHANGED <<serverVars, errors, busy, missed>>

Answers(i) == Reply(i) \/ Fail(i)

Next == Touch \/ Poll \/ User \/ \E i \in Calls : Answers(i) \/ Receive(i)

\* The page is visible, the server answers, and the script takes the answers.
Spec ==
  /\ Init /\ [][Next]_vars
  /\ WF_vars(Poll)
  /\ \A i \in Calls : WF_vars(Answers(i)) /\ WF_vars(Receive(i))

-----------------------------------------------------------------------------
\* A confirmation asks for the runs the user saw when he opened the dialog, or typed the
\* confirmation, whatever the poll did under it: deletion always does.  The dialogs of a
\* cancellation and of an application ask for the run selected when they are confirmed,
\* which is another one when the list that was refreshed meanwhile did not have it on its
\* first page (it was on a later one, or fell behind, or is gone), when a run was started
\* meanwhile, or when a run was selected and its detail had not come yet; only then.
ConfirmsWhatWasRead ==
  [][\A i \in Calls :
       calls[i] = NoCall /\ calls'[i].at \in Confirmed
         => calls'[i].runs = Top.read \/ (Top.kind \in OnRun /\ Top.replaced)]_vars

\* When no call waits for an answer the detail is that of the selected run, in whatever
\* order the answers came, unless a call failed or a refresh was skipped.
QuietShowsSelected ==
  (\A i \in Calls : calls[i] = NoCall) /\ ~missed => detail = selected

\* What a page shows that agrees with the server.
Settled ==
  /\ shown = PageAt(scope, 0)
  /\ detail = selected
  /\ IF shown = <<>> THEN selected = None ELSE selected \in ToSet(shown)

\* When nobody touches the runs or the page any more, the page comes to agree with the
\* server and stays so, after whatever failures and late answers.
Settles == <>[]Settled
=============================================================================
