---------------------------- MODULE WebClientProofs ----------------------------
(***************************************************************************)
(* The page comes to show the run that is selected, and a confirmed dialog *)
(* asks for what its user was shown: for any runs, pages, calls awaited at *)
(* a time and acts of the user, in whatever order answers come.            *)
(***************************************************************************)
EXTENDS WebClient, SequenceTheorems, TLAPS

-----------------------------------------------------------------------------
(* The inductive invariant *)

\* A call is a record of these parts, and a dialog of those.
CallsOf(A, R, S, O, M, W, V, P) ==
  [at : A, runs : R, scope : S, offset : O, append : M, owns : W, served : V, page : P]
IsCall(c) == \E A, R, S, O, M, W, V, P : c \in CallsOf(A, R, S, O, M, W, V, P)
CallsOK == calls = [i \in Calls |-> calls[i]] /\ \A i \in Calls : IsCall(calls[i])

Kinds == OnRun \cup {"delete", "start"}
DialogsOf(R) == [kind : Kinds, read : R, replaced : BOOLEAN]
AreDialogs(ds) == \E R : ds \in Seq(DialogsOf(R))

\* The answer to this call will bring the detail of the selected run, or lead to a call
\* whose answer does.
Answering(i) ==
  \/ calls[i].at \in {"lists", "page"}
  \/ calls[i].at = "detail" /\ calls[i].runs = {selected}

DetailComes == missed \/ detail = selected \/ \E i \in Calls : Answering(i)

\* What the user read in a dialog is what it asks for, when s is selected and the runs p are
\* previewed, unless another run was selected under it.
Reads(d, s, p) ==
  /\ d.kind \in OnRun => d.read = {s} \/ d.replaced
  /\ d.kind = "delete" => d.read \in {{}, p}

\* Each dialog is open once.
OnceEach(ds) == \A j, k \in DOMAIN ds : ds[j].kind = ds[k].kind => j = k
Lacks(ds, kind) == \A k \in DOMAIN ds : ds[k].kind # kind

Honest(ds, s, p) ==
  /\ AreDialogs(ds) /\ OnceEach(ds)
  /\ \A k \in DOMAIN ds : Reads(ds[k], s, p)

ClientConsistent == CallsOK /\ DetailComes /\ Honest(dialogs, selected, previews)

-----------------------------------------------------------------------------
(* Calls *)

\* The parts of the calls that are made.
LEMMA NewCalls ==
  /\ IsCall(NoCall) /\ NoCall.at = "none"
  /\ IsCall(Lists) /\ Lists.at = "lists"
  /\ \A s, o, more, owner : IsCall(Page(s, o, more, owner)) /\ Page(s, o, more, owner).at = "page"
  /\ \A r, more, owner :
       /\ IsCall(Detail(r, more, owner)) /\ Detail(r, more, owner).at = "detail"
       /\ Detail(r, more, owner).runs = {r}
  /\ \A kind, runs : /\ IsCall(Request(kind, runs)) /\ Request(kind, runs).at = kind
                     /\ Request(kind, runs).runs = runs
<1>1. NoCall \in CallsOf({"none"}, {{}}, {"all"}, {0}, {FALSE}, {FALSE}, {FALSE}, {<<>>})
  BY DEF NoCall, CallsOf
<1>2. IsCall(NoCall) /\ NoCall.at = "none"
  <2>1. IsCall(NoCall)
    BY <1>1 DEF IsCall
  <2>. QED
    BY <1>1, <2>1 DEF CallsOf
<1>3. IsCall(Lists) /\ Lists.at = "lists"
  <2>1. Lists \in CallsOf({"lists"}, {{}}, {"all"}, {0}, {FALSE}, {TRUE}, {FALSE}, {<<>>})
    BY <1>1 DEF Lists, CallsOf
  <2>2. IsCall(Lists)
    BY <2>1 DEF IsCall
  <2>. QED
    BY <2>1, <2>2 DEF CallsOf
<1>4. ASSUME NEW s, NEW o, NEW more, NEW owner
      PROVE  IsCall(Page(s, o, more, owner)) /\ Page(s, o, more, owner).at = "page"
  <2>1. Page(s, o, more, owner) \in CallsOf({"page"}, {{}}, {s}, {o}, {more}, {owner}, {FALSE}, {<<>>})
    BY <1>1 DEF Page, CallsOf
  <2>2. IsCall(Page(s, o, more, owner))
    BY <2>1 DEF IsCall
  <2>. QED
    BY <2>1, <2>2 DEF CallsOf
<1>5. ASSUME NEW r, NEW more, NEW owner
      PROVE  /\ IsCall(Detail(r, more, owner)) /\ Detail(r, more, owner).at = "detail"
             /\ Detail(r, more, owner).runs = {r}
  <2>1. Detail(r, more, owner) \in CallsOf({"detail"}, {{r}}, {"all"}, {0}, {more}, {owner}, {FALSE}, {<<>>})
    BY <1>1 DEF Detail, CallsOf
  <2>2. IsCall(Detail(r, more, owner))
    BY <2>1 DEF IsCall
  <2>. QED
    BY <2>1, <2>2 DEF CallsOf
<1>6. ASSUME NEW kind, NEW runs
      PROVE  /\ IsCall(Request(kind, runs)) /\ Request(kind, runs).at = kind
             /\ Request(kind, runs).runs = runs
  <2>1. Request(kind, runs) \in CallsOf({kind}, {runs}, {"all"}, {0}, {FALSE}, {FALSE}, {FALSE}, {<<>>})
    BY <1>1 DEF Request, CallsOf
  <2>2. IsCall(Request(kind, runs))
    BY <2>1 DEF IsCall
  <2>. QED
    BY <2>1, <2>2 DEF CallsOf
<1>. QED
  BY <1>2, <1>3, <1>4, <1>5, <1>6

\* What an answer adds to a call.
LEMMA AnsweredCalls ==
  ASSUME NEW c, IsCall(c), NEW page
  PROVE  LET d == [[c EXCEPT !.served = TRUE] EXCEPT !.page = page]
         IN  IsCall(d) /\ d.at = c.at /\ d.runs = c.runs
<1>1. PICK A, R, S, O, M, W, V, P : c \in CallsOf(A, R, S, O, M, W, V, P)
  BY DEF IsCall
<1>2. [[c EXCEPT !.served = TRUE] EXCEPT !.page = page]
        \in CallsOf(A, R, S, O, M, W, V \cup {TRUE}, P \cup {page})
  BY <1>1 DEF CallsOf
<1>3. LET d == [[c EXCEPT !.served = TRUE] EXCEPT !.page = page]
      IN  d.at = c.at /\ d.runs = c.runs
  BY <1>1 DEF CallsOf
<1>. QED
  BY <1>2, <1>3 DEF IsCall

\* One call becomes another, and the others stay.
Becomes(i, c) ==
  /\ calls'[i] = c /\ \A j \in Calls \ {i} : calls'[j] = calls[j]

LEMMA CallBecomes ==
  ASSUME CallsOK, NEW i \in Calls, NEW c, IsCall(c), calls' = [calls EXCEPT ![i] = c]
  PROVE  CallsOK' /\ Becomes(i, c)
  BY DEF CallsOK, Becomes

\* A call is awaited in place of none.
LEMMA Awaits ==
  ASSUME CallsOK, NEW c, IsCall(c), Await(c)
  PROVE  CallsOK' /\ \E i \in Calls : calls[i] = NoCall /\ Becomes(i, c)
  BY CallBecomes DEF Await

\* What becomes of a call that was answered, and refreshed after.
LEMMA Ends ==
  ASSUME CallsOK, NEW i \in Calls
  PROVE  /\ EndCall(i) => CallsOK' /\ Becomes(i, NoCall)
         /\ ThenRefresh(i) => /\ CallsOK'
                              /\ \/ missed' /\ Becomes(i, NoCall)
                                 \/ Becomes(i, Lists)
<1>1. EndCall(i) => CallsOK' /\ Becomes(i, NoCall)
  BY NewCalls, CallBecomes DEF EndCall
<1>. QED
  BY <1>1, NewCalls, CallBecomes DEF ThenRefresh

-----------------------------------------------------------------------------
(* Dialogs *)

\* What is left when one of several dialogs is closed.
LEMMA OneLess ==
  ASSUME NEW S, NEW ds \in Seq(S), NEW k \in DOMAIN ds
  PROVE  LET rest == RemoveAt(ds, k)
         IN  /\ rest \in Seq(S) /\ Len(rest) = Len(ds) - 1
             /\ \A j \in DOMAIN rest : rest[j] = IF j < k THEN ds[j] ELSE ds[j + 1]
<1>. DEFINE before == SubSeq(ds, 1, k - 1)
            after == SubSeq(ds, k + 1, Len(ds))
<1>1. k \in 1 .. Len(ds) /\ Len(ds) \in Nat /\ DOMAIN ds = 1 .. Len(ds)
  OBVIOUS
<1>2. /\ before \in Seq(S) /\ Len(before) = k - 1
      /\ \A j \in 1 .. k - 1 : before[j] = ds[j]
  BY <1>1
<1>3. /\ after \in Seq(S) /\ Len(after) = Len(ds) - k
      /\ \A j \in 1 .. Len(ds) - k : after[j] = ds[k + j]
  BY <1>1
<1>4. RemoveAt(ds, k) = before \o after
  BY DEF RemoveAt
<1>. HIDE DEF before, after
<1>5. RemoveAt(ds, k) \in Seq(S) /\ Len(RemoveAt(ds, k)) = Len(ds) - 1
  <2>1. before \o after \in Seq(S) /\ Len(before \o after) = Len(before) + Len(after)
    BY <1>2, <1>3, ConcatProperties
  <2>. QED
    BY <1>1, <1>2, <1>3, <1>4, <2>1
<1>6. ASSUME NEW j \in 1 .. Len(ds) - 1
      PROVE  RemoveAt(ds, k)[j] = IF j < k THEN ds[j] ELSE ds[j + 1]
  <2>1. CASE j < k
    BY <1>1, <1>2, <1>3, <1>4, <2>1
  <2>2. CASE j >= k
    <3>1. j - (k - 1) \in 1 .. Len(ds) - k /\ k + (j - (k - 1)) = j + 1
      BY <1>1, <2>2
    <3>2. (before \o after)[j] = after[j - (k - 1)]
      BY <1>1, <1>2, <1>3, <2>2, <3>1
    <3>. QED
      BY <1>1, <1>3, <1>4, <2>2, <3>1, <3>2
  <2>. QED
    BY <1>1, <2>1, <2>2
<1>. QED
  BY <1>5, <1>6

\* Closing a dialog leaves the others as they were, and none of its kind.
LEMMA OneClosed ==
  ASSUME NEW ds, NEW s, NEW p, Honest(ds, s, p), NEW k \in DOMAIN ds
  PROVE  Honest(RemoveAt(ds, k), s, p) /\ Lacks(RemoveAt(ds, k), ds[k].kind)
<1>. DEFINE rest == RemoveAt(ds, k)
            was(j) == IF j < k THEN j ELSE j + 1
<1>1. PICK R : ds \in Seq(DialogsOf(R))
  BY DEF Honest, AreDialogs
<1>2. /\ rest \in Seq(DialogsOf(R)) /\ Len(rest) = Len(ds) - 1
      /\ \A j \in DOMAIN rest : rest[j] = IF j < k THEN ds[j] ELSE ds[j + 1]
  BY <1>1, OneLess
<1>3. /\ DOMAIN ds = 1 .. Len(ds) /\ Len(ds) \in Nat /\ DOMAIN rest = 1 .. Len(ds) - 1
  BY <1>1, <1>2
<1>. HIDE DEF rest
<1>4. \A j \in DOMAIN rest : was(j) \in DOMAIN ds \ {k} /\ rest[j] = ds[was(j)]
  BY <1>2, <1>3
<1>5. \A i, j \in DOMAIN rest : was(i) = was(j) => i = j
  BY <1>3
<1>. HIDE DEF was
<1>6. AreDialogs(rest)
  BY <1>2 DEF AreDialogs
<1>7. OnceEach(rest) /\ Lacks(rest, ds[k].kind)
  BY <1>4, <1>5 DEF OnceEach, Lacks, Honest
<1>8. \A j \in DOMAIN rest : Reads(rest[j], s, p)
  BY <1>4 DEF Honest
<1>. QED
  BY <1>6, <1>7, <1>8 DEF Honest, rest

\* A dialog is closed by its kind, if it is open.
LEMMA Closed ==
  ASSUME NEW s, NEW p, Honest(dialogs, s, p), NEW kind
  PROVE  Honest(Close(kind), s, p) /\ Lacks(Close(kind), kind)
<1>1. CASE \E k \in DOMAIN dialogs : dialogs[k].kind = kind
  <2>. DEFINE k == CHOOSE k \in DOMAIN dialogs : dialogs[k].kind = kind
  <2>1. k \in DOMAIN dialogs /\ dialogs[k].kind = kind
    BY <1>1
  <2>2. Close(kind) = RemoveAt(dialogs, k)
    BY <1>1 DEF Close
  <2>. HIDE DEF k
  <2>. QED
    BY <2>1, <2>2, OneClosed
<1>2. CASE ~ \E k \in DOMAIN dialogs : dialogs[k].kind = kind
  BY <1>2 DEF Close, Lacks
<1>. QED
  BY <1>1, <1>2

\* The dialog on top is closed.
LEMMA TopClosed ==
  ASSUME NEW s, NEW p, Honest(dialogs, s, p), dialogs # <<>>
  PROVE  /\ Honest(Front(dialogs), s, p) /\ Lacks(Front(dialogs), Top.kind)
         /\ Len(dialogs) \in DOMAIN dialogs /\ Top = dialogs[Len(dialogs)]
<1>1. PICK R : dialogs \in Seq(DialogsOf(R))
  BY DEF Honest, AreDialogs
<1>2. Len(dialogs) \in DOMAIN dialogs /\ Top = dialogs[Len(dialogs)]
  BY <1>1 DEF Top, Last
<1>3. RemoveAt(dialogs, Len(dialogs)) = Front(dialogs)
  <2>1. Front(dialogs) \in Seq(DialogsOf(R))
    BY <1>1, <1>2 DEF Front
  <2>2. SubSeq(dialogs, Len(dialogs) + 1, Len(dialogs)) = <<>>
    BY <1>1, <1>2, SubSeqEmpty
  <2>. QED
    BY <2>1, <2>2, ConcatEmptySeq DEF RemoveAt, Front
<1>. QED
  BY <1>2, <1>3, OneClosed

\* A dialog opens on top of the others.
LEMMA OneOpened ==
  ASSUME NEW ds, NEW s, NEW p, Honest(ds, s, p), NEW R, NEW d \in DialogsOf(R),
         Reads(d, s, p), Lacks(ds, d.kind)
  PROVE  Honest(Append(ds, d), s, p)
<1>1. PICK Q : ds \in Seq(DialogsOf(Q))
  BY DEF Honest, AreDialogs
<1>2. DialogsOf(Q) \subseteq DialogsOf(Q \cup R) /\ d \in DialogsOf(Q \cup R)
  BY DEF DialogsOf
<1>3. ds \in Seq(DialogsOf(Q \cup R))
  BY <1>1, <1>2, SeqMonotonic
<1>4. /\ Append(ds, d) \in Seq(DialogsOf(Q \cup R))
      /\ DOMAIN ds = 1 .. Len(ds) /\ Len(ds) \in Nat
      /\ DOMAIN Append(ds, d) = 1 .. Len(ds) + 1
      /\ Append(ds, d)[Len(ds) + 1] = d
      /\ \A k \in 1 .. Len(ds) : Append(ds, d)[k] = ds[k]
  BY <1>2, <1>3, AppendProperties
<1>5. AreDialogs(Append(ds, d))
  BY <1>4 DEF AreDialogs
<1>6. \A k \in DOMAIN Append(ds, d) :
        \/ k = Len(ds) + 1 /\ Append(ds, d)[k] = d
        \/ k \in DOMAIN ds /\ Append(ds, d)[k] = ds[k]
  BY <1>4
<1>7. OnceEach(Append(ds, d))
  BY <1>6 DEF OnceEach, Lacks, Honest
<1>8. \A k \in DOMAIN Append(ds, d) : Reads(Append(ds, d)[k], s, p)
  BY <1>6 DEF Honest
<1>. QED
  BY <1>5, <1>7, <1>8 DEF Honest

\* Another run is selected under the dialogs, which tell so.
LEMMA UnderTheDialogs ==
  ASSUME NEW ds, NEW s, NEW t, NEW p, Honest(ds, s, p)
  PROVE  Honest(Replace(ds), t, p)
<1>1. PICK R : ds \in Seq(DialogsOf(R))
  BY DEF Honest, AreDialogs
<1>2. DOMAIN ds = 1 .. Len(ds) /\ Len(ds) \in Nat /\ \A k \in DOMAIN ds : ds[k] \in DialogsOf(R)
  BY <1>1
<1>3. ASSUME NEW k \in DOMAIN ds
      PROVE  /\ Replace(ds)[k] \in DialogsOf(R)
             /\ Replace(ds)[k].kind = ds[k].kind /\ Replace(ds)[k].read = ds[k].read
             /\ ds[k].kind \in OnRun => Replace(ds)[k].replaced
  BY <1>2 DEF Replace, DialogsOf
<1>4. Replace(ds) \in Seq(DialogsOf(R)) /\ DOMAIN Replace(ds) = DOMAIN ds
  <2>1. Replace(ds) = [k \in 1 .. Len(ds) |-> Replace(ds)[k]]
    BY <1>2 DEF Replace
  <2>. QED
    BY <1>2, <1>3, <2>1, IsASeq
<1>5. AreDialogs(Replace(ds))
  BY <1>4 DEF AreDialogs
<1>6. OnceEach(Replace(ds))
  BY <1>3, <1>4 DEF OnceEach, Honest
<1>7. \A k \in DOMAIN ds : Reads(Replace(ds)[k], t, p)
  BY <1>3 DEF Reads, Honest, OnRun
<1>. QED
  BY <1>4, <1>5, <1>6, <1>7 DEF Honest

\* Other runs are previewed when no dialog asks to delete any.
LEMMA OtherPreviews ==
  ASSUME NEW ds, NEW s, NEW p, NEW q, Honest(ds, s, p), Lacks(ds, "delete")
  PROVE  Honest(ds, s, q)
  BY DEF Honest, Lacks, Reads

\* Nothing is read when no dialog is open.
LEMMA NoDialog == \A s, p : Honest(<<>>, s, p)
<1>1. AreDialogs(<<>>)
  BY EmptySeq DEF AreDialogs
<1>2. DOMAIN <<>> = {}
  OBVIOUS
<1>. QED
  BY <1>1, <1>2 DEF Honest, OnceEach

-----------------------------------------------------------------------------
(* What comes of the calls                                                 *)

\* No step but a confirmation makes a request of a dialog.
NothingAsked == \A i \in Calls : calls[i] = NoCall => calls'[i].at \notin Confirmed

\* A call that nobody waits for the detail of ends, or becomes another such.
LEMMA OthersAnswer ==
  ASSUME DetailComes, NEW i \in Calls, NEW c, Becomes(i, c), ~ Answering(i),
         UNCHANGED <<selected, detail, missed>>
  PROVE  DetailComes'
  BY DEF DetailComes, Answering, Becomes

\* A call that asks for no dialog is awaited, or ends.
LEMMA NotAsked ==
  ASSUME NEW i \in Calls, NEW c, Becomes(i, c), c.at \notin Confirmed
  PROVE  NothingAsked
  BY NewCalls DEF NothingAsked, Becomes, Confirmed, OnRun

\* A call ends.
LEMMA EndsQuietly ==
  ASSUME NEW i \in Calls, Becomes(i, NoCall)
  PROVE  NothingAsked
  BY NewCalls, NotAsked DEF Confirmed, OnRun

\* A call whose answer will bring the detail is awaited.
LEMMA WillAnswer ==
  ASSUME NEW i \in Calls, NEW c, Becomes(i, c),
         c.at \in {"lists", "page"} \/ (c.at = "detail" /\ c.runs = {selected'})
  PROVE  DetailComes' /\ NothingAsked
<1>1. Answering(i)'
  BY DEF Answering, Becomes
<1>2. NothingAsked
  BY NotAsked DEF Confirmed, OnRun
<1>. QED
  BY <1>1, <1>2 DEF DetailComes

\* The detail is on its way, or a refresh is, after a request was answered.
LEMMA RefreshAnswers ==
  ASSUME CallsOK, NEW i \in Calls, ThenRefresh(i)
  PROVE  CallsOK' /\ DetailComes' /\ NothingAsked
<1>1. CASE missed' /\ Becomes(i, NoCall)
  <2>1. DetailComes'
    BY <1>1 DEF DetailComes
  <2>2. CallsOK'
    BY Ends
  <2>. QED
    BY <1>1, <2>1, <2>2, EndsQuietly
<1>2. CASE Becomes(i, Lists)
  <2>1. CallsOK' /\ Lists.at \in {"lists", "page"}
    BY Ends, NewCalls
  <2>. QED
    BY <1>2, <2>1, WillAnswer
<1>. QED
  BY <1>1, <1>2, Ends

\* Nothing comes of the calls when they are left alone.
LEMMA StayAnswered ==
  ASSUME ClientConsistent, UNCHANGED <<calls, selected, detail, missed>>
  PROVE  CallsOK' /\ DetailComes' /\ NothingAsked
<1>1. CallsOK'
  BY DEF ClientConsistent, CallsOK
<1>2. DetailComes'
  BY DEF ClientConsistent, DetailComes, Answering
<1>3. NothingAsked
  BY NewCalls DEF NothingAsked, Confirmed, OnRun
<1>. QED
  BY <1>1, <1>2, <1>3

\* A reply is the answer to one call, which goes on waiting for it to be taken.
LEMMA RepliesAnswer ==
  ASSUME ClientConsistent, NEW i \in Calls, Reply(i)
  PROVE  CallsOK' /\ DetailComes' /\ NothingAsked
<1>1. PICK page : Served(i, page)
  BY DEF Reply
<1>2. calls[i] # NoCall /\ UNCHANGED <<selected, detail, missed>>
  BY NewCalls DEF Reply, listVars
<1>. DEFINE c == [[calls[i] EXCEPT !.served = TRUE] EXCEPT !.page = page]
<1>3. CallsOK /\ IsCall(c) /\ c.at = calls[i].at /\ c.runs = calls[i].runs
  BY AnsweredCalls DEF ClientConsistent, CallsOK
<1>4. calls' = [calls EXCEPT ![i] = c]
  BY <1>1 DEF Served
<1>. HIDE DEF c
<1>5. CallsOK' /\ Becomes(i, c)
  BY <1>3, <1>4, CallBecomes
<1>6. \A j \in Calls : Answering(j) => Answering(j)'
  BY <1>2, <1>3, <1>5 DEF Answering, Becomes
<1>7. DetailComes'
  BY <1>2, <1>6 DEF ClientConsistent, DetailComes
<1>8. NothingAsked
  BY <1>2, <1>5, NewCalls DEF Becomes, NothingAsked, Confirmed, OnRun
<1>. QED
  BY <1>5, <1>7, <1>8

\* A call that fails is missed.
LEMMA FailuresAnswer ==
  ASSUME ClientConsistent, NEW i \in Calls, Fail(i)
  PROVE  CallsOK' /\ DetailComes' /\ NothingAsked
<1>1. CallsOK' /\ Becomes(i, NoCall)
  BY Ends DEF Fail, ClientConsistent
<1>. QED
  BY <1>1, EndsQuietly DEF Fail, DetailComes

\* An answer that is taken brings the detail of the selected run, or a call that will.
LEMMA ReceiptsAnswer ==
  ASSUME ClientConsistent, NEW i \in Calls, Receive(i)
  PROVE  CallsOK' /\ DetailComes' /\ NothingAsked
<1>1. CASE ReceiveDone(i)
  BY <1>1, RefreshAnswers DEF ReceiveDone, ClientConsistent
<1>2. CASE ReceiveStarted(i)
  BY <1>2, RefreshAnswers DEF ReceiveStarted, ClientConsistent
<1>3. CASE ReceiveDeleted(i)
  BY <1>3, RefreshAnswers DEF ReceiveDeleted, ClientConsistent
<1>4. CASE ReceiveLists(i)
  <2>1. PICK s, o, more, owner : calls' = [calls EXCEPT ![i] = Page(s, o, more, owner)]
    BY <1>4 DEF ReceiveLists
  <2>2. IsCall(Page(s, o, more, owner)) /\ Page(s, o, more, owner).at \in {"lists", "page"}
    BY NewCalls
  <2>3. CallsOK' /\ Becomes(i, Page(s, o, more, owner))
    BY <2>1, <2>2, CallBecomes DEF ClientConsistent
  <2>. QED
    BY <2>2, <2>3, WillAnswer
<1>5. CASE ReceivePage(i)
  <2>1. CASE detail' = None /\ selected' = None /\ EndCall(i)
    BY <2>1, Ends, EndsQuietly DEF ClientConsistent, DetailComes
  <2>2. CASE calls' = [calls EXCEPT ![i] = Detail(selected', calls[i].append, calls[i].owns)]
    <3>1. CallsOK' /\ Becomes(i, Detail(selected', calls[i].append, calls[i].owns))
      BY <2>2, NewCalls, CallBecomes DEF ClientConsistent
    <3>. QED
      BY <3>1, NewCalls, WillAnswer
  <2>. QED
    BY <1>5, <2>1, <2>2 DEF ReceivePage
<1>6. CASE ReceiveDetail(i)
  <2>1. CallsOK' /\ Becomes(i, NoCall) /\ UNCHANGED <<selected, missed>>
    BY <1>6, Ends DEF ReceiveDetail, ClientConsistent
  <2>2. NothingAsked
    BY <2>1, EndsQuietly
  <2>3. PICK r \in calls[i].runs : detail' = IF selected = r THEN r ELSE detail
    BY <1>6 DEF ReceiveDetail, Wanted
  <2>4. ~ calls[i].at \in {"lists", "page"}
    BY <1>6 DEF ReceiveDetail
  <2>5. ASSUME calls[i].runs = {selected} \/ detail = selected
        PROVE  DetailComes'
    <3>1. detail' = selected'
      BY <2>1, <2>3, <2>5
    <3>. QED
      BY <3>1 DEF DetailComes
  <2>6. ASSUME calls[i].runs # {selected} /\ detail # selected
        PROVE  DetailComes'
    <3>1. missed \/ \E j \in Calls \ {i} : Answering(j)
      BY <2>4, <2>6 DEF ClientConsistent, DetailComes, Answering
    <3>2. \A j \in Calls \ {i} : Answering(j) => Answering(j)'
      BY <2>1 DEF Answering, Becomes
    <3>. QED
      BY <2>1, <3>1, <3>2 DEF DetailComes
  <2>. QED
    BY <2>1, <2>2, <2>5, <2>6
<1>7. CASE ReceivePreview(i)
  <2>1. CallsOK' /\ Becomes(i, NoCall) /\ UNCHANGED <<selected, detail, missed>>
    BY <1>7, Ends DEF ReceivePreview, ClientConsistent, listVars
  <2>2. ~ Answering(i)
    BY <1>7 DEF ReceivePreview, Answering
  <2>. QED
    BY <2>1, <2>2, EndsQuietly, OthersAnswer DEF ClientConsistent
<1>. QED
  BY <1>1, <1>2, <1>3, <1>4, <1>5, <1>6, <1>7 DEF Receive

\* The calls the user makes, and those he leaves alone.
LEMMA UserAnswered ==
  ASSUME ClientConsistent, User
  PROVE  /\ CallsOK' /\ DetailComes'
         /\ NothingAsked \/ Confirm
<1>1. missed' = missed /\ CallsOK
  BY DEF User, ClientConsistent
<1>2. ASSUME UNCHANGED <<calls, selected, detail>>
      PROVE  CallsOK' /\ DetailComes' /\ NothingAsked
  BY <1>1, <1>2, StayAnswered
<1>3. ASSUME NEW kind, NEW runs, Await(Request(kind, runs)), UNCHANGED <<selected, detail>>
      PROVE  CallsOK' /\ DetailComes' /\ (kind \notin Confirmed => NothingAsked)
  <2>1. PICK i \in Calls : calls[i] = NoCall /\ Becomes(i, Request(kind, runs))
    BY <1>1, <1>3, NewCalls, Awaits
  <2>2. ~ Answering(i)
    BY <2>1, NewCalls DEF Answering
  <2>3. CallsOK'
    BY <1>1, <1>3, NewCalls, Awaits
  <2>4. DetailComes'
    BY <1>1, <1>3, <2>1, <2>2, OthersAnswer DEF ClientConsistent
  <2>. QED
    BY <2>1, <2>3, <2>4, NewCalls, NotAsked
<1>4. CASE Click
  <2>1. PICK r, more, owner : selected' = r /\ Await(Detail(r, more, owner))
    BY <1>4 DEF Click
  <2>2. PICK i \in Calls : Becomes(i, Detail(r, more, owner))
    BY <1>1, <2>1, NewCalls, Awaits
  <2>3. CallsOK'
    BY <1>1, <2>1, NewCalls, Awaits
  <2>4. Detail(r, more, owner).at = "detail" /\ Detail(r, more, owner).runs = {r}
    BY NewCalls
  <2>. QED
    BY <2>1, <2>2, <2>3, <2>4, WillAnswer
<1>5. ASSUME NEW s, NEW o, NEW more, NEW owner, Await(Page(s, o, more, owner))
      PROVE  CallsOK' /\ DetailComes' /\ NothingAsked
  <2>1. PICK i \in Calls : Becomes(i, Page(s, o, more, owner))
    BY <1>1, <1>5, NewCalls, Awaits
  <2>2. CallsOK'
    BY <1>1, <1>5, NewCalls, Awaits
  <2>3. Page(s, o, more, owner).at \in {"lists", "page"}
    BY NewCalls
  <2>. QED
    BY <2>1, <2>2, <2>3, WillAnswer
<1>6. CASE ChangeScope
  BY <1>5, <1>6 DEF ChangeScope
<1>7. CASE LoadMore
  BY <1>5, <1>7 DEF LoadMore
<1>8. CASE Tick
  BY <1>2, <1>8 DEF Tick
<1>9. CASE Preview
  BY <1>3, <1>9 DEF Preview, listVars, Confirmed, OnRun
<1>10. CASE OpenDialog
  BY <1>2, <1>10 DEF OpenDialog, listVars
<1>11. CASE Type
  BY <1>2, <1>11 DEF Type, listVars
<1>12. CASE Confirm
  BY <1>3, <1>12 DEF Confirm, listVars
<1>13. CASE Dismiss
  BY <1>2, <1>13 DEF Dismiss, listVars
<1>. QED
  BY <1>4, <1>6, <1>7, <1>8, <1>9, <1>10, <1>11, <1>12, <1>13 DEF User

\* The detail of the selected run is shown, is on its way, or was missed, after every step.
LEMMA StepAnswered ==
  ASSUME ClientConsistent, [Next]_vars
  PROVE  /\ CallsOK' /\ DetailComes'
         /\ NothingAsked \/ (User /\ Confirm)
<1>1. ASSUME UNCHANGED <<calls, selected, detail, missed>>
      PROVE  CallsOK' /\ DetailComes' /\ NothingAsked
  BY <1>1, StayAnswered
<1>2. CASE Touch
  <2>1. UNCHANGED <<calls, selected, detail, missed>>
    BY <1>2 DEF Touch, listVars
  <2>. QED
    BY <1>1, <2>1
<1>3. CASE Poll
  <2>1. CallsOK /\ Await(Lists)
    BY <1>3 DEF Poll, ClientConsistent
  <2>2. PICK i \in Calls : Becomes(i, Lists)
    BY <2>1, NewCalls, Awaits
  <2>3. CallsOK'
    BY <2>1, NewCalls, Awaits
  <2>4. Lists.at \in {"lists", "page"}
    BY NewCalls
  <2>. QED
    BY <2>2, <2>3, <2>4, WillAnswer
<1>4. CASE UNCHANGED vars
  <2>1. UNCHANGED <<calls, selected, detail, missed>>
    BY <1>4 DEF vars, listVars
  <2>. QED
    BY <1>1, <2>1
<1>5. CASE User
  BY <1>5, UserAnswered
<1>6. CASE \E i \in Calls : Answers(i) \/ Receive(i)
  BY <1>6, RepliesAnswer, FailuresAnswer, ReceiptsAnswer DEF Answers
<1>. QED
  BY <1>2, <1>3, <1>4, <1>5, <1>6 DEF Next

-----------------------------------------------------------------------------
(* What the dialogs say                                                    *)

\* The dialogs stay honest when they, the selection and the previews stay.
LEMMA StayHonest ==
  ASSUME ClientConsistent, UNCHANGED <<dialogs, selected, previews>>
  PROVE  Honest(dialogs, selected, previews)'
  BY DEF ClientConsistent

\* An answer closes dialogs, opens the one that deletes, or selects another run under them.
LEMMA ReceiptsHonest ==
  ASSUME ClientConsistent, NEW i \in Calls, Receive(i)
  PROVE  Honest(dialogs, selected, previews)'
<1>1. Honest(dialogs, selected, previews)
  BY DEF ClientConsistent
<1>2. CASE ReceiveDone(i)
  <2>1. selected' = selected /\ previews' = previews /\ dialogs' \in {dialogs, Close("apply")}
    BY <1>2 DEF ReceiveDone, listVars
  <2>. QED
    BY <1>1, <2>1, Closed
<1>3. CASE ReceiveStarted(i)
  <2>1. Honest(Close("start"), selected, previews)
    BY <1>1, Closed
  <2>2. Honest(Replace(Close("start")), selected', previews)
    BY <2>1, UnderTheDialogs
  <2>. QED
    BY <1>3, <2>2 DEF ReceiveStarted
<1>4. CASE ReceiveDeleted(i)
  <2>1. Honest(Close("delete"), selected, previews) /\ Lacks(Close("delete"), "delete")
    BY <1>1, Closed
  <2>2. Honest(Close("delete"), selected, {})
    BY <2>1, OtherPreviews
  <2>3. Honest(Replace(Close("delete")), selected', {})
    BY <2>2, UnderTheDialogs
  <2>4. previews' = {} /\ \/ selected' = selected /\ dialogs' = Close("delete")
                          \/ dialogs' = Replace(Close("delete"))
    BY <1>4 DEF ReceiveDeleted
  <2>. QED
    BY <2>2, <2>3, <2>4
<1>5. CASE ReceiveLists(i)
  BY <1>5, StayHonest DEF ReceiveLists, dialogVars
<1>6. CASE ReceivePage(i)
  <2>1. previews' = previews /\ \/ selected' = selected /\ dialogs' = dialogs
                                \/ dialogs' = Replace(dialogs)
    BY <1>6 DEF ReceivePage, Kept
  <2>2. Honest(Replace(dialogs), selected', previews)
    BY <1>1, UnderTheDialogs
  <2>. QED
    BY <1>1, <2>1, <2>2
<1>7. CASE ReceiveDetail(i)
  BY <1>7, StayHonest DEF ReceiveDetail, dialogVars
<1>8. CASE ReceivePreview(i)
  <2>. DEFINE d == Dialog("delete", {}, FALSE)
  <2>1. Honest(Close("delete"), selected, previews') /\ Lacks(Close("delete"), "delete")
    BY <1>1, Closed, OtherPreviews
  <2>2. d \in DialogsOf({{}}) /\ d.kind = "delete" /\ Reads(d, selected, previews')
    BY DEF Dialog, DialogsOf, Kinds, Reads, OnRun
  <2>. HIDE DEF d
  <2>3. Honest(Append(Close("delete"), d), selected, previews')
    BY <2>1, <2>2, OneOpened
  <2>4. selected' = selected /\ dialogs' = Append(Close("delete"), d)
    BY <1>8 DEF ReceivePreview, listVars, d
  <2>. QED
    BY <2>3, <2>4
<1>. QED
  BY <1>2, <1>3, <1>4, <1>5, <1>6, <1>7, <1>8 DEF Receive

\* What the user opens, types, confirms or dismisses is what the page shows.
LEMMA UserHonest ==
  ASSUME ClientConsistent, User
  PROVE  Honest(dialogs, selected, previews)'
<1>1. Honest(dialogs, selected, previews)
  BY DEF ClientConsistent
<1>2. ASSUME dialogs' = <<>>
      PROVE  Honest(dialogs, selected, previews)'
  BY <1>2, NoDialog
<1>3. CASE Click \/ ChangeScope \/ LoadMore \/ Tick \/ Preview
  BY <1>2, <1>3 DEF Click, ChangeScope, LoadMore, Tick, Preview, dialogVars
<1>4. CASE OpenDialog
  <2>1. selected' = selected /\ previews' = previews
    BY <1>4 DEF OpenDialog, listVars
  <2>2. ASSUME NEW R, NEW d \in DialogsOf(R), Reads(d, selected, previews), dialogs' = <<d>>
        PROVE  Honest(dialogs, selected, previews)'
    <3>1. Lacks(<<>>, d.kind) /\ dialogs' = Append(<<>>, d)
      BY <2>2 DEF Lacks
    <3>2. Honest(Append(<<>>, d), selected, previews)
      BY <2>2, <3>1, NoDialog, OneOpened
    <3>. QED
      BY <2>1, <3>1, <3>2
  <2>3. CASE \E kind \in OnRun : dialogs' = <<Dialog(kind, {detail}, selected # detail)>>
    <3>1. PICK kind \in OnRun : dialogs' = <<Dialog(kind, {detail}, selected # detail)>>
      BY <2>3
    <3>. DEFINE d == Dialog(kind, {detail}, selected # detail)
    <3>2. d \in DialogsOf({{detail}}) /\ Reads(d, selected, previews)
      BY DEF Dialog, DialogsOf, Kinds, Reads, OnRun
    <3>. HIDE DEF d
    <3>3. dialogs' = <<d>>
      BY <3>1 DEF d
    <3>. QED
      BY <2>2, <3>2, <3>3
  <2>4. CASE dialogs' = <<Dialog("start", {}, FALSE)>>
    <3>1. /\ Dialog("start", {}, FALSE) \in DialogsOf({{}})
          /\ Reads(Dialog("start", {}, FALSE), selected, previews)
      BY DEF Dialog, DialogsOf, Kinds, Reads, OnRun
    <3>. QED
      BY <2>2, <2>4, <3>1
  <2>. QED
    BY <1>4, <2>3, <2>4 DEF OpenDialog
<1>5. CASE Type
  <2>1. dialogs # <<>> /\ Top.kind = "delete"
    BY <1>5 DEF Type
  <2>. DEFINE d == [Top EXCEPT !.read = previews]
  <2>2. PICK R : dialogs \in Seq(DialogsOf(R))
    BY <1>1 DEF Honest, AreDialogs
  <2>3. Top \in DialogsOf(R)
    BY <1>1, <2>1, <2>2, TopClosed
  <2>4. d \in DialogsOf(R \cup {previews}) /\ d.kind = "delete" /\ Reads(d, selected, previews)
    BY <2>1, <2>3 DEF DialogsOf, Reads, OnRun
  <2>5. selected' = selected /\ previews' = previews /\ dialogs' = Append(Front(dialogs), d)
    BY <1>5 DEF Type, listVars
  <2>6. Honest(Front(dialogs), selected, previews) /\ Lacks(Front(dialogs), "delete")
    BY <1>1, <2>1, TopClosed
  <2>. HIDE DEF d
  <2>7. Honest(Append(Front(dialogs), d), selected, previews)
    BY <2>4, <2>6, OneOpened
  <2>. QED
    BY <2>5, <2>7
<1>6. CASE Confirm
  <2>1. /\ dialogs # <<>> /\ selected' = selected /\ previews' = previews
        /\ dialogs' \in {dialogs, Front(dialogs)}
    BY <1>6 DEF Confirm, listVars
  <2>. QED
    BY <1>1, <2>1, TopClosed
<1>7. CASE Dismiss
  <2>1. /\ dialogs # <<>> /\ selected' = selected /\ dialogs' = Front(dialogs)
        /\ previews' = previews \/ Top.kind = "delete"
    BY <1>7 DEF Dismiss, listVars
  <2>2. Honest(Front(dialogs), selected, previews) /\ Lacks(Front(dialogs), Top.kind)
    BY <1>1, <2>1, TopClosed
  <2>3. Honest(Front(dialogs), selected, previews')
    BY <2>1, <2>2, OtherPreviews
  <2>. QED
    BY <2>1, <2>3
<1>. QED
  BY <1>3, <1>4, <1>5, <1>6, <1>7 DEF User

\* The dialogs are honest after every step.
LEMMA StepHonest ==
  ASSUME ClientConsistent, [Next]_vars
  PROVE  Honest(dialogs, selected, previews)'
<1>1. CASE UNCHANGED <<dialogs, selected, previews>>
  BY <1>1, StayHonest
<1>2. CASE \E i \in Calls : Fail(i)
  <2>1. selected' = selected /\ previews' = previews /\ dialogs' \in {dialogs, Close("apply")}
    BY <1>2 DEF Fail
  <2>. QED
    BY <2>1, Closed DEF ClientConsistent
<1>3. CASE Touch \/ Poll \/ (\E i \in Calls : Reply(i)) \/ UNCHANGED vars
  BY <1>1, <1>3 DEF Touch, Poll, Reply, vars, listVars, dialogVars
<1>4. CASE User
  BY <1>4, UserHonest
<1>5. CASE \E i \in Calls : Receive(i)
  BY <1>5, ReceiptsHonest
<1>. QED
  BY <1>2, <1>3, <1>4, <1>5 DEF Next, Answers

-----------------------------------------------------------------------------
(* The theorems                                                            *)

\* The page starts with one call, no dialog and no selection.
LEMMA InitConsistent == Init => ClientConsistent
<1>. SUFFICES ASSUME Init PROVE ClientConsistent
  OBVIOUS
<1>1. CallsOK
  <2>1. IsCall(Page(scope, 0, FALSE, FALSE)) /\ IsCall(NoCall)
    BY NewCalls, Zenon
  <2>. QED
    BY <2>1 DEF Init, CallsOK
<1>2. DetailComes
  BY DEF Init, DetailComes
<1>3. Honest(dialogs, selected, previews)
  BY NoDialog DEF Init
<1>. QED
  BY <1>1, <1>2, <1>3 DEF ClientConsistent

\* Every step keeps the page consistent.
LEMMA StepConsistent == ClientConsistent /\ [Next]_vars => ClientConsistent'
  BY StepAnswered, StepHonest DEF ClientConsistent

\* The calls, the dialogs, the selection and the detail of app.js agree in every state: in
\* whatever order the answers come, whatever fails, and whatever the user does meanwhile.
THEOREM AlwaysClientConsistent == Spec => []ClientConsistent
  BY InitConsistent, StepConsistent, PTL DEF Spec

\* When no call waits for an answer, the detail that is shown is that of the run that is
\* selected, unless a call failed or a refresh was skipped (loadDetail, selectRun,
\* refreshAll).
THEOREM DetailOfSelected == Spec => []QuietShowsSelected
<1>1. ClientConsistent => QuietShowsSelected
  BY NewCalls DEF ClientConsistent, DetailComes, Answering, QuietShowsSelected
<1>. QED
  BY <1>1, AlwaysClientConsistent, PTL

\* A confirmed dialog asks for the runs its user was shown: a deletion always, a
\* cancellation or an application unless the selection changed under it.
THEOREM AsksForWhatWasRead == Spec => ConfirmsWhatWasRead
<1>1. ASSUME ClientConsistent, [Next]_vars
      PROVE  [\A i \in Calls :
                calls[i] = NoCall /\ calls'[i].at \in Confirmed
                  => calls'[i].runs = Top.read \/ (Top.kind \in OnRun /\ Top.replaced)]_vars
  <2>1. CASE NothingAsked
    BY <2>1 DEF NothingAsked
  <2>2. CASE Confirm
    <3>1. PICK i \in Calls : Becomes(i, Request(Top.kind, Asked(Top.kind)))
      <4>1. Await(Request(Top.kind, Asked(Top.kind)))
        BY <2>2 DEF Confirm
      <4>2. CallsOK /\ IsCall(Request(Top.kind, Asked(Top.kind)))
        BY NewCalls, <1>1 DEF ClientConsistent
      <4>. QED
        BY <4>1, <4>2, Awaits
    <3>2. calls'[i].at = Top.kind /\ calls'[i].runs = Asked(Top.kind)
      BY <3>1, NewCalls DEF Becomes
    <3>3. \A j \in Calls \ {i} : calls[j] = NoCall => calls'[j].at \notin Confirmed
      BY <3>1, NewCalls DEF Becomes, Confirmed, OnRun
    <3>4. dialogs # <<>> /\ (Top.kind = "delete" => Top.read # {})
      BY <2>2 DEF Confirm
    <3>5. Reads(Top, selected, previews)
      <4>1. Honest(dialogs, selected, previews)
        BY <1>1 DEF ClientConsistent
      <4>. QED
        BY <3>4, <4>1, TopClosed DEF Honest
    <3>6. Top.kind \in Confirmed
            => Asked(Top.kind) = Top.read \/ (Top.kind \in OnRun /\ Top.replaced)
      BY <3>4, <3>5 DEF Reads, Asked, Confirmed, OnRun
    <3>. QED
      BY <3>2, <3>3, <3>6
  <2>. QED
    BY <1>1, <2>1, <2>2, StepAnswered
<1>. QED
  BY <1>1, AlwaysClientConsistent, PTL DEF Spec, ConfirmsWhatWasRead
===============================================================================
