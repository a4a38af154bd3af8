---------------------------- MODULE AdminAccessLog ----------------------------
(***************************************************************************)
(* The admin router over the access log: who may read, how often, that     *)
(* every read is audited, and what a client sees that follows next_cursor  *)
(* from page to page while the processes of AccessLogStore keep writing.   *)
(* One router, in the process Home, with one event loop: a request is      *)
(* interrupted only where it awaits, and other processes act between two   *)
(* statements of a query.                                                  *)
(***************************************************************************)
EXTENDS AccessLogStore, Sequences

CONSTANTS Caller,       \* clients of /admin/access-log, one request at a time
          Local,        \* callers whose address is local, tailnet or Docker
          GateSays,     \* what role_gate makes of a caller
          StubHeader,   \* callers whose X-Entra-Stub-User claims an admin role
          DevMode,      \* EPICORACLE_DEV_MODE is "true"
          Principal,    \* values of _principal_id
          PrincipalOf,  \* _principal_id of a caller's principal
          Scope,        \* _tenant of a caller's principal
          Limit,        \* limit of the limiter
          Window,       \* window_seconds of the limiter, in ticks
          Day,          \* the default lookback of 24 hours, in ticks
          PageSize,     \* min(page_size, page_cap)
          Asks,         \* since and until of a walk, NoBound where not given
          Home,         \* the process of the router
          StartClock,   \* the clock when the readers start
          MaxClock      \* bound on the clock

GateAnswers == {"admin", "user", "none", "raises", "refuses"}
NoBound == -1

ASSUME CallersTyped ==
  /\ Local \in SUBSET Caller /\ StubHeader \in SUBSET Caller
  /\ GateSays \in [Caller -> GateAnswers]
  /\ PrincipalOf \in [Caller -> Principal]
  /\ DOMAIN Scope = Caller
ASSUME LimitsTyped ==
  /\ Limit \in Nat /\ Window \in Nat /\ Day \in Nat /\ PageSize \in Int
  /\ StartClock \in Nat /\ MaxClock \in Nat
ASSUME AsksTyped == Asks \subseteq [since : Nat \union {NoBound}, until : Nat \union {NoBound}]
\* Entries are stamped when their request starts, before they are written.
ASSUME StampedBefore == \A e \in Entry : TsOf[e] <= StartClock

VARIABLES
  clock,     \* now
  hits,      \* _hits of the limiter
  stage,     \* how far a caller's request is
  walk,      \* what a client knows of its walk through the pages
  admitted,  \* history: when the limiter let a principal pass
  audited,   \* history: the caller's last request emitted admin.access_log.read
  answered,  \* history: the caller's last request was answered from the log
  shown,     \* history: tenants whose rows a caller was shown
  got,       \* history: rows of the walk's pages
  owed       \* history: rows that matched every page's query of the walk so far

historyVars == <<admitted, audited, answered, shown, got, owed>>
adminVars == <<clock, hits, stage, walk, historyVars>>
vars == <<storeVars, adminVars>>

Stages == {"idle", "admitted", "counted"}
Phases == {"new", "paging", "done"}
Cursors == [key : Int, cid : Int]
Bounds == [since : Int, until : Int]

AdminTypeOK ==
  /\ TypeOK
  /\ clock \in Nat
  /\ hits \in [Principal -> Seq(Nat)] /\ \A p \in Principal : Len(hits[p]) <= Limit
  /\ stage \in [Caller -> Stages]
  /\ walk \in [Caller -> [phase : Phases, ask : Bounds, cursor : Cursors, window : Bounds]]
  /\ admitted \in [Principal -> Seq(Nat)]
  /\ audited \in [Caller -> BOOLEAN] /\ answered \in [Caller -> BOOLEAN]
  /\ DOMAIN shown = Caller
  /\ got \in [Caller -> SUBSET Entry] /\ owed \in [Caller -> SUBSET Entry]

Unasked == [since |-> NoBound, until |-> NoBound]

Init ==
  /\ StoreInit
  /\ clock = StartClock
  /\ hits = [p \in Principal |-> <<>>] /\ admitted = [p \in Principal |-> <<>>]
  /\ stage = [c \in Caller |-> "idle"]
  /\ walk = [c \in Caller |->
               [phase |-> "new", ask |-> Unasked, cursor |-> NoCursor, window |-> Unasked]]
  /\ audited = [c \in Caller |-> FALSE] /\ answered = [c \in Caller |-> FALSE]
  /\ shown = [c \in Caller |-> {}]
  /\ got = [c \in Caller |-> {}] /\ owed = [c \in Caller |-> {}]

\* store.query() is called on the event loop: nothing else of the router runs
\* between its COUNT and its SELECT.
LoopFree == \A c \in Caller : stage[c] # "counted"

-----------------------------------------------------------------------------
(* require_admin *)

\* Mutant: the stub stands in for whatever role_gate says.
StubAlways(c) == c \in Local /\ (GateSays[c] = "admin" \/ c \in StubHeader)

\* A gate that raises counts as one that found nobody.  An HTTPException of
\* the gate ends the request, and so does whatever an awaited gate raises
\* ("refuses").
GateFindsNobody(c) == GateSays[c] \in {"none", "raises"}

StubIsAdmin(c) == DevMode /\ c \in StubHeader

\* The development stub applies only where the gate found nobody.
IsAdmin(c) ==
  /\ c \in Local
  /\ GateSays[c] = "admin" \/ (GateFindsNobody(c) /\ StubIsAdmin(c))

\* Mutant: a hit expires one tick early.
IsExpiredEarly(hit) == clock - hit >= Window - 1

IsExpired(hit) == clock - hit >= Window

\* Mutant: one hit more fits.
IsFullByOne(left) == Len(left) > Limit

IsFull(left) == Len(left) >= Limit

\* The n hits the limiter pops: from the left, up to the first that counts.
Pops(h, n) ==
  /\ \A i \in 1..n : IsExpired(h[i])
  /\ n < Len(h) => ~IsExpired(h[n + 1])

\* Everyone else is refused with 403 and leaves no trace; over the limit the
\* expired hits are popped all the same.
Authorize(c) ==
  LET p == PrincipalOf[c]
  IN  /\ LoopFree /\ stage[c] = "idle"
      /\ IsAdmin(c)
      /\ \E n \in 0..Len(hits[p]) :
           LET left == SubSeq(hits[p], n + 1, Len(hits[p]))
           IN  /\ Pops(hits[p], n)
               /\ IF IsFull(left)
                  THEN /\ hits' = [hits EXCEPT ![p] = left]
                       /\ UNCHANGED <<stage, admitted, audited, answered>>
                  ELSE /\ hits' = [hits EXCEPT ![p] = Append(left, clock)]
                       /\ admitted' = [admitted EXCEPT ![p] = Append(@, clock)]
                       /\ stage' = [stage EXCEPT ![c] = "admitted"]
                       /\ audited' = [audited EXCEPT ![c] = FALSE]
                       /\ answered' = [answered EXCEPT ![c] = FALSE]
  /\ UNCHANGED <<storeVars, clock, walk, shown, got, owed>>

-----------------------------------------------------------------------------
(* read_access_log and read_access_log_summary *)

\* Another tenant's name (403), a naive datetime (422), or an audit emitter
\* that raises: the hit is spent and nothing is read.
RefuseRead(c) ==
  /\ LoopFree /\ stage[c] = "admitted"
  /\ stage' = [stage EXCEPT ![c] = "idle"]
  /\ UNCHANGED <<storeVars, clock, hits, walk, historyVars>>

\* Mutant: nothing is emitted before the store is read.
NoAudit(c) == UNCHANGED audited

Audit(c) == audited' = [audited EXCEPT ![c] = TRUE]

\* A cursor that does not decode, or a COUNT that fails, raises in query(),
\* after the audit.
BadCursor(c) ==
  /\ LoopFree /\ stage[c] = "admitted"
  /\ Audit(c)
  /\ stage' = [stage EXCEPT ![c] = "idle"]
  /\ UNCHANGED <<storeVars, clock, hits, walk, admitted, answered, shown, got, owed>>

\* until or now, and since or a day before it.
WindowOf(ask) ==
  LET to == IF ask.until = NoBound THEN clock ELSE ask.until
  IN  [since |-> IF ask.since = NoBound THEN to - Day ELSE ask.since, until |-> to]

\* A list request up to the COUNT: the client keeps its since and until and
\* sends the cursor of its last page.
CountPage(c) ==
  /\ LoopFree /\ stage[c] = "admitted"
  /\ walk[c].phase # "done"
  /\ Audit(c)
  /\ \E ask \in IF walk[c].phase = "new" THEN Asks ELSE {walk[c].ask} :
       walk' = [walk EXCEPT ![c].ask = ask, ![c].window = WindowOf(ask)]
  /\ stage' = [stage EXCEPT ![c] = "counted"]
  /\ UNCHANGED <<storeVars, clock, hits, admitted, answered, shown, got, owed>>

Found(c) ==
  {e \in Matching(Scope[c], walk[c].window.since, walk[c].window.until) :
     PastCursor(e, walk[c].cursor)}

PageLimit == Larger(1, PageSize)

\* Rows a client may count on by their instants: inside the window, not of
\* the second of one of its bounds, and with a key of their own.
SameSecond(ts, bound) == ts \div Second = bound \div Second
HasTwin(e) == \E f \in Entry \ {e} : CursorOf(f) = CursorOf(e)
Due(c) ==
  {e \in rows : LET window == walk[c].window IN
     /\ TenantOf[e] = Scope[c]
     /\ window.since <= TsOf[e] /\ TsOf[e] <= window.until
     /\ ~SameSecond(TsOf[e], window.since) /\ ~SameSecond(TsOf[e], window.until)
     /\ ~HasTwin(e)}

\* Mutant: the cursor names the first row of the next page.
CursorOfNext(found, page) ==
  {CursorOf(e) : e \in {f \in found \ page : \A g \in found \ page : ~Above(g, f)}}

\* next_cursor names the last row of the page.
CursorsAfter(found, page) == {CursorOf(e) : e \in {f \in page : IsLastOf(f, page)}}

\* The SELECT, of one row more than the page to know whether there is another.
SelectPage(c) ==
  /\ stage[c] = "counted"
  /\ \E page \in SUBSET Found(c) :
       /\ IsPage(page, Found(c), PageLimit)
       /\ got' = [got EXCEPT ![c] = @ \union page]
       /\ shown' = [shown EXCEPT ![c] = @ \union {TenantOf[e] : e \in page}]
       /\ IF Cardinality(Found(c)) > PageLimit
          THEN \E cursor \in CursorsAfter(Found(c), page) :
                 walk' = [walk EXCEPT ![c] = [@ EXCEPT !.phase = "paging",
                                              !.cursor = cursor, !.window = Unasked]]
          ELSE walk' = [walk EXCEPT ![c].phase = "done", ![c].window = Unasked]
  /\ owed' = [owed EXCEPT ![c] = IF walk[c].phase = "new" THEN Due(c) ELSE @ \intersect Due(c)]
  /\ answered' = [answered EXCEPT ![c] = TRUE]
  /\ stage' = [stage EXCEPT ![c] = "idle"]
  /\ UNCHANGED <<storeVars, clock, hits, admitted, audited>>

\* The SELECT raises: the client has no page and keeps its cursor.
SelectFails(c) ==
  /\ stage[c] = "counted"
  /\ stage' = [stage EXCEPT ![c] = "idle"]
  /\ walk' = [walk EXCEPT ![c].window = Unasked]
  /\ UNCHANGED <<storeVars, clock, hits, historyVars>>

SummaryRows(c, window) == Matching(Scope[c], window.since, window.until)

\* A summary is one SELECT; its numbers are of the rows found.
Summary(c) ==
  /\ LoopFree /\ stage[c] = "admitted"
  /\ Audit(c)
  /\ \E ask \in Asks :
       shown' = [shown EXCEPT ![c] = @ \union
                   {TenantOf[e] : e \in SummaryRows(c, WindowOf(ask))}]
  /\ answered' = [answered EXCEPT ![c] = TRUE]
  /\ stage' = [stage EXCEPT ![c] = "idle"]
  /\ UNCHANGED <<storeVars, clock, hits, walk, admitted, got, owed>>

-----------------------------------------------------------------------------
(* The system *)

Tick ==
  /\ clock < MaxClock
  /\ clock' = clock + 1
  /\ UNCHANGED <<storeVars, hits, stage, walk, historyVars>>

\* The limiter and the requests live in the router's process.
KillProcess(p) ==
  /\ Kill(p)
  /\ IF p = Home
     THEN /\ hits' = [q \in Principal |-> <<>>]
          /\ admitted' = [q \in Principal |-> <<>>]
          /\ stage' = [c \in Caller |-> "idle"]
     ELSE UNCHANGED <<hits, admitted, stage>>
  /\ UNCHANGED <<clock, walk, audited, answered, shown, got, owed>>

\* A query has a connection of its own open.
CloseConnections ==
  /\ LoopFree
  /\ LastClose
  /\ UNCHANGED adminVars

Next ==
  \/ \E t \in Thread, e \in Entry : Insert(t, e) /\ UNCHANGED adminVars
  \/ \E t \in Thread : (WriteStep(t) \/ StatementFails(t)) /\ UNCHANGED adminVars
  \/ \E p \in Process : KillProcess(p)
  \/ CloseConnections
  \/ \E c \in Caller :
       \/ Authorize(c) \/ RefuseRead(c) \/ BadCursor(c)
       \/ CountPage(c) \/ SelectPage(c) \/ SelectFails(c) \/ Summary(c)
  \/ Tick

Spec == Init /\ [][Next]_vars

-----------------------------------------------------------------------------
(* What the router promises *)

\* No principal passes the limiter more than limit times in a window, counted
\* from any of its passes, for as long as the process lives
\* (InMemoryRateLimiter.__call__).
RateIsBounded ==
  \A p \in Principal : \A i \in 1..(Len(admitted[p]) - Limit) :
     admitted[p][i + Limit] - admitted[p][i] >= Window

\* The log is read only by an admin, whose request has been audited by then,
\* and only rows of the admin's tenant are shown (require_admin, _audit,
\* _filters).
ReadsAreAudited ==
  \A c \in Caller :
     /\ stage[c] = "counted" \/ answered[c] => audited[c] /\ IsAdmin(c)
     /\ shown[c] \subseteq {Scope[c]}

\* A walk through the pages returns every row that stayed in the log and in
\* the window, apart from those Due leaves out: the cursor skips nothing that
\* is still there, whatever was inserted and pruned between two pages.
WalkIsComplete ==
  \A c \in Caller : walk[c].phase = "done" => owed[c] \subseteq got[c]

\* What a walk has returned is never found again by it (the cursor filter).
NoRowTwice ==
  [][\A c \in Caller : SelectPage(c) => Found(c) \intersect got[c] = {}]_vars
=============================================================================
