------------------------------- MODULE ListPages -------------------------------
(***************************************************************************)
(* The pages of the web client that show a list and let the user filter,   *)
(* page through, edit, create, toggle and delete its rows: the faculty,    *)
(* staff and admin pages, the dashboard with its import and template       *)
(* panels, the secrets of a project and its members tab.                   *)
(* They are one program written many times: a useCallback that fetches the *)
(* list for the current query, an effect that runs it whenever the query   *)
(* changes, and handlers that send a write and then run the fetch of the   *)
(* render they were created in.  A page is a record of the choices that    *)
(* distinguish it, fixed at Init; pages with equal records behave alike.   *)
(*                                                                         *)
(* Answers arrive in any order; nothing cancels or orders the requests.    *)
(* Strings, columns and counts are left out; a row is a number, its value  *)
(* the one attribute the page can change (role, limits, enabled).          *)
(***************************************************************************)
EXTENDS Integers, FiniteSets

CONSTANTS
    Rows,       \* the rows the server can hold, numbers
    Limit,      \* const limit: rows per page
    Kinds,      \* which kinds of page the behaviours open
    MaxUses,    \* bound: query changes and writes by the user
    MaxOthers,  \* bound: changes by other users
    None, Gone  \* no row; a row the server does not have

ASSUME ConstantsAssumption ==
    /\ Rows \subseteq Nat \ {0}
    /\ Limit \in Nat \ {0}
    /\ MaxUses \in Nat /\ MaxOthers \in Nat
    /\ None \notin Rows /\ Gone \notin {"a", "b"}

VARIABLES
    page,      \* which page is open
    rows,      \* the server's rows
    query,     \* filter, sort order and page number of the current render
    fetches,   \* list requests on their way
    shown,     \* the list of the last answer applied, and what it answered
    loading, error,
    edit,      \* the row being edited and the value of its input
    form,      \* showCreate
    confirm,   \* the row the confirmation dialog is open for
    busy,      \* saving/adding/submitting, toggling, deleting/removing
    writes,    \* write requests on their way, or whose refetch is
    chosen,    \* history: the value the user last chose for each row
    issued,    \* history: how many fetches were issued
    used, others

vars == <<page, rows, query, fetches, shown, loading, error, edit, form,
          confirm, busy, writes, chosen, issued, used, others>>

Values == {"a", "b"}
All == "all"

-----------------------------------------------------------------------------
(* The pages. *)

(* filter: none, a bar of inputs above the table, or a list that is part   *)
(* of the loaded content.  order: a button reverses the sort.  pager:      *)
(* none, shown for several pages, or always.  byValue: the filter is on    *)
(* the attribute the page edits.  refresh: what runs the fetch again.      *)
Table(filter, order, pager, writesOffered) ==
    [kind |-> "table", filter |-> filter, order |-> order, pager |-> pager,
     byValue |-> FALSE, writes |-> writesOffered, refresh |-> {}, open |-> TRUE]

Roles == {"JAS_Developer", "JAS-Staff", "JAS-Faculty"}

\* The admin pages refuse developers and let only faculty write.
ForRole(p, role) ==
    [p EXCEPT !.open = role # "JAS_Developer",
              !.writes = IF role = "JAS-Faculty" THEN @ ELSE {}]

FacultyUsers == [Table("bar", FALSE, "several", {"save"}) EXCEPT !.byValue = TRUE]
AdminUsers(role) ==
    ForRole([Table("bar", FALSE, "several", {"save"}) EXCEPT !.byValue = TRUE], role)
FacultyQuotas == Table("bar", FALSE, "several", {"save"})
AdminQuotas(role) == ForRole(Table("bar", FALSE, "several", {"save"}), role)
StaffQuotas == Table("bar", FALSE, "several", {})
\* What the form and the rows of the policies offer.
PolicyWrites == {"create", "toggle", "delete"}
AdminPolicyWrites == {"create", "toggle", "delete"}
FacultyNetworkPolicies == Table("bar", FALSE, "several", PolicyWrites)
AdminNetworkPolicies(role) ==
    ForRole(Table("bar", FALSE, "several", AdminPolicyWrites), role)
FacultyProjects == Table("bar", TRUE, "several", {})
StaffProjects == Table("bar", TRUE, "several", {})
FacultyStudents == Table("bar", TRUE, "several", {})
StaffStudents == Table("bar", TRUE, "several", {})
FacultyTags == Table("list", FALSE, "none", {})
StaffTags == Table("list", FALSE, "none", {})
FacultyVlans == Table("none", FALSE, "none", {})
StaffVlans == Table("none", FALSE, "none", {})
AdminVlans(role) == ForRole(Table("none", FALSE, "none", {}), role)
FacultyAudit == Table("bar", FALSE, "several", {})
StaffAudit == Table("bar", FALSE, "always", {})
AdminAudit(role) == ForRole(Table("bar", FALSE, "always", {}), role)
\* Statistics and details: fetched together, and by two of them every minute.
Overview(refresh) ==
    [Table("none", FALSE, "none", {}) EXCEPT !.kind = "overview", !.refresh = refresh]
FacultyOverview == Overview({"interval", "retry"})
StaffOverview == Overview({"interval", "retry"})
AdminOverview(role) == ForRole(Overview({}), role)
FacultyStudent == Overview({})
StaffStudent == Overview({})
\* The user's projects and the panel that adds one: a GitHub repository is
\* imported, or a template deployed, after which the list is fetched again.
Dashboard(refresh) ==
    [Table("none", FALSE, "none", {"create"})
        EXCEPT !.kind = "dashboard", !.refresh = refresh]
ImportFromGitHub == Dashboard({})
TemplateGallery == Dashboard({"deployed"})
Secrets ==
    [Table("none", FALSE, "none", {"create", "delete"}) EXCEPT !.kind = "secrets"]
\* canManageMembers, or a contributor who may only leave
Members(canManage) ==
    [Table("none", FALSE, "none",
           IF canManage THEN {"create", "delete"} ELSE {"delete"})
        EXCEPT !.kind = "members"]

AllPages ==
    {FacultyUsers, FacultyQuotas, StaffQuotas, FacultyNetworkPolicies,
     FacultyProjects, StaffProjects, FacultyStudents, StaffStudents,
     FacultyTags, StaffTags, FacultyVlans, StaffVlans, FacultyAudit,
     StaffAudit, Secrets, FacultyOverview, StaffOverview, FacultyStudent,
     StaffStudent, ImportFromGitHub, TemplateGallery}
    \union {Members(c) : c \in BOOLEAN}
    \union UNION {{AdminUsers(r), AdminQuotas(r), AdminNetworkPolicies(r),
                   AdminVlans(r), AdminAudit(r), AdminOverview(r)} : r \in Roles}

-----------------------------------------------------------------------------
(* The server's side of a list. *)

(* What a filter other than the edited value looks at never changes.       *)
Class(r) == IF r = 1 THEN "a" ELSE "b"
Matching(q) ==
    {r \in Rows : /\ rows[r] # Gone
                  /\ q.filter \in {All, IF page.byValue THEN rows[r] ELSE Class(r)}}
(* The rows of one page of the sorted list. *)
Listed(q) ==
    LET before(r) == {s \in Matching(q) : IF q.desc THEN s > r ELSE s < r}
    IN  IF page.pager = "none" THEN Matching(q)
        ELSE {r \in Matching(q) : Cardinality(before(r)) \div Limit = q.no}

(* Two secrets may have one key: the first is the project-wide one, the    *)
(* others belong to an environment.  Every other row has its own id.       *)
Key(r) == IF page.kind = "secrets" THEN 1 ELSE r
(* DELETE /secrets/{key} without a scope means the project-wide secret.    *)
Addressed(key) == IF page.kind = "secrets" THEN 1 ELSE key

-----------------------------------------------------------------------------
(* Fetching. *)

(* fetchX: the tables show the spinner again, the other pages only at      *)
(* first; fetchMembers leaves the error alone.                             *)
FetchWith(q, by) ==
    /\ issued' = issued + 1
    /\ fetches' = fetches \union
         {[n |-> issued + 1, q |-> q, by |-> by, stage |-> "sent",
           rows |-> <<>>, total |-> 0]}
    /\ loading' = (loading \/ page.kind = "table")
    /\ error' = (error /\ page.kind = "members")

Init ==
    /\ page \in {p \in AllPages : p.kind \in Kinds}
    /\ rows \in [Rows -> {"a", Gone}]
    /\ query = [filter |-> All, desc |-> TRUE, no |-> 0]
    /\ fetches = {[n |-> 1, q |-> query, by |-> "page", stage |-> "sent",
                   rows |-> <<>>, total |-> 0]}
    /\ shown = [rows |-> <<>>, total |-> 0, q |-> query, by |-> "page",
                n |-> 0, newest |-> 0]
    /\ loading = TRUE /\ error = FALSE
    /\ edit = [row |-> None, value |-> None]
    /\ form = FALSE
    /\ confirm = None
    /\ busy = [saving |-> FALSE, toggling |-> None, deleting |-> None]
    /\ writes = {}
    /\ chosen = [r \in Rows |-> None]
    /\ issued = 1 /\ used = 0 /\ others = 0

Answer(f) ==
    /\ f.stage = "sent"
    /\ \E failed \in BOOLEAN :
         fetches' = (fetches \ {f}) \union
           {IF failed THEN [f EXCEPT !.stage = "failed"]
            ELSE [f EXCEPT !.stage = "ok",
                           !.rows = [r \in Listed(f.q) |-> rows[r]],
                           !.total = Cardinality(Matching(f.q))]}
    /\ UNCHANGED <<page, rows, query, shown, loading, error, edit, form,
                   confirm, busy, writes, chosen, issued, used, others>>

(* finally { setSaving(false) / setToggling(null) / setDeleting(null) };   *)
(* a form that was closed took its own flag with it.                       *)
Release(w) ==
    CASE w.kind \in {"save", "create"} ->
           [busy EXCEPT !.saving = @ /\ w.orphan]
      [] w.kind = "toggle" -> [busy EXCEPT !.toggling = None]
      [] w.kind = "delete" -> [busy EXCEPT !.deleting = None]

(* The handler that awaits this fetch goes on to its finally. *)
Resume(f) ==
    LET awaiting == {w \in writes : w.stage = "refetch" /\ w.n = f.n}
    IN  /\ writes' = writes \ awaiting
        /\ IF awaiting = {} THEN UNCHANGED busy
           ELSE busy' = Release(CHOOSE w \in awaiting : TRUE)

Apply(f) ==
    /\ f.stage = "ok"
    /\ shown' = [rows |-> f.rows, total |-> f.total, q |-> f.q, by |-> f.by,
                 n |-> f.n,
                 newest |-> IF f.n > shown.newest THEN f.n ELSE shown.newest]
    /\ fetches' = fetches \ {f}
    /\ loading' = FALSE
    /\ Resume(f)
    /\ UNCHANGED <<page, rows, query, error, edit, form, confirm, chosen,
                   issued, used, others>>

FetchFails(f) ==
    /\ f.stage = "failed"
    /\ error' = (error \/ page.kind # "dashboard")  \* handled by API layer
    /\ fetches' = fetches \ {f}
    /\ loading' = FALSE
    /\ Resume(f)
    /\ UNCHANGED <<page, rows, query, shown, edit, form, confirm, chosen,
                   issued, used, others>>

-----------------------------------------------------------------------------
(* The query.  Changing it makes a new fetchX, which the effect runs.      *)

Use == used < MaxUses /\ used' = used + 1 /\ page.open

\* Mutant: the page number is the callback's only dependency.
EffectOfPage(q) == IF q.no = query.no THEN UNCHANGED <<issued, fetches, loading, error>>
                   ELSE FetchWith(q, "page")

Effect(q) == IF q = query THEN UNCHANGED <<issued, fetches, loading, error>>
             ELSE FetchWith(q, "page")

Ask(q) ==
    /\ Use
    /\ query' = q
    /\ Effect(q)
    /\ UNCHANGED <<page, rows, shown, edit, form, confirm, busy, writes,
                   chosen, others>>

(* Filters go back to the first page. *)
Filter(v) ==
    /\ page.filter = "bar" \/ (page.filter = "list" /\ ~loading)
    /\ v # query.filter
    /\ Ask([query EXCEPT !.filter = v, !.no = 0])

(* Reversing the order stays on the page number. *)
ToggleOrder ==
    /\ page.order
    /\ Ask([query EXCEPT !.desc = ~@])

TotalPages == (shown.total + Limit - 1) \div Limit
TableShown == page.open /\ ~loading /\ DOMAIN shown.rows # {}
PagerShown ==
    /\ TableShown
    /\ \/ page.pager = "always"
       \/ page.pager = "several" /\ TotalPages > 1

Previous ==
    /\ PagerShown /\ query.no # 0
    /\ Ask([query EXCEPT !.no = @ - 1])

Next_ ==
    /\ PagerShown /\ query.no < TotalPages - 1
    /\ Ask([query EXCEPT !.no = @ + 1])

Refetch ==
    /\ Use
    /\ FetchWith(query, "page")
    /\ UNCHANGED <<page, rows, query, shown, edit, form, confirm, busy, writes,
                   chosen, others>>

(* setInterval(fetchData, 60_000), and the Retry button of the error that  *)
(* replaces the page.                                                      *)
Interval == "interval" \in page.refresh /\ Refetch
Retry == "retry" \in page.refresh /\ ~loading /\ error /\ Refetch

-----------------------------------------------------------------------------
(* Writes. *)

Visible(r) == TableShown /\ r \in DOMAIN shown.rows

StartEdit(r) ==
    /\ "save" \in page.writes /\ Visible(r)
    /\ edit.row # r
    /\ edit' = [row |-> r, value |-> shown.rows[r]]
    /\ chosen' = [chosen EXCEPT ![r] = shown.rows[r]]
    /\ UNCHANGED <<page, rows, query, fetches, shown, loading, error, form,
                   confirm, busy, writes, issued, used, others>>

Type(v) ==
    /\ edit.row # None /\ Visible(edit.row)
    /\ v # edit.value
    /\ edit' = [edit EXCEPT !.value = v]
    /\ chosen' = [chosen EXCEPT ![edit.row] = v]
    /\ UNCHANGED <<page, rows, query, fetches, shown, loading, error, form,
                   confirm, busy, writes, issued, used, others>>

\* Mutant: the completion empties the input and leaves the row open.
ClosedInput == [row |-> edit.row, value |-> None]

(* setRoleEditUserId(null); setRoleEditValue(""), whichever row is open. *)
Closed == [row |-> None, value |-> None]

CancelEdit ==
    /\ edit.row # None /\ Visible(edit.row)
    /\ edit' = [row |-> None, value |-> None]
    /\ UNCHANGED <<page, rows, query, fetches, shown, loading, error, form,
                   confirm, busy, writes, chosen, issued, used, others>>

(* A write and the query of the render whose handler sends it. *)
Send(kind, r, key, v) ==
    /\ Use
    /\ writes' = writes \union
         {[kind |-> kind, row |-> r, key |-> key, value |-> v, q |-> query,
           meant |-> chosen[r], id |-> used, stage |-> "sent", n |-> 0, orphan |-> FALSE]}
    /\ UNCHANGED <<page, rows, query, fetches, shown, loading, error, edit,
                   chosen, issued, others>>

(* saveRole, saveQuota *)
Save(r) ==
    /\ edit.row = r /\ Visible(r)
    /\ ~busy.saving
    /\ busy' = [busy EXCEPT !.saving = TRUE]
    /\ Send("save", r, r, edit.value)
    /\ UNCHANGED <<form, confirm>>

Flip(v) == IF v = "a" THEN "b" ELSE "a"

(* handleToggle: the opposite of what the row shows *)
Toggle(r) ==
    /\ "toggle" \in page.writes /\ Visible(r)
    /\ busy.toggling # r
    /\ busy' = [busy EXCEPT !.toggling = r]
    /\ Send("toggle", r, r, Flip(shown.rows[r]))
    /\ UNCHANGED <<form, confirm>>

OpenDialog(r) ==
    /\ "delete" \in page.writes /\ Visible(r)
    /\ confirm = None
    /\ page.kind = "members" \/ busy.deleting # Key(r)
    /\ confirm' = r
    /\ UNCHANGED <<page, rows, query, fetches, shown, loading, error, edit,
                   form, busy, writes, chosen, issued, used, others>>

(* Escape and the backdrop close the dialog even while it is busy. *)
CloseDialog ==
    /\ confirm # None
    /\ confirm' = None
    /\ UNCHANGED <<page, rows, query, fetches, shown, loading, error, edit,
                   form, busy, writes, chosen, issued, used, others>>

(* handleDelete, handleRemoveMember: all but the members tab close the     *)
(* dialog first.                                                           *)
Confirm ==
    /\ confirm # None
    /\ busy.deleting = None
    /\ busy' = [busy EXCEPT !.deleting = Key(confirm)]
    /\ confirm' = IF page.kind = "members" THEN confirm ELSE None
    /\ Send("delete", confirm, Key(confirm), None)
    /\ UNCHANGED form

(* The secrets page shows nothing before its first answer, the members     *)
(* tab nothing but the error when it has no members.                       *)
ProjectShown ==
    CASE page.kind = "secrets" -> shown.newest > 0
      [] page.kind = "members" -> ~loading /\ ~(error /\ DOMAIN shown.rows = {})
      [] OTHER -> FALSE

Orphaned(ws) ==
    {IF w.kind = "create" THEN [w EXCEPT !.orphan = TRUE] ELSE w : w \in ws}

(* New Policy / Add secret / Add New... and Cancel.  The secrets form and  *)
(* the dashboard's panels are components of their own: closing them drops  *)
(* their submitting, importing and deploying flags.  A panel stands for    *)
(* the modal in it, too.                                                   *)
ToggleForm ==
    /\ "create" \in page.writes /\ page.kind # "members"
    /\ page.open
    /\ page.kind \in {"table", "dashboard"} \/ ProjectShown
    /\ form' = ~form
    /\ IF page.kind \in {"secrets", "dashboard"} /\ form
       THEN /\ busy' = [busy EXCEPT !.saving = FALSE]
            /\ writes' = Orphaned(writes)
       ELSE UNCHANGED <<busy, writes>>
    /\ UNCHANGED <<page, rows, query, fetches, shown, loading, error, edit,
                   confirm, chosen, issued, used, others>>

(* handleCreate, handleSubmit, handleAddMember, handleImport, handleDeploy; *)
(* of members, one that is not listed.                                     *)
Create(r) ==
    /\ "create" \in page.writes /\ page.open
    /\ form \/ (page.kind = "members" /\ ProjectShown /\ r \notin DOMAIN shown.rows)
    /\ ~busy.saving
    /\ busy' = [busy EXCEPT !.saving = TRUE]
    /\ Send("create", r, Key(r), "a")
    /\ UNCHANGED <<form, confirm>>

(* The API.  A delete or an update of a row that is gone is refused, and   *)
(* so is adding a member or a project twice; a secret is created or        *)
(* updated.  An import is two calls: when the second fails the project     *)
(* stays, without its repository ("b").                                    *)
Serve(w) ==
    /\ w.stage = "sent"
    /\ LET target == IF w.kind = "delete" THEN Addressed(w.key) ELSE w.row
           there == rows[target] # Gone
           accepted == IF w.kind = "create" THEN page.kind = "secrets" \/ ~there
                       ELSE there
       IN  \/ /\ accepted
              /\ rows' = [rows EXCEPT ![target] =
                            IF w.kind = "delete" THEN Gone ELSE w.value]
              /\ writes' = (writes \ {w}) \union {[w EXCEPT !.stage = "ok"]}
           \/ /\ writes' = (writes \ {w}) \union {[w EXCEPT !.stage = "failed"]}
              /\ UNCHANGED rows
           \/ /\ page = ImportFromGitHub /\ accepted
              /\ rows' = [rows EXCEPT ![target] = "b"]
              /\ writes' = (writes \ {w}) \union {[w EXCEPT !.stage = "failed"]}
    /\ UNCHANGED <<page, query, fetches, shown, loading, error, edit, form,
                   confirm, busy, chosen, issued, used, others>>

(* After the await: reset the input that was written, then run the fetchX  *)
(* of the handler's render.  The secrets page does not wait for it.        *)
Done(w) ==
    /\ w.stage = "ok" /\ page.kind # "dashboard"
    /\ edit' = IF w.kind = "save" THEN Closed ELSE edit
    /\ form' = (form /\ w.kind # "create")
    /\ confirm' = IF w.kind = "delete" /\ page.kind = "members" THEN None ELSE confirm
    /\ FetchWith(w.q, "write")
    /\ IF page.kind = "secrets"
       THEN /\ writes' = IF w.kind = "create" THEN Orphaned(writes \ {w})
                         ELSE writes \ {w}
            /\ busy' = IF w.kind = "create" THEN [busy EXCEPT !.saving = FALSE]
                       ELSE Release(w)
       ELSE /\ writes' = (writes \ {w}) \union
                           {[w EXCEPT !.stage = "refetch", !.n = issued + 1]}
            /\ UNCHANGED busy
    /\ UNCHANGED <<page, rows, query, shown, chosen, used, others>>

(* The same on the dashboard: router.push, and for a template the panel    *)
(* closes and the list is fetched again.  An import leaves its panel open: *)
(* it never calls onImported.                                              *)
Added(w) ==
    /\ w.stage = "ok" /\ page.kind = "dashboard"
    /\ IF "deployed" \in page.refresh
       THEN /\ FetchWith(query, "write")
            /\ form' = FALSE
            /\ writes' = Orphaned(writes \ {w}) \union {[w EXCEPT !.stage = "pushed"]}
            /\ busy' = [busy EXCEPT !.saving = FALSE]
       ELSE /\ writes' = (writes \ {w}) \union {[w EXCEPT !.stage = "pushed"]}
            /\ busy' = Release(w)
            /\ UNCHANGED <<form, fetches, loading, error, issued>>
    /\ UNCHANGED <<page, rows, query, shown, edit, confirm, chosen, used, others>>

(* The router shows the new project: the dashboard and what it awaits go.  *)
Navigate(w) ==
    /\ w.stage = "pushed"
    /\ page' = [page EXCEPT !.open = FALSE]
    /\ form' = FALSE
    /\ busy' = [busy EXCEPT !.saving = FALSE]
    /\ fetches' = {} /\ writes' = {}
    /\ UNCHANGED <<rows, query, shown, loading, error, edit, confirm, chosen,
                   issued, used, others>>

\* Mutant: the flag is cleared on success only.
KeepsBusy(w) == busy
ReleaseAfterFailure(w) == Release(w)

(* catch: the error is shown, by the form itself for secrets and members.  *)
WriteFails(w) ==
    /\ w.stage = "failed"
    /\ error' = (error \/ ~(w.kind = "create" /\ page.kind # "table"))
    /\ writes' = writes \ {w}
    /\ busy' = ReleaseAfterFailure(w)
    /\ UNCHANGED <<page, rows, query, fetches, shown, loading, edit, form,
                   confirm, chosen, issued, used, others>>

(* Another user changes, adds or removes a row. *)
OtherUser(r) ==
    /\ others < MaxOthers /\ others' = others + 1
    /\ \E v \in (Values \union {Gone}) \ {rows[r]} : rows' = [rows EXCEPT ![r] = v]
    /\ UNCHANGED <<page, query, fetches, shown, loading, error, edit, form,
                   confirm, busy, writes, chosen, issued, used>>

-----------------------------------------------------------------------------
User ==
    \/ \E v \in {All, "a"} : Filter(v)
    \/ ToggleOrder \/ Previous \/ Next_ \/ Interval \/ Retry
    \/ \E r \in Rows : StartEdit(r) \/ Save(r) \/ Toggle(r) \/ OpenDialog(r) \/ Create(r)
    \/ \E v \in Values : Type(v)
    \/ CancelEdit \/ CloseDialog \/ Confirm \/ ToggleForm

Network ==
    \/ \E f \in fetches : Answer(f) \/ Apply(f) \/ FetchFails(f)
    \/ \E w \in writes : Serve(w) \/ Done(w) \/ Added(w) \/ Navigate(w) \/ WriteFails(w)

Next == User \/ Network \/ \E r \in Rows : OtherUser(r)

(* Every request is answered or fails in the end. *)
Spec == Init /\ [][Next]_vars /\ WF_vars(Network)

-----------------------------------------------------------------------------
(* Properties. *)

\* When nothing is on its way and no error is shown, the list answers the
\* query the page displays.  The two ways the code can miss this are named:
\* an answer that arrived after a later one (no request is cancelled or
\* numbered), and the refetch of a write, made for the query of the render
\* that sent the write.
ListMatchesQuery ==
    fetches = {} /\ ~error
    => \/ shown.q = query
       \/ shown.n < shown.newest
       \/ shown.by = "write"

\* A saved role or quota is the value the user chose for that row, whatever
\* rows were opened, saved or cancelled before (saveRole, saveQuota send the
\* one input all rows share).
WritesAreMeant ==
    \A w \in writes : w.kind = "save" => w.value \in Values /\ w.value = w.meant

\* No button stays disabled: saving, toggling and deleting are cleared after
\* every write, failed ones and failed refetches included.
ButtonsComeBack ==
    []<>(~busy.saving /\ busy.toggling = None /\ busy.deleting = None)
=============================================================================
