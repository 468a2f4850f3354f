--------------------------- MODULE ListPagesProofs ---------------------------
(***************************************************************************)
(* Proofs about ListPages, for every kind of page, any number of rows and  *)
(* any bounds on what the users do.                                        *)
(***************************************************************************)
EXTENDS ListPages, TLAPS

-----------------------------------------------------------------------------
(* The pages. *)

PageFields == {"kind", "filter", "order", "pager", "byValue", "writes", "refresh", "open"}

\* p is a record with the fields of a page.
IsPage(p) == p = [x \in PageFields |-> p[x]]

\* A page whose list is never filtered, sorted, paged or fetched again by a
\* button, so that its query stays the first one, and whose rows have none.
Plain(p) == /\ p.filter = "none" /\ p.order = FALSE /\ p.pager = "none"
            /\ "interval" \notin p.refresh /\ "retry" \notin p.refresh
            /\ p.writes \subseteq {"create"}

PageOK(p) == IsPage(p) /\ (p.kind = "dashboard" => Plain(p))

\* Every choice of columns and buttons is a page, and a table is no dashboard.
LEMMA TableIsPage ==
  ASSUME NEW f, NEW o, NEW g, NEW w
  PROVE  IsPage(Table(f, o, g, w)) /\ Table(f, o, g, w).kind = "table"
BY DEF Table, IsPage, PageFields

\* A page with a field changed is a page that has the others still.
LEMMA ChangedIsPage ==
  ASSUME NEW p, IsPage(p), NEW f \in PageFields, NEW u
  PROVE  /\ IsPage([p EXCEPT ![f] = u])
         /\ [p EXCEPT ![f] = u][f] = u
         /\ \A x \in PageFields \ {f} : [p EXCEPT ![f] = u][x] = p[x]
BY DEF IsPage

\* The guard of the admin layout changes neither what the page shows nor how
\* its list is fetched.
LEMMA ForRoleIsPage ==
  ASSUME NEW p, PageOK(p), NEW role \in Roles
  PROVE  PageOK(ForRole(p, role))
<1> DEFINE u == role # "JAS_Developer"
           v == IF role = "JAS-Faculty" THEN p.writes ELSE {}
           c == [p EXCEPT !.open = u, !.writes = v]
<1>1. ForRole(p, role) = c
  BY DEF ForRole
<1>2. \A x : x \in v => x \in p.writes
  OBVIOUS
<1> HIDE DEF u, v
<1>3. IsPage(c) /\ c.writes = v /\ \A x \in PageFields \ {"open", "writes"} : c[x] = p[x]
  BY DEF PageOK, IsPage, PageFields
<1> HIDE DEF c
<1> QED
  BY <1>1, <1>2, <1>3 DEF PageOK, Plain, PageFields

\* The overviews are pages.
LEMMA OverviewIsPage ==
  ASSUME NEW refresh
  PROVE  PageOK(Overview(refresh))
<1> DEFINE t == Table("none", FALSE, "none", {})
           c == [t EXCEPT !.kind = "overview", !.refresh = refresh]
<1>1. IsPage(t)
  BY TableIsPage
<1> HIDE DEF t
<1>2. IsPage(c) /\ c.kind = "overview"
  BY <1>1 DEF IsPage, PageFields
<1> QED
  BY <1>2 DEF Overview, PageOK, t

\* The dashboard's two panels leave its query alone.
LEMMA DashboardIsPage ==
  ASSUME NEW refresh \in SUBSET {"deployed"}
  PROVE  PageOK(Dashboard(refresh))
<1> DEFINE t == Table("none", FALSE, "none", {"create"})
           c == [t EXCEPT !.kind = "dashboard", !.refresh = refresh]
<1>1. /\ IsPage(t) /\ t.filter = "none" /\ t.order = FALSE /\ t.pager = "none"
      /\ t.writes = {"create"}
  BY TableIsPage DEF Table
<1>2. Dashboard(refresh) = c
  BY DEF Dashboard
<1> HIDE DEF t
<1>3. /\ IsPage(c) /\ c.refresh = refresh
      /\ c.filter = t.filter /\ c.order = t.order /\ c.pager = t.pager
      /\ c.writes = t.writes
  BY <1>1 DEF IsPage, PageFields
<1> HIDE DEF c
<1> QED
  BY <1>1, <1>2, <1>3 DEF PageOK, Plain

\* Every page of the web client has the shape the proofs rely on.
LEMMA AllPagesAreOK ==
  ASSUME NEW p \in AllPages
  PROVE  PageOK(p)
<1>1. ASSUME NEW f, NEW o, NEW g, NEW w
      PROVE  PageOK(Table(f, o, g, w))
  BY <1>1, TableIsPage DEF PageOK
<1>2. PageOK(FacultyUsers)
  <2> DEFINE t == Table("bar", FALSE, "several", {"save"})
  <2>1. IsPage(t) /\ t.kind = "table"
    BY TableIsPage
  <2> HIDE DEF t
  <2>2. PageOK([t EXCEPT !.byValue = TRUE])
    BY <2>1, ChangedIsPage DEF PageOK, PageFields
  <2> QED
    BY <2>2 DEF FacultyUsers, t
<1>3. \A r \in Roles : PageOK(AdminUsers(r))
  BY <1>2, ForRoleIsPage DEF AdminUsers, FacultyUsers
<1>4. PageOK(Secrets)
  <2> DEFINE t == Table("none", FALSE, "none", {"create", "delete"})
  <2>1. IsPage(t) /\ t.kind = "table"
    BY TableIsPage
  <2> HIDE DEF t
  <2>2. PageOK([t EXCEPT !.kind = "secrets"])
    BY <2>1 DEF PageOK, IsPage
  <2> QED
    BY <2>2 DEF Secrets, t
<1>5. ASSUME NEW c \in BOOLEAN
      PROVE  PageOK(Members(c))
  <2> DEFINE ws == IF c THEN {"create", "delete"} ELSE {"delete"}
             t == Table("none", FALSE, "none", ws)
  <2>2. IsPage(t) /\ t.kind = "table"
    BY TableIsPage
  <2> HIDE DEF t
  <2>3. PageOK([t EXCEPT !.kind = "members"])
    BY <2>2 DEF PageOK, IsPage
  <2> QED
    BY <2>3 DEF Members, t
<1>6. \A r \in Roles : /\ PageOK(AdminQuotas(r)) /\ PageOK(AdminNetworkPolicies(r))
                       /\ PageOK(AdminVlans(r)) /\ PageOK(AdminAudit(r))
                       /\ PageOK(AdminOverview(r))
  <2>1. /\ PageOK(Table("bar", FALSE, "several", {"save"}))
        /\ PageOK(Table("bar", FALSE, "several", AdminPolicyWrites))
        /\ PageOK(Table("none", FALSE, "none", {}))
        /\ PageOK(Table("bar", FALSE, "always", {}))
    BY <1>1 DEF AdminPolicyWrites
  <2>2. PageOK(Overview({}))
    BY OverviewIsPage
  <2> QED
    BY <2>1, <2>2, ForRoleIsPage
    DEF AdminQuotas, AdminNetworkPolicies, AdminVlans, AdminAudit, AdminOverview
<1>7. /\ PageOK(FacultyOverview) /\ PageOK(StaffOverview)
      /\ PageOK(FacultyStudent) /\ PageOK(StaffStudent)
  BY OverviewIsPage DEF FacultyOverview, StaffOverview, FacultyStudent, StaffStudent
<1>8. PageOK(ImportFromGitHub) /\ PageOK(TemplateGallery)
  BY DashboardIsPage DEF ImportFromGitHub, TemplateGallery
<1>9. /\ PageOK(FacultyQuotas) /\ PageOK(StaffQuotas) /\ PageOK(FacultyNetworkPolicies)
      /\ PageOK(FacultyProjects) /\ PageOK(StaffProjects) /\ PageOK(FacultyStudents)
      /\ PageOK(StaffStudents) /\ PageOK(FacultyTags) /\ PageOK(StaffTags)
      /\ PageOK(FacultyVlans) /\ PageOK(StaffVlans) /\ PageOK(FacultyAudit)
      /\ PageOK(StaffAudit)
  BY <1>1
  DEF FacultyQuotas, StaffQuotas, FacultyNetworkPolicies, FacultyProjects,
      StaffProjects, FacultyStudents, StaffStudents, FacultyTags, StaffTags,
      FacultyVlans, StaffVlans, FacultyAudit, StaffAudit, PolicyWrites
<1> QED
  BY <1>2, <1>3, <1>4, <1>5, <1>6, <1>7, <1>8, <1>9 DEF AllPages

-----------------------------------------------------------------------------
(* What every state has. *)

\* A list an answer can carry: existing rows, each with a value.
IsList(l) == /\ DOMAIN l \subseteq Rows
             /\ \A r \in DOMAIN l : l[r] \in Values

FetchFields == {"n", "q", "by", "stage", "rows", "total"}
FetchOK(f) == /\ f = [x \in FetchFields |-> f[x]]
              /\ f.n \in Nat /\ IsList(f.rows)

WriteFields == {"kind", "row", "key", "value", "q", "meant", "id", "stage", "n", "orphan"}
\* A write carries a value, a delete the key of the row that was confirmed;
\* only the dashboard waits for its router.
WriteOK(w) ==
    /\ w = [x \in WriteFields |-> w[x]]
    /\ w.kind # "delete" => w.value \in Values
    /\ w.kind = "save" => w.value = w.meant
    /\ w.stage = "pushed" => page.kind = "dashboard"

\* The open input holds the value last chosen for its row.
EditOK ==
    /\ edit \in [row : Rows \cup {None}, value : Values \cup {None}]
    /\ edit.row # None => edit.value \in Values /\ chosen[edit.row] = edit.value

Shape ==
    /\ PageOK(page)
    /\ rows \in [Rows -> Values \cup {Gone}]
    /\ chosen \in [Rows -> Values \cup {None}]
    /\ issued \in Nat /\ others \in Nat
    /\ \A f \in fetches : FetchOK(f)
    /\ \A w \in writes : WriteOK(w)
    /\ IsList(shown.rows) /\ shown.n \in Nat /\ shown.newest \in Nat
    /\ EditOK

\* Every behaviour starts with a page, a server and no writes.
LEMMA ShapeInit == Init => Shape
<1> SUFFICES ASSUME Init PROVE Shape
  OBVIOUS
<1>1. PageOK(page)
  BY AllPagesAreOK DEF Init
<1>2. rows \in [Rows -> Values \cup {Gone}] /\ chosen \in [Rows -> Values \cup {None}]
  BY DEF Init, Values
<1>3. IsList(<<>>)
  BY DEF IsList
<1>4. \A f \in fetches : FetchOK(f)
  BY <1>3 DEF Init, FetchOK, FetchFields
<1>5. EditOK
  BY DEF Init, EditOK
<1> QED
  BY <1>1, <1>2, <1>3, <1>4, <1>5 DEF Init, Shape

\* The page keeps its kind; only a dashboard that navigates changes at all.
LEMMA PageStep ==
  ASSUME Shape, [Next]_vars
  PROVE  PageOK(page') /\ page'.kind = page.kind
<1>1. ASSUME UNCHANGED page
      PROVE  PageOK(page') /\ page'.kind = page.kind
  BY <1>1 DEF Shape
<1>2. ASSUME NEW w \in writes, Navigate(w)
      PROVE  PageOK(page') /\ page'.kind = page.kind
  <2> DEFINE u == FALSE
             c == [page EXCEPT !.open = u]
  <2>0. IsPage(page)
    BY DEF Shape, PageOK
  <2> HIDE DEF u
  <2>1. IsPage(c) /\ \A x \in PageFields \ {"open"} : c[x] = page[x]
    BY <2>0 DEF IsPage, PageFields
  <2>2. page' = c
    BY <1>2 DEF Navigate, u
  <2> HIDE DEF c
  <2> QED
    BY <2>1, <2>2 DEF Shape, PageOK, Plain, PageFields
<1>3. CASE User
  BY <1>3, <1>1 DEF User, Filter, ToggleOrder, Previous, Next_, Interval, Retry, Refetch, Ask,
       StartEdit, Save, Send, Toggle, OpenDialog, Create, Type, CancelEdit,
       CloseDialog, Confirm, ToggleForm
<1>4. CASE Network
  BY <1>4, <1>1, <1>2 DEF Network, Answer, Apply, FetchFails, Serve, Done, Added, WriteFails
<1> QED
  BY <1>1, <1>3, <1>4 DEF Next, vars, OtherUser

\* The rows an answer carries exist and have their values.
LEMMA ListedIsList ==
  ASSUME Shape, NEW q
  PROVE  IsList([r \in Listed(q) |-> rows[r]])
<1>1. Listed(q) \subseteq {r \in Rows : rows[r] # Gone}
  BY DEF Listed, Matching
<1> QED
  BY <1>1 DEF IsList, Shape

\* Requests for the list are made, answered and dropped, never spoiled.
LEMMA FetchesStep ==
  ASSUME Shape, [Next]_vars
  PROVE  issued' \in Nat /\ \A f \in fetches' : FetchOK(f)
<1>1. ASSUME UNCHANGED issued, fetches' \subseteq fetches
      PROVE  issued' \in Nat /\ \A f \in fetches' : FetchOK(f)
  BY <1>1 DEF Shape
<1>2. ASSUME NEW q, NEW by, FetchWith(q, by)
      PROVE  issued' \in Nat /\ \A f \in fetches' : FetchOK(f)
  <2> DEFINE g == [n |-> issued + 1, q |-> q, by |-> by, stage |-> "sent",
                   rows |-> <<>>, total |-> 0]
  <2>1. IsList(<<>>)
    BY DEF IsList
  <2>2. FetchOK(g)
    BY <2>1 DEF FetchOK, FetchFields, Shape
  <2>3. fetches' = fetches \cup {g} /\ issued' = issued + 1
    BY <1>2 DEF FetchWith
  <2> HIDE DEF g
  <2> QED
    BY <2>2, <2>3 DEF Shape
<1>3. ASSUME NEW f \in fetches, Answer(f)
      PROVE  issued' \in Nat /\ \A g \in fetches' : FetchOK(g)
  <2> DEFINE l == [r \in Listed(f.q) |-> rows[r]]
             t == Cardinality(Matching(f.q))
             a == [f EXCEPT !.stage = "ok", !.rows = l, !.total = t]
             b == [f EXCEPT !.stage = "failed"]
  <2>1. IsList(l)
    BY ListedIsList
  <2>2. fetches' \subseteq fetches \cup {a, b} /\ issued' = issued
    BY <1>3 DEF Answer
  <2>3. FetchOK(f)
    BY DEF Shape
  <2> HIDE DEF l, t
  <2>4. FetchOK(a) /\ FetchOK(b)
    BY <2>1, <2>3 DEF FetchOK, FetchFields
  <2> HIDE DEF a, b
  <2> QED
    BY <2>2, <2>4 DEF Shape
<1>4. CASE User
  BY <1>4, <1>1, <1>2 DEF User, Filter, ToggleOrder, Previous, Next_, Interval, Retry, Refetch,
       Ask, Effect, StartEdit, Save, Send, Toggle, OpenDialog, Create, Type, CancelEdit,
       CloseDialog, Confirm, ToggleForm
<1>5. CASE Network
  BY <1>5, <1>1, <1>2, <1>3 DEF Network, Apply, FetchFails, Serve, Done, Added, Navigate, WriteFails
<1> QED
  BY <1>1, <1>4, <1>5 DEF Next, vars, OtherUser

\* The list shown is one an answer carried.
LEMMA ShownStep ==
  ASSUME Shape, [Next]_vars
  PROVE  IsList(shown.rows)' /\ shown'.n \in Nat /\ shown'.newest \in Nat
<1>1. ASSUME UNCHANGED shown
      PROVE  IsList(shown.rows)' /\ shown'.n \in Nat /\ shown'.newest \in Nat
  BY <1>1 DEF Shape, IsList
<1>2. ASSUME NEW f \in fetches, Apply(f)
      PROVE  IsList(shown.rows)' /\ shown'.n \in Nat /\ shown'.newest \in Nat
  <2>1. FetchOK(f) /\ shown.newest \in Nat
    BY DEF Shape
  <2>2. /\ shown'.rows = f.rows /\ shown'.n = f.n
        /\ shown'.newest \in {f.n, shown.newest}
    BY <1>2 DEF Apply
  <2> QED
    BY <2>1, <2>2 DEF FetchOK, IsList
<1>3. CASE User
  BY <1>3, <1>1 DEF User, Filter, ToggleOrder, Previous, Next_, Interval, Retry, Refetch, Ask,
       StartEdit, Save, Send, Toggle, OpenDialog, Create, Type, CancelEdit,
       CloseDialog, Confirm, ToggleForm
<1>4. CASE Network
  BY <1>4, <1>1, <1>2 DEF Network, Answer, FetchFails, Serve, Done, Added, Navigate, WriteFails
<1> QED
  BY <1>1, <1>3, <1>4 DEF Next, vars, OtherUser

\* The shared input and the user's choices change together.
LEMMA EditStep ==
  ASSUME Shape, [Next]_vars
  PROVE  EditOK' /\ chosen' \in [Rows -> Values \cup {None}]
<1>1. ASSUME UNCHANGED <<edit, chosen>>
      PROVE  EditOK' /\ chosen' \in [Rows -> Values \cup {None}]
  BY <1>1 DEF Shape, EditOK
<1>2. ASSUME UNCHANGED chosen, edit' = [row |-> None, value |-> None]
      PROVE  EditOK' /\ chosen' \in [Rows -> Values \cup {None}]
  BY <1>2 DEF Shape, EditOK
<1>3. ASSUME NEW r \in Rows, NEW v \in Values, edit' = [row |-> r, value |-> v],
             chosen' = [chosen EXCEPT ![r] = v]
      PROVE  EditOK' /\ chosen' \in [Rows -> Values \cup {None}]
  BY <1>3 DEF Shape, EditOK
<1>4. ASSUME NEW r \in Rows, StartEdit(r)
      PROVE  EditOK' /\ chosen' \in [Rows -> Values \cup {None}]
  <2>1. shown.rows[r] \in Values
    BY <1>4 DEF StartEdit, Visible, Shape, IsList
  <2> QED
    BY <1>3, <1>4, <2>1 DEF StartEdit
<1>5. ASSUME NEW v \in Values, Type(v)
      PROVE  EditOK' /\ chosen' \in [Rows -> Values \cup {None}]
  <2>1. edit.row \in Rows /\ edit' = [row |-> edit.row, value |-> v]
    BY <1>5 DEF Type, Shape, EditOK
  <2> QED
    BY <1>3, <1>5, <2>1 DEF Type
<1>6. CASE User
  BY <1>6, <1>1, <1>2, <1>4, <1>5
  DEF User, Filter, ToggleOrder, Previous, Next_, Interval, Retry, Refetch, Ask,
      Save, Send, Toggle, OpenDialog, Create, CancelEdit, CloseDialog, Confirm, ToggleForm
<1>7. ASSUME NEW w \in writes, Done(w)
      PROVE  EditOK' /\ chosen' \in [Rows -> Values \cup {None}]
  BY <1>7, <1>1, <1>2 DEF Done, Closed
<1>8. CASE Network
  BY <1>8, <1>1, <1>7
  DEF Network, Answer, Apply, FetchFails, Serve, Added, Navigate, WriteFails
<1> QED
  BY <1>1, <1>6, <1>8 DEF Next, vars, OtherUser

\* No write puts anything but a value in a row, and a delete nothing at all.
LEMMA RowsStep ==
  ASSUME Shape, [Next]_vars
  PROVE  rows' \in [Rows -> Values \cup {Gone}] /\ others' \in Nat
<1>1. ASSUME UNCHANGED rows
      PROVE  rows' \in [Rows -> Values \cup {Gone}]
  BY <1>1 DEF Shape
<1>2. ASSUME NEW t, NEW v \in Values \cup {Gone}, rows' = [rows EXCEPT ![t] = v]
      PROVE  rows' \in [Rows -> Values \cup {Gone}]
  BY <1>2 DEF Shape
<1>3. ASSUME NEW w \in writes, Serve(w)
      PROVE  rows' \in [Rows -> Values \cup {Gone}]
  <2> DEFINE t == IF w.kind = "delete" THEN Addressed(w.key) ELSE w.row
             v == IF w.kind = "delete" THEN Gone ELSE w.value
  <2>1. v \in Values \cup {Gone} /\ "b" \in Values \cup {Gone}
    BY DEF Shape, WriteOK, Values
  <2>2. \/ UNCHANGED rows
        \/ rows' = [rows EXCEPT ![t] = v]
        \/ rows' = [rows EXCEPT ![t] = "b"]
    BY <1>3 DEF Serve
  <2> HIDE DEF t, v
  <2> QED
    BY <1>1, <1>2, <2>1, <2>2
<1>4. ASSUME User
      PROVE  rows' \in [Rows -> Values \cup {Gone}]
  BY <1>4, <1>1 DEF User, Filter, ToggleOrder, Previous, Next_, Interval, Retry, Refetch, Ask,
       StartEdit, Save, Send, Toggle, OpenDialog, Create, Type, CancelEdit,
       CloseDialog, Confirm, ToggleForm
<1>5. ASSUME Network
      PROVE  rows' \in [Rows -> Values \cup {Gone}]
  BY <1>5, <1>1, <1>3
  DEF Network, Answer, Apply, FetchFails, Done, Added, Navigate, WriteFails
<1>6. ASSUME NEW r \in Rows, OtherUser(r)
      PROVE  rows' \in [Rows -> Values \cup {Gone}]
  BY <1>6, <1>2 DEF OtherUser
<1>7. others' \in Nat
  <2>1. others + 1 \in Nat /\ others \in Nat
    BY DEF Shape
  <2>2. others' = others \/ others' = others + 1
    BY DEF Next, vars, User, Network, Filter, ToggleOrder, Previous, Next_, Interval, Retry,
       Refetch, Ask, StartEdit, Save, Send, Toggle, OpenDialog, Create, Type, CancelEdit,
       CloseDialog, Confirm, ToggleForm, OtherUser, Answer, Apply, FetchFails, Serve,
       Done, Added, Navigate, WriteFails
  <2> QED
    BY <2>1, <2>2
<1> QED
  BY <1>1, <1>4, <1>5, <1>6, <1>7 DEF Next, vars

\* A write keeps what it carries from the click to its answer.
LEMMA WritesStep ==
  ASSUME Shape, [Next]_vars
  PROVE  \A w \in writes' : WriteOK(w)'
<1> DEFINE Good(w) == /\ w = [x \in WriteFields |-> w[x]]
                      /\ w.kind # "delete" => w.value \in Values
                      /\ w.kind = "save" => w.value = w.meant
           Kept(w) == w.stage = "pushed" => page.kind = "dashboard"
<1>1. \A w \in writes : Good(w) /\ Kept(w)
  BY DEF Shape, WriteOK
<1>2. SUFFICES \A w \in writes' : Good(w) /\ Kept(w)
  <2>1. page'.kind = page.kind
    BY PageStep
  <2> QED
    BY <1>2, <2>1 DEF WriteOK
<1>3. ASSUME NEW w, Good(w), NEW s, NEW k
      PROVE  /\ Good([w EXCEPT !.stage = s]) /\ [w EXCEPT !.stage = s].stage = s
             /\ Good([w EXCEPT !.stage = s, !.n = k])
             /\ [w EXCEPT !.stage = s, !.n = k].stage = s
  BY <1>3 DEF WriteFields
<1>3a. ASSUME NEW w \in writes
      PROVE  Good([w EXCEPT !.orphan = TRUE]) /\ Kept([w EXCEPT !.orphan = TRUE])
  <2> DEFINE o == TRUE
  <2> HIDE DEF o
  <2>1. Good([w EXCEPT !.orphan = o]) /\ Kept([w EXCEPT !.orphan = o])
    BY <1>1 DEF WriteFields
  <2> QED
    BY <2>1 DEF o
<1> HIDE DEF Good, Kept
<1>4. \A ws \in SUBSET writes : \A w \in Orphaned(ws) : Good(w) /\ Kept(w)
  <2> SUFFICES ASSUME NEW ws \in SUBSET writes, NEW w \in Orphaned(ws)
               PROVE  Good(w) /\ Kept(w)
    OBVIOUS
  <2>1. PICK u \in ws : w = u \/ w = [u EXCEPT !.orphan = TRUE]
    BY Zenon DEF Orphaned
  <2>2. u \in writes
    OBVIOUS
  <2> QED
    BY <1>1, <1>3a, <2>1, <2>2
<1>5. ASSUME writes' \subseteq writes
      PROVE  \A w \in writes' : Good(w) /\ Kept(w)
  BY <1>1, <1>5
<1>6. ASSUME NEW kind, NEW r, NEW key, NEW v, Send(kind, r, key, v),
             kind # "delete" => v \in Values,
             kind = "delete" => key = Key(r),
             kind = "save" => v = chosen[r]
      PROVE  \A w \in writes' : Good(w) /\ Kept(w)
  <2> DEFINE s == [kind |-> kind, row |-> r, key |-> key, value |-> v, q |-> query,
                   meant |-> chosen[r], id |-> used, stage |-> "sent", n |-> 0,
                   orphan |-> FALSE]
  <2>1. Good(s) /\ Kept(s)
    BY <1>6 DEF Good, Kept, WriteFields
  <2>2. writes' = writes \cup {s}
    BY <1>6 DEF Send
  <2> HIDE DEF s
  <2> QED
    BY <1>1, <2>1, <2>2
<1>7. ASSUME NEW r \in Rows, Save(r)
      PROVE  \A w \in writes' : Good(w) /\ Kept(w)
  <2>1. edit.value \in Values /\ edit.value = chosen[r]
    BY <1>7, ConstantsAssumption DEF Save, Shape, EditOK
  <2> QED
    BY <1>6, <1>7, <2>1 DEF Save
<1>8. ASSUME NEW r \in Rows, Toggle(r) \/ Create(r)
      PROVE  \A w \in writes' : Good(w) /\ Kept(w)
  <2>1. Flip(shown.rows[r]) \in Values /\ "a" \in Values
    BY DEF Flip, Values
  <2> QED
    BY <1>6, <1>8, <2>1 DEF Toggle, Create
<1>9. ASSUME Confirm
      PROVE  \A w \in writes' : Good(w) /\ Kept(w)
  BY <1>6, <1>9 DEF Confirm
<1>10. ASSUME ToggleForm
       PROVE  \A w \in writes' : Good(w) /\ Kept(w)
  BY <1>4, <1>5, <1>10 DEF ToggleForm
<1>11. ASSUME NEW w \in writes, NEW x, Good(x), Kept(x),
              writes' = (writes \ {w}) \cup {x}
       PROVE  \A u \in writes' : Good(u) /\ Kept(u)
  BY <1>1, <1>11
<1>12. ASSUME NEW w \in writes, Serve(w)
       PROVE  \A u \in writes' : Good(u) /\ Kept(u)
  <2>1. \/ writes' = (writes \ {w}) \cup {[w EXCEPT !.stage = "ok"]}
        \/ writes' = (writes \ {w}) \cup {[w EXCEPT !.stage = "failed"]}
    BY <1>12 DEF Serve
  <2>2. ASSUME NEW s, s # "pushed"
        PROVE  Good([w EXCEPT !.stage = s]) /\ Kept([w EXCEPT !.stage = s])
    <3>1. Good([w EXCEPT !.stage = s]) /\ [w EXCEPT !.stage = s].stage = s
      BY <1>1, <1>3
    <3> QED
      BY <2>2, <3>1 DEF Kept
  <2> QED
    BY <1>11, <2>1, <2>2
<1>13. ASSUME NEW w \in writes, Done(w)
       PROVE  \A u \in writes' : Good(u) /\ Kept(u)
  <2> DEFINE x == [w EXCEPT !.stage = "refetch", !.n = issued + 1]
  <2>1. \/ writes' = Orphaned(writes \ {w})
        \/ writes' = writes \ {w}
        \/ writes' = (writes \ {w}) \cup {x}
    BY <1>13 DEF Done
  <2>2. Good(x) /\ x.stage = "refetch"
    BY <1>1, <1>3
  <2> HIDE DEF x
  <2>3. Kept(x)
    BY <2>2 DEF Kept
  <2> QED
    BY <1>4, <1>5, <1>11, <2>1, <2>2, <2>3
<1>14. ASSUME NEW w \in writes, Added(w)
       PROVE  \A u \in writes' : Good(u) /\ Kept(u)
  <2> DEFINE p == [w EXCEPT !.stage = "pushed"]
  <2>1. \/ writes' = Orphaned(writes \ {w}) \cup {p}
        \/ writes' = (writes \ {w}) \cup {p}
    BY <1>14 DEF Added
  <2>2. Good(p) /\ Kept(p)
    BY <1>1, <1>3, <1>14 DEF Added, Kept
  <2> HIDE DEF p
  <2> QED
    BY <1>4, <1>11, <2>1, <2>2
<1>15. ASSUME User
       PROVE  \A u \in writes' : Good(u) /\ Kept(u)
  BY <1>5, <1>7, <1>8, <1>9, <1>10, <1>15
  DEF User, Filter, ToggleOrder, Previous, Next_, Interval, Retry, Refetch, Ask,
      StartEdit, OpenDialog, Type, CancelEdit, CloseDialog
<1>16. ASSUME Network
       PROVE  \A u \in writes' : Good(u) /\ Kept(u)
  BY <1>5, <1>12, <1>13, <1>14, <1>16
  DEF Network, Answer, Apply, FetchFails, Resume, Navigate, WriteFails
<1> QED
  BY <1>5, <1>15, <1>16 DEF Next, vars, OtherUser

\* Every state of every behaviour has this shape.
LEMMA ShapeAlways == Spec => []Shape
<1>1. Shape /\ [Next]_vars => Shape'
  BY PageStep, RowsStep, EditStep, FetchesStep, WritesStep, ShownStep
  DEF Shape, FetchOK, IsList
<1> QED
  BY ShapeInit, <1>1, PTL DEF Spec

\* A saved role or quota is the value the user chose for its row.
THEOREM SavesAreMeant == Spec => []WritesAreMeant
<1>1. Shape => WritesAreMeant
  BY DEF Shape, WriteOK, WritesAreMeant
<1> QED
  BY ShapeAlways, <1>1, PTL

-----------------------------------------------------------------------------
(* The list answers the query. *)

\* The newest request asks for the query the page displays, or is the refetch
\* of a write; so is the list shown once that request is answered.  The newest
\* request is on its way, answered, or its failure is shown.  The dashboard's
\* query never changes, and it hides failures.
QueryInv ==
    /\ \A f \in fetches : f.n <= issued /\ (f.n = issued => f.by = "write" \/ f.q = query)
    /\ shown.n <= shown.newest /\ shown.newest <= issued
    /\ shown.n = issued => shown.by = "write" \/ shown.q = query
    /\ page.kind # "dashboard" =>
         error \/ shown.newest = issued \/ \E f \in fetches : f.n = issued
    /\ page.kind = "dashboard" =>
         shown.q = query /\ \A f \in fetches : f.q = query

\* A request that becomes the newest is for the query, or a write's.
LEMMA NewFetch ==
  ASSUME Shape, QueryInv, NEW q, NEW by, FetchWith(q, by), UNCHANGED <<page, shown>>,
         \/ by = "write" /\ query' = query
         \/ query' = q,
         page.kind = "dashboard" => query' = query /\ q = query
  PROVE  QueryInv'
<1> DEFINE g == [n |-> issued + 1, q |-> q, by |-> by, stage |-> "sent",
                 rows |-> <<>>, total |-> 0]
<1>1. g.n = issued + 1 /\ g.q = q /\ g.by = by
  OBVIOUS
<1>2. fetches' = fetches \cup {g} /\ issued' = issued + 1
  BY DEF FetchWith
<1> HIDE DEF g
<1>3. issued \in Nat /\ shown.n \in Nat /\ shown.newest \in Nat
      /\ \A f \in fetches : f.n \in Nat
  BY DEF Shape, FetchOK
<1>4. \A f \in fetches' : f.n <= issued' /\ (f.n = issued' => f.by = "write" \/ f.q = query')
  BY <1>1, <1>2, <1>3 DEF QueryInv
<1>5. g \in fetches' /\ g.n = issued'
  BY <1>1, <1>2
<1>6. shown'.n <= shown'.newest /\ shown'.newest < issued' /\ shown'.n < issued'
  BY <1>2, <1>3 DEF QueryInv
<1>7. page'.kind = "dashboard" =>
         shown'.q = query' /\ \A f \in fetches' : f.q = query'
  BY <1>1, <1>2 DEF QueryInv
<1> QED
  BY <1>2, <1>3, <1>4, <1>5, <1>6, <1>7 DEF QueryInv

\* On a dashboard nothing but a write fetches the list again.
LEMMA AskIsNoDashboard ==
  ASSUME Shape,
         \/ \E v \in {All, "a"} : Filter(v)
         \/ ToggleOrder \/ Previous \/ Next_ \/ Interval \/ Retry
  PROVE  page.kind # "dashboard"
BY DEF Shape, PageOK, Plain, Filter, ToggleOrder, Previous, Next_, PagerShown, Interval, Retry

\* Requests overtake one another, fail and are repeated, and the newest one
\* still decides what is shown.
LEMMA QueryStep ==
  ASSUME Shape, QueryInv, [Next]_vars
  PROVE  QueryInv'
<1> USE DEF Shape
<1>1. page'.kind = page.kind
  BY PageStep
<1>2. ASSUME UNCHANGED <<query, fetches, shown, issued>>, error => error'
      PROVE  QueryInv'
  BY <1>1, <1>2 DEF QueryInv
<1>3. ASSUME NEW q, Ask(q), page.kind # "dashboard"
      PROVE  QueryInv'
  <2>1. CASE q = query
    BY <1>2, <1>3, <2>1 DEF Ask, Effect
  <2>2. CASE q # query
    BY <1>3, <2>2, NewFetch DEF Ask, Effect
  <2> QED
    BY <2>1, <2>2
<1>4. ASSUME Refetch, page.kind # "dashboard"
      PROVE  QueryInv'
  BY <1>4, NewFetch DEF Refetch
<1>5. ASSUME User
      PROVE  QueryInv'
  <2>1. ASSUME \/ \E v \in {All, "a"} : Filter(v)
               \/ ToggleOrder \/ Previous \/ Next_ \/ Interval \/ Retry
        PROVE  QueryInv'
    BY <2>1, <1>3, <1>4, AskIsNoDashboard
    DEF Filter, ToggleOrder, Previous, Next_, Interval, Retry
  <2> QED
    BY <1>2, <1>5, <2>1
    DEF User, StartEdit, Save, Send, Toggle, OpenDialog, Create, Type, CancelEdit,
        CloseDialog, Confirm, ToggleForm
<1>6. ASSUME NEW f \in fetches, Answer(f)
      PROVE  QueryInv'
  <2>1. PICK g : /\ fetches' = (fetches \ {f}) \cup {g}
                 /\ g.n = f.n /\ g.q = f.q /\ g.by = f.by
    <3> DEFINE l == [r \in Listed(f.q) |-> rows[r]]
               t == Cardinality(Matching(f.q))
               a == [f EXCEPT !.stage = "ok", !.rows = l, !.total = t]
               b == [f EXCEPT !.stage = "failed"]
    <3>1. fetches' = (fetches \ {f}) \cup {a} \/ fetches' = (fetches \ {f}) \cup {b}
      BY <1>6 DEF Answer
    <3> HIDE DEF l, t
    <3>2. /\ a.n = f.n /\ a.q = f.q /\ a.by = f.by
          /\ b.n = f.n /\ b.q = f.q /\ b.by = f.by
      BY DEF FetchOK, FetchFields
    <3> HIDE DEF a, b
    <3> QED
      BY <3>1, <3>2
  <2>2. UNCHANGED <<page, query, shown, issued, error>>
    BY <1>6 DEF Answer
  <2>3. \A h \in fetches' : \E k \in fetches : h.n = k.n /\ h.q = k.q /\ h.by = k.by
    BY <2>1
  <2>4. \A k \in fetches : \E h \in fetches' : h.n = k.n
    BY <2>1
  <2> QED
    BY <2>2, <2>3, <2>4 DEF QueryInv
<1>7. ASSUME NEW f \in fetches, Apply(f)
      PROVE  QueryInv'
  <2>1. f.n \in Nat /\ issued \in Nat /\ shown.n \in Nat /\ shown.newest \in Nat
    BY DEF FetchOK
  <2>2. UNCHANGED <<page, query, issued, error>> /\ fetches' = fetches \ {f}
    BY <1>7 DEF Apply
  <2>3. /\ shown'.q = f.q /\ shown'.by = f.by /\ shown'.n = f.n
        /\ shown'.newest = IF f.n > shown.newest THEN f.n ELSE shown.newest
    BY <1>7 DEF Apply
  <2>4. shown'.n <= shown'.newest /\ shown'.newest <= issued /\ shown'.newest >= shown.newest
    BY <2>1, <2>3 DEF QueryInv
  <2>5. page.kind # "dashboard" =>
          error \/ shown'.newest = issued \/ \E h \in fetches' : h.n = issued
    BY <2>1, <2>2, <2>3, <2>4 DEF QueryInv
  <2> QED
    BY <2>2, <2>3, <2>4, <2>5 DEF QueryInv
<1>8. ASSUME NEW f \in fetches, FetchFails(f)
      PROVE  QueryInv'
  BY <1>8 DEF FetchFails, QueryInv
<1>9. ASSUME NEW w \in writes, Done(w)
      PROVE  QueryInv'
  BY <1>9, NewFetch DEF Done
<1>10. ASSUME NEW w \in writes, Added(w)
       PROVE  QueryInv'
  <2>1. CASE "deployed" \in page.refresh
    BY <1>10, <2>1, NewFetch DEF Added
  <2>2. CASE "deployed" \notin page.refresh
    BY <1>2, <1>10, <2>2 DEF Added
  <2> QED
    BY <2>1, <2>2
<1>11. ASSUME NEW w \in writes, Navigate(w)
       PROVE  QueryInv'
  <2>1. page.kind = "dashboard"
    BY <1>11 DEF Navigate, WriteOK
  <2>2. fetches' = {} /\ UNCHANGED <<query, shown, issued>>
    BY <1>11 DEF Navigate
  <2> QED
    BY <1>1, <2>1, <2>2 DEF QueryInv
<1>12. ASSUME Network
       PROVE  QueryInv'
  BY <1>2, <1>6, <1>7, <1>8, <1>9, <1>10, <1>11, <1>12 DEF Network, Serve, WriteFails
<1> QED
  BY <1>2, <1>5, <1>12 DEF Next, vars, OtherUser

\* When nothing is on its way and no error is shown, the list answers the
\* query, unless an answer was overtaken or a write fetched it.
THEOREM ListsAnswerQueries == Spec => []ListMatchesQuery
<1>1. Init => QueryInv
  BY DEF Init, QueryInv
<1>2. Shape /\ QueryInv /\ [Next]_vars => QueryInv'
  BY QueryStep
<1>3. Shape /\ QueryInv => ListMatchesQuery
  BY DEF Shape, QueryInv, ListMatchesQuery
<1> QED
  BY ShapeAlways, <1>1, <1>2, <1>3, PTL DEF Spec

-----------------------------------------------------------------------------
(* What a disabled button waits for. *)

\* A button is disabled only while a write that will release it is on its way,
\* or the refetch of that write is: whatever fails, is closed or navigates away,
\* and however many forms were closed over a write of their own, no flag is left
\* set without one.  This is the safety half of ButtonsComeBack.
BusyIsAwaited ==
    /\ busy.saving => \E w \in writes : w.kind \in {"save", "create"} /\ ~w.orphan
    /\ busy.toggling # None => \E w \in writes : w.kind = "toggle"
    /\ busy.deleting # None => \E w \in writes : w.kind = "delete"
    /\ \A w \in writes : w.stage = "refetch" => \E f \in fetches : f.n = w.n

WriteKinds == {"save", "create", "toggle", "delete"}
WriteIs(w) == /\ w = [x \in WriteFields |-> w[x]]
              /\ w.kind \in WriteKinds /\ w.orphan \in BOOLEAN

BusyFields == {"saving", "toggling", "deleting"}
BusyIs(b) == b = [x \in BusyFields |-> b[x]] /\ b.saving \in BOOLEAN

\* A write that will clear saving.
Saver(w) == w.kind \in {"save", "create"} /\ ~w.orphan

Held ==
    /\ BusyIs(busy)
    /\ busy.saving => \E w \in writes : Saver(w)
    /\ busy.toggling # None => \E w \in writes : w.kind = "toggle"
    /\ busy.deleting # None => \E w \in writes : w.kind = "delete"

\* A fetch that a write waits for is on its way and no other write's.
Waits ==
    /\ \A w \in writes : w.stage = "refetch" =>
         w.n \in 1..issued /\ \E f \in fetches : f.n = w.n
    /\ \A u, w \in writes :
         u.stage = "refetch" /\ w.stage = "refetch" /\ u.n = w.n => u = w

\* The dashboard, which alone is left by its router, has no rows to toggle or
\* to delete.
NoRowButtons ==
    page.kind = "dashboard" =>
      confirm = None /\ busy.toggling = None /\ busy.deleting = None

AwaitInv == (\A w \in writes : WriteIs(w)) /\ Held /\ Waits /\ NoRowButtons

\* saving set or cleared leaves the other two flags alone.
LEMMA SetSaving ==
  ASSUME BusyIs(busy), NEW u \in BOOLEAN, NEW b, b = [busy EXCEPT !.saving = u]
  PROVE  /\ BusyIs(b) /\ b.saving = u
         /\ b.toggling = busy.toggling /\ b.deleting = busy.deleting
<1>1. DOMAIN busy = BusyFields
  BY DEF BusyIs
<1> QED
  BY <1>1 DEF BusyIs, BusyFields

\* So does either of them.
LEMMA SetRow ==
  ASSUME BusyIs(busy), NEW u, NEW b
  PROVE  /\ b = [busy EXCEPT !.toggling = u] =>
              BusyIs(b) /\ b.toggling = u /\ b.saving = busy.saving /\ b.deleting = busy.deleting
         /\ b = [busy EXCEPT !.deleting = u] =>
              BusyIs(b) /\ b.deleting = u /\ b.saving = busy.saving /\ b.toggling = busy.toggling
<1>1. DOMAIN busy = BusyFields /\ busy.saving \in BOOLEAN
  BY DEF BusyIs
<1>2. ASSUME b = [busy EXCEPT !.toggling = u]
      PROVE  BusyIs(b) /\ b.toggling = u /\ b.saving = busy.saving /\ b.deleting = busy.deleting
  BY <1>1, <1>2 DEF BusyIs, BusyFields
<1>3. ASSUME b = [busy EXCEPT !.deleting = u]
      PROVE  BusyIs(b) /\ b.deleting = u /\ b.saving = busy.saving /\ b.toggling = busy.toggling
  BY <1>1, <1>3 DEF BusyIs, BusyFields
<1> QED
  BY <1>2, <1>3

\* Release(w) clears w's own flag, and saving only if w still owns it.
LEMMA ReleaseClears ==
  ASSUME BusyIs(busy), NEW w, WriteIs(w), NEW b, b = Release(w)
  PROVE  /\ BusyIs(b)
         /\ b.saving => busy.saving /\ ~Saver(w)
         /\ b.toggling # None => b.toggling = busy.toggling /\ w.kind # "toggle"
         /\ b.deleting # None => b.deleting = busy.deleting /\ w.kind # "delete"
<1>1. CASE w.kind \in {"save", "create"}
  <2> DEFINE u == busy.saving /\ w.orphan
  <2>1. b = [busy EXCEPT !.saving = u]
    BY <1>1 DEF Release
  <2>2. u \in BOOLEAN /\ (u => busy.saving /\ w.orphan)
    BY DEF WriteIs, BusyIs
  <2> HIDE DEF u
  <2>3. BusyIs(b) /\ b.saving = u /\ b.toggling = busy.toggling /\ b.deleting = busy.deleting
    BY <2>1, <2>2, SetSaving
  <2>4. w.kind # "toggle" /\ w.kind # "delete"
    BY <1>1
  <2>5. b.saving => busy.saving /\ ~Saver(w)
    BY <2>2, <2>3 DEF Saver
  <2> QED
    BY <2>3, <2>4, <2>5
<1>2. CASE w.kind = "toggle"
  <2>1. b = [busy EXCEPT !.toggling = None]
    BY <1>2 DEF Release
  <2>2. BusyIs(b) /\ b.toggling = None /\ b.saving = busy.saving /\ b.deleting = busy.deleting
    BY <2>1, SetRow
  <2>3. ~Saver(w) /\ w.kind # "delete"
    BY <1>2 DEF Saver
  <2> QED
    BY <2>2, <2>3 DEF BusyIs
<1>3. CASE w.kind = "delete"
  <2>1. b = [busy EXCEPT !.deleting = None]
    BY <1>3 DEF Release
  <2>2. BusyIs(b) /\ b.deleting = None /\ b.saving = busy.saving /\ b.toggling = busy.toggling
    BY <2>1, SetRow
  <2>3. ~Saver(w) /\ w.kind # "toggle"
    BY <1>3 DEF Saver
  <2> QED
    BY <2>2, <2>3 DEF BusyIs
<1> QED
  BY <1>1, <1>2, <1>3 DEF WriteIs, WriteKinds

\* A write that moves on keeps its kind and its form.
LEMMA MovesOn ==
  ASSUME NEW w, WriteIs(w), NEW s, NEW x, x = [w EXCEPT !.stage = s]
  PROVE  WriteIs(x) /\ x.kind = w.kind /\ x.orphan = w.orphan /\ x.stage = s
<1>1. DOMAIN w = WriteFields
  BY DEF WriteIs
<1> QED
  BY <1>1 DEF WriteIs, WriteFields

\* The form of a write is closed.
LEMMA FormCloses ==
  ASSUME NEW u, WriteIs(u), NEW o \in BOOLEAN, NEW x, x = [u EXCEPT !.orphan = o]
  PROVE  WriteIs(x) /\ x.kind = u.kind /\ x.stage = u.stage /\ x.n = u.n
<1>1. DOMAIN u = WriteFields
  BY DEF WriteIs
<1> QED
  BY <1>1 DEF WriteIs, WriteFields

\* Closing a form touches nothing else of the writes.
LEMMA OrphanedKeeps ==
  ASSUME NEW ws, \A w \in ws : WriteIs(w)
  PROVE  /\ \A x \in Orphaned(ws) : \E u \in ws :
              /\ x = IF u.kind = "create" THEN [u EXCEPT !.orphan = TRUE] ELSE u
              /\ WriteIs(x) /\ x.kind = u.kind /\ x.stage = u.stage /\ x.n = u.n
         /\ \A u \in ws : u.kind # "create" => u \in Orphaned(ws)
<1> DEFINE F(u) == IF u.kind = "create" THEN [u EXCEPT !.orphan = TRUE] ELSE u
<1>1. ASSUME NEW u \in ws
      PROVE  WriteIs(F(u)) /\ F(u).kind = u.kind /\ F(u).stage = u.stage /\ F(u).n = u.n
  <2>1. CASE u.kind = "create"
    BY <2>1, FormCloses
  <2>2. CASE u.kind # "create"
    BY <2>2
  <2> QED
    BY <2>1, <2>2
<1>2. Orphaned(ws) = {F(u) : u \in ws}
  BY DEF Orphaned
<1>3. \A u \in ws : u.kind # "create" => F(u) = u
  OBVIOUS
<1> HIDE DEF F
<1>4. \A x \in Orphaned(ws) : \E u \in ws :
        x = F(u) /\ WriteIs(x) /\ x.kind = u.kind /\ x.stage = u.stage /\ x.n = u.n
  BY <1>1, <1>2
<1>5. \A u \in ws : u.kind # "create" => u \in Orphaned(ws)
  BY <1>2, <1>3
<1> QED
  BY <1>4, <1>5 DEF F

\* The four ways the flags and the writes change together.  First: the flags stay
\* and every write lives on in some form.
LEMMA HeldOn ==
  ASSUME AwaitInv, UNCHANGED busy,
         \A w \in writes : \E x \in writes' : x.kind = w.kind /\ x.orphan = w.orphan
  PROVE  Held'
  BY DEF AwaitInv, Held, Saver

\* A write goes and releases its flag.
LEMMA HeldReleased ==
  ASSUME AwaitInv, NEW w \in writes, writes \ {w} \subseteq writes', busy' = Release(w)
  PROVE  Held'
<1>1. /\ BusyIs(busy')
      /\ busy'.saving => busy.saving /\ ~Saver(w)
      /\ busy'.toggling # None => busy'.toggling = busy.toggling /\ w.kind # "toggle"
      /\ busy'.deleting # None => busy'.deleting = busy.deleting /\ w.kind # "delete"
  BY ReleaseClears DEF AwaitInv, Held
<1>2. busy'.saving => \E u \in writes' : Saver(u)
  BY <1>1 DEF AwaitInv, Held
<1>3. busy'.toggling # None => \E u \in writes' : u.kind = "toggle"
  BY <1>1 DEF AwaitInv, Held
<1>4. busy'.deleting # None => \E u \in writes' : u.kind = "delete"
  BY <1>1 DEF AwaitInv, Held
<1> QED
  BY <1>1, <1>2, <1>3, <1>4 DEF Held

\* A form is closed, or its write is done, and its flag goes with it.
LEMMA HeldClosed ==
  ASSUME AwaitInv, busy' = [busy EXCEPT !.saving = FALSE],
         \A w \in writes : w.kind # "create" => \E x \in writes' : x.kind = w.kind
  PROVE  Held'
<1>1. /\ BusyIs(busy') /\ busy'.saving = FALSE
      /\ busy'.toggling = busy.toggling /\ busy'.deleting = busy.deleting
  BY SetSaving DEF AwaitInv, Held
<1>2. busy'.toggling # None => \E u \in writes' : u.kind = "toggle"
  BY <1>1 DEF AwaitInv, Held
<1>3. busy'.deleting # None => \E u \in writes' : u.kind = "delete"
  BY <1>1 DEF AwaitInv, Held
<1> QED
  BY <1>1, <1>2, <1>3 DEF Held

\* A write is sent and sets its flag.
LEMMA Sent ==
  ASSUME AwaitInv, NEW kind \in WriteKinds, NEW r, NEW key, NEW v, Send(kind, r, key, v)
  PROVE  \E s : /\ writes' = writes \cup {s} /\ WriteIs(s)
                /\ s.kind = kind /\ ~s.orphan /\ s.stage = "sent"
<1> DEFINE s == [kind |-> kind, row |-> r, key |-> key, value |-> v, q |-> query,
                 meant |-> chosen[r], id |-> used, stage |-> "sent", n |-> 0, orphan |-> FALSE]
<1>1. writes' = writes \cup {s}
  BY DEF Send
<1>2. WriteIs(s) /\ s.kind = kind /\ ~s.orphan /\ s.stage = "sent"
  BY DEF WriteIs, WriteFields
<1> HIDE DEF s
<1> QED
  BY <1>1, <1>2

\* The flags of a write that is sent.
LEMMA HeldSent ==
  ASSUME AwaitInv, NEW s, writes' = writes \cup {s}, ~s.orphan,
         \/ s.kind \in {"save", "create"} /\ busy' = [busy EXCEPT !.saving = TRUE]
         \/ s.kind = "toggle" /\ \E r : busy' = [busy EXCEPT !.toggling = r]
         \/ s.kind = "delete" /\ \E r : busy' = [busy EXCEPT !.deleting = r]
  PROVE  Held'
<1>0. BusyIs(busy) /\ writes \subseteq writes' /\ s \in writes'
  BY DEF AwaitInv, Held
<1>1. CASE s.kind \in {"save", "create"} /\ busy' = [busy EXCEPT !.saving = TRUE]
  <2>1. /\ BusyIs(busy') /\ busy'.toggling = busy.toggling /\ busy'.deleting = busy.deleting
    BY <1>0, <1>1, SetSaving
  <2>2. Saver(s)
    BY <1>1 DEF Saver
  <2> QED
    BY <1>0, <2>1, <2>2 DEF AwaitInv, Held
<1>2. ASSUME s.kind = "toggle", NEW r, busy' = [busy EXCEPT !.toggling = r] PROVE Held'
  <2>1. BusyIs(busy') /\ busy'.saving = busy.saving /\ busy'.deleting = busy.deleting
    BY <1>0, <1>2, SetRow
  <2> QED
    BY <1>0, <1>2, <2>1 DEF AwaitInv, Held
<1>3. ASSUME s.kind = "delete", NEW r, busy' = [busy EXCEPT !.deleting = r] PROVE Held'
  <2>1. BusyIs(busy') /\ busy'.saving = busy.saving /\ busy'.toggling = busy.toggling
    BY <1>0, <1>3, SetRow
  <2> QED
    BY <1>0, <1>3, <2>1 DEF AwaitInv, Held
<1> QED
  BY <1>1, <1>2, <1>3

\* The requests for the list that are on their way stay so, or are asked anew.
FetchesOn == /\ issued' \in {issued, issued + 1}
             /\ \A f \in fetches : \E g \in fetches' : g.n = f.n

\* A fetch that is issued is on its way.
LEMMA FetchWithOn ==
  ASSUME NEW q, NEW by, FetchWith(q, by)
  PROVE  FetchesOn /\ issued' = issued + 1 /\ \E g \in fetches' : g.n = issued + 1
<1> DEFINE g == [n |-> issued + 1, q |-> q, by |-> by, stage |-> "sent",
                 rows |-> <<>>, total |-> 0]
<1>1. fetches' = fetches \cup {g} /\ issued' = issued + 1 /\ g.n = issued + 1
  BY DEF FetchWith
<1> HIDE DEF g
<1> QED
  BY <1>1 DEF FetchesOn

\* Writes that wait for nothing new.
LEMMA WaitsOn ==
  ASSUME Shape, AwaitInv, FetchesOn,
         \A x \in writes' : x \in writes \/ x.stage # "refetch"
  PROVE  Waits'
<1>1. \A w \in writes : w.stage = "refetch" =>
        w.n \in 1..issued' /\ \E f \in fetches' : f.n = w.n
  BY DEF Shape, AwaitInv, Waits, FetchesOn
<1> QED
  BY <1>1 DEF AwaitInv, Waits

\* The same when a form is closed over its write.
LEMMA WaitsOrphaned ==
  ASSUME Shape, AwaitInv, FetchesOn, NEW ws \in SUBSET writes,
         \A x \in writes' : x \in Orphaned(ws) \/ x.stage # "refetch"
  PROVE  Waits'
<1>1. \A w \in writes : w.stage = "refetch" =>
        w.n \in 1..issued' /\ \E f \in fetches' : f.n = w.n
  BY DEF Shape, AwaitInv, Waits, FetchesOn
<1>2. \A x \in Orphaned(ws) : \E u \in ws :
        /\ x = IF u.kind = "create" THEN [u EXCEPT !.orphan = TRUE] ELSE u
        /\ x.stage = u.stage /\ x.n = u.n
  BY OrphanedKeeps DEF AwaitInv
<1>3. ASSUME NEW x \in writes', x.stage = "refetch"
      PROVE  x.n \in 1..issued' /\ \E f \in fetches' : f.n = x.n
  BY <1>1, <1>2, <1>3
<1>4. ASSUME NEW x \in writes', NEW y \in writes', x.stage = "refetch", y.stage = "refetch",
             x.n = y.n
      PROVE  x = y
  <2>1. x \in Orphaned(ws) /\ y \in Orphaned(ws)
    BY <1>4
  <2>2. PICK u \in ws : /\ x = IF u.kind = "create" THEN [u EXCEPT !.orphan = TRUE] ELSE u
                        /\ x.stage = u.stage /\ x.n = u.n
    BY <1>2, <2>1
  <2>3. PICK v \in ws : /\ y = IF v.kind = "create" THEN [v EXCEPT !.orphan = TRUE] ELSE v
                        /\ y.stage = v.stage /\ y.n = v.n
    BY <1>2, <2>1
  <2>4. u = v
    BY <1>4, <2>2, <2>3 DEF AwaitInv, Waits
  <2> QED
    BY <2>2, <2>3, <2>4
<1> QED
  BY <1>3, <1>4 DEF Waits

\* A click on a row's button, the form or the dialog sends a write.
LEMMA SendAwaits ==
  ASSUME Shape, AwaitInv,
         \/ \E r \in Rows : Save(r) \/ Toggle(r) \/ Create(r)
         \/ Confirm
  PROVE  (\A x \in writes' : WriteIs(x)) /\ Held' /\ Waits'
<1>1. PICK s : /\ writes' = writes \cup {s} /\ WriteIs(s) /\ ~s.orphan /\ s.stage = "sent"
               /\ \/ s.kind \in {"save", "create"} /\ busy' = [busy EXCEPT !.saving = TRUE]
                  \/ s.kind = "toggle" /\ \E r : busy' = [busy EXCEPT !.toggling = r]
                  \/ s.kind = "delete" /\ \E r : busy' = [busy EXCEPT !.deleting = r]
  <2> DEFINE Goal == \E s :
               /\ writes' = writes \cup {s} /\ WriteIs(s) /\ ~s.orphan /\ s.stage = "sent"
               /\ \/ s.kind \in {"save", "create"} /\ busy' = [busy EXCEPT !.saving = TRUE]
                  \/ s.kind = "toggle" /\ \E r : busy' = [busy EXCEPT !.toggling = r]
                  \/ s.kind = "delete" /\ \E r : busy' = [busy EXCEPT !.deleting = r]
  <2>1. ASSUME NEW kind \in WriteKinds, NEW r, NEW key, NEW v, Send(kind, r, key, v),
               \/ kind \in {"save", "create"} /\ busy' = [busy EXCEPT !.saving = TRUE]
               \/ kind = "toggle" /\ \E i : busy' = [busy EXCEPT !.toggling = i]
               \/ kind = "delete" /\ \E i : busy' = [busy EXCEPT !.deleting = i]
        PROVE  Goal
    <3>1. PICK s : /\ writes' = writes \cup {s} /\ WriteIs(s)
                   /\ s.kind = kind /\ ~s.orphan /\ s.stage = "sent"
      BY <2>1, Sent
    <3> QED
      BY <2>1, <3>1
  <2> HIDE DEF Goal
  <2>2. {"save", "create", "toggle", "delete"} = WriteKinds
    BY DEF WriteKinds
  <2>3. ASSUME NEW r \in Rows, Save(r) PROVE Goal
    BY <2>1, <2>2, <2>3 DEF Save
  <2>4. ASSUME NEW r \in Rows, Toggle(r) PROVE Goal
    BY <2>1, <2>2, <2>4 DEF Toggle
  <2>5. ASSUME NEW r \in Rows, Create(r) PROVE Goal
    BY <2>1, <2>2, <2>5 DEF Create
  <2>6. ASSUME Confirm PROVE Goal
    BY <2>1, <2>2, <2>6 DEF Confirm
  <2>7. Goal
    BY <2>3, <2>4, <2>5, <2>6
  <2> QED
    BY <2>7 DEF Goal
<1>2. \A x \in writes' : WriteIs(x)
  BY <1>1 DEF AwaitInv
<1>3. Held'
  BY <1>1, HeldSent
<1>4. FetchesOn
  BY DEF Save, Toggle, Create, Confirm, Send, FetchesOn
<1>5. Waits'
  BY <1>1, <1>4, WaitsOn
<1> QED
  BY <1>2, <1>3, <1>5

\* A form is opened, or closed over the write it sent.
LEMMA FormAwaits ==
  ASSUME Shape, AwaitInv, ToggleForm
  PROVE  (\A x \in writes' : WriteIs(x)) /\ Held' /\ Waits'
<1>1. FetchesOn
  BY DEF ToggleForm, FetchesOn
<1>2. CASE UNCHANGED <<busy, writes>>
  <2>1. Held'
    BY <1>2, HeldOn
  <2>2. Waits'
    BY <1>1, <1>2, WaitsOn
  <2> QED
    BY <1>2, <2>1, <2>2 DEF AwaitInv
<1>3. CASE busy' = [busy EXCEPT !.saving = FALSE] /\ writes' = Orphaned(writes)
  <2>1. /\ \A x \in writes' : WriteIs(x)
        /\ \A w \in writes : w.kind # "create" => w \in writes'
    BY <1>3, OrphanedKeeps DEF AwaitInv
  <2>2. Held'
    BY <1>3, <2>1, HeldClosed
  <2>3. Waits'
    BY <1>1, <1>3, WaitsOrphaned
  <2> QED
    BY <2>1, <2>2, <2>3
<1> QED
  BY <1>2, <1>3 DEF ToggleForm

\* A write is answered: it lives on in another stage.
LEMMA ServeAwaits ==
  ASSUME Shape, AwaitInv, NEW w \in writes, Serve(w)
  PROVE  (\A x \in writes' : WriteIs(x)) /\ Held' /\ Waits'
<1>1. PICK s \in {"ok", "failed"} :
        writes' = (writes \ {w}) \cup {[w EXCEPT !.stage = s]}
  BY DEF Serve
<1> DEFINE y == [w EXCEPT !.stage = s]
<1>2. WriteIs(y) /\ y.kind = w.kind /\ y.orphan = w.orphan /\ y.stage = s
  <2>1. WriteIs(w) /\ y = [w EXCEPT !.stage = s]
    BY DEF AwaitInv
  <2> HIDE DEF y
  <2> QED
    BY <2>1, MovesOn
<1>3. writes' = (writes \ {w}) \cup {y} /\ UNCHANGED busy /\ FetchesOn
  BY <1>1 DEF Serve, FetchesOn
<1> HIDE DEF y
<1>4. Held'
  BY <1>2, <1>3, HeldOn
<1>5. Waits'
  BY <1>2, <1>3, WaitsOn
<1> QED
  BY <1>2, <1>3, <1>4, <1>5 DEF AwaitInv

\* A write is done: it waits for the refetch it runs, or, on the secrets page,
\* is over.
LEMMA DoneAwaits ==
  ASSUME Shape, AwaitInv, NEW w \in writes, Done(w)
  PROVE  (\A x \in writes' : WriteIs(x)) /\ Held' /\ Waits'
<1>1. FetchesOn /\ issued' = issued + 1 /\ \E g \in fetches' : g.n = issued + 1
  BY FetchWithOn DEF Done
<1>2. ASSUME writes' = Orphaned(writes \ {w}), w.kind = "create",
             busy' = [busy EXCEPT !.saving = FALSE]
      PROVE  (\A x \in writes' : WriteIs(x)) /\ Held' /\ Waits'
  <2>1. /\ \A x \in writes' : WriteIs(x)
        /\ \A u \in writes \ {w} : u.kind # "create" => u \in writes'
    BY <1>2, OrphanedKeeps DEF AwaitInv
  <2>2. Held'
    BY <1>2, <2>1, HeldClosed
  <2>3. Waits'
    BY <1>1, <1>2, WaitsOrphaned
  <2> QED
    BY <2>1, <2>2, <2>3
<1>3. ASSUME writes' = writes \ {w}, busy' = Release(w)
      PROVE  (\A x \in writes' : WriteIs(x)) /\ Held' /\ Waits'
  <2>1. Held'
    BY <1>3, HeldReleased
  <2>2. Waits'
    BY <1>1, <1>3, WaitsOn
  <2> QED
    BY <1>3, <2>1, <2>2 DEF AwaitInv
<1>4. ASSUME writes' = (writes \ {w}) \cup {[w EXCEPT !.stage = "refetch", !.n = issued + 1]},
             UNCHANGED busy
      PROVE  (\A x \in writes' : WriteIs(x)) /\ Held' /\ Waits'
  <2> DEFINE k == issued + 1
             y == [w EXCEPT !.stage = "refetch", !.n = k]
  <2>1. writes' = (writes \ {w}) \cup {y}
    BY <1>4
  <2> HIDE DEF k
  <2>2. /\ WriteIs(y) /\ y.kind = w.kind /\ y.orphan = w.orphan
        /\ y.stage = "refetch" /\ y.n = k
    <3>1. WriteIs(w) /\ DOMAIN w = WriteFields
      BY DEF AwaitInv, WriteIs
    <3> QED
      BY <3>1 DEF WriteIs, WriteFields
  <2> HIDE DEF y
  <2>3. Held'
    BY <1>4, <2>1, <2>2, HeldOn
  <2>4. /\ issued' = k /\ k \in Nat /\ k \in 1..k /\ k \notin 1..issued
        /\ 1..issued \subseteq 1..k
    BY <1>1 DEF Shape, k
  <2>5. \E g \in fetches' : g.n = y.n
    BY <1>1, <2>2 DEF k
  <2>6. \A u \in writes : u.stage = "refetch" =>
          u.n \in 1..issued /\ \E f \in fetches' : f.n = u.n
    BY <1>1 DEF AwaitInv, Waits, FetchesOn
  <2>7. ASSUME NEW x \in writes', x.stage = "refetch"
        PROVE  x.n \in 1..issued' /\ \E f \in fetches' : f.n = x.n
    BY <2>7, <2>1, <2>2, <2>4, <2>5, <2>6
  <2>8. ASSUME NEW x \in writes', NEW z \in writes', x.stage = "refetch",
               z.stage = "refetch", x.n = z.n
        PROVE  x = z
    <3>1. CASE x \in writes /\ z \in writes
      BY <2>8, <3>1 DEF AwaitInv, Waits
    <3>2. CASE x = y \/ z = y
      BY <2>8, <3>2, <2>1, <2>2, <2>4, <2>6
    <3> QED
      BY <2>1, <3>1, <3>2
  <2>9. Waits'
    BY <2>7, <2>8 DEF Waits
  <2> QED
    BY <2>1, <2>2, <2>3, <2>9 DEF AwaitInv
<1> QED
  BY <1>2, <1>3, <1>4 DEF Done

\* The dashboard pushes its router: the write that did so waits for it, and
\* releases its panel's button or closes the panel.
LEMMA AddedAwaits ==
  ASSUME Shape, AwaitInv, NEW w \in writes, Added(w)
  PROVE  (\A x \in writes' : WriteIs(x)) /\ Held' /\ Waits'
<1> DEFINE y == [w EXCEPT !.stage = "pushed"]
<1>1. WriteIs(w) /\ y = [w EXCEPT !.stage = "pushed"]
  BY DEF AwaitInv
<1>2. FetchesOn
  BY FetchWithOn DEF Added, FetchesOn
<1>3. \/ /\ writes' = Orphaned(writes \ {w}) \cup {y}
         /\ busy' = [busy EXCEPT !.saving = FALSE]
      \/ writes' = (writes \ {w}) \cup {y} /\ busy' = Release(w)
  BY DEF Added
<1> HIDE DEF y
<1>4. WriteIs(y) /\ y.kind = w.kind /\ y.stage = "pushed"
  BY <1>1, MovesOn
<1>5. CASE writes' = Orphaned(writes \ {w}) \cup {y} /\ busy' = [busy EXCEPT !.saving = FALSE]
  <2>1. /\ \A x \in Orphaned(writes \ {w}) : WriteIs(x)
        /\ \A u \in writes \ {w} : u.kind # "create" => u \in Orphaned(writes \ {w})
    BY OrphanedKeeps DEF AwaitInv
  <2>2. Held'
    BY <1>4, <1>5, <2>1, HeldClosed
  <2>3. \A x \in writes' : x \in Orphaned(writes \ {w}) \/ x.stage # "refetch"
    BY <1>4, <1>5
  <2>4. Waits'
    BY <1>2, <2>3, WaitsOrphaned
  <2> QED
    BY <1>4, <1>5, <2>1, <2>2, <2>4
<1>6. CASE writes' = (writes \ {w}) \cup {y} /\ busy' = Release(w)
  <2>1. Held'
    BY <1>6, HeldReleased
  <2>2. Waits'
    BY <1>2, <1>4, <1>6, WaitsOn
  <2> QED
    BY <1>4, <1>6, <2>1, <2>2 DEF AwaitInv
<1> QED
  BY <1>3, <1>5, <1>6

\* The router leaves the dashboard: nothing is awaited any more, nor disabled.
LEMMA NavigateAwaits ==
  ASSUME Shape, AwaitInv, NEW w \in writes, Navigate(w)
  PROVE  (\A x \in writes' : WriteIs(x)) /\ Held' /\ Waits'
<1>1. busy.toggling = None /\ busy.deleting = None
  BY DEF Navigate, Shape, WriteOK, AwaitInv, NoRowButtons
<1>2. writes' = {} /\ busy' = [busy EXCEPT !.saving = FALSE]
  BY DEF Navigate
<1>3. /\ BusyIs(busy') /\ busy'.saving = FALSE
      /\ busy'.toggling = busy.toggling /\ busy'.deleting = busy.deleting
  BY <1>2, SetSaving DEF AwaitInv, Held
<1> QED
  BY <1>1, <1>2, <1>3 DEF Held, Waits

\* A write fails and releases its button.
LEMMA FailureAwaits ==
  ASSUME Shape, AwaitInv, NEW w \in writes, WriteFails(w)
  PROVE  (\A x \in writes' : WriteIs(x)) /\ Held' /\ Waits'
<1>1. writes' = writes \ {w} /\ busy' = Release(w) /\ FetchesOn
  BY DEF WriteFails, ReleaseAfterFailure, FetchesOn
<1>2. Held'
  BY <1>1, HeldReleased
<1>3. Waits'
  BY <1>1, WaitsOn
<1> QED
  BY <1>1, <1>2, <1>3 DEF AwaitInv

\* An answer, or the failure, of a request for the list lets the handler that
\* awaits it release its button.
LEMMA ResumeAwaits ==
  ASSUME Shape, AwaitInv, NEW f \in fetches, Resume(f),
         fetches' = fetches \ {f}, UNCHANGED issued
  PROVE  (\A x \in writes' : WriteIs(x)) /\ Held' /\ Waits'
<1> DEFINE awaiting == {w \in writes : w.stage = "refetch" /\ w.n = f.n}
<1>1. /\ writes' = writes \ awaiting
      /\ awaiting = {} => UNCHANGED busy
      /\ awaiting # {} => busy' = Release(CHOOSE w \in awaiting : TRUE)
  BY DEF Resume
<1>2. \A w \in writes' : w \in writes /\ (w.stage = "refetch" => w.n # f.n)
  BY <1>1
<1>3. \A w \in writes' : w.stage = "refetch" =>
        w.n \in 1..issued' /\ \E g \in fetches' : g.n = w.n
  BY <1>2 DEF AwaitInv, Waits
<1>4. Waits'
  BY <1>2, <1>3 DEF AwaitInv, Waits
<1>5. \A x \in writes' : WriteIs(x)
  BY <1>2 DEF AwaitInv
<1>6. CASE awaiting = {}
  <2>1. Held'
    BY <1>1, <1>6, HeldOn
  <2> QED
    BY <1>4, <1>5, <2>1
<1>7. CASE awaiting # {}
  <2> DEFINE w == CHOOSE w \in awaiting : TRUE
  <2>1. w \in awaiting
    BY <1>7
  <2>2. busy' = Release(w)
    BY <1>1, <1>7
  <2>3. \A u \in awaiting : u = w
    BY <2>1 DEF AwaitInv, Waits
  <2> HIDE DEF w
  <2>4. w \in writes /\ writes \ {w} \subseteq writes'
    BY <1>1, <2>1, <2>3
  <2>5. Held'
    BY <2>2, <2>4, HeldReleased
  <2> QED
    BY <1>4, <1>5, <2>5
<1> QED
  BY <1>6, <1>7

\* What leaves the writes and the flags alone.
LEMMA IdleAwaits ==
  ASSUME Shape, AwaitInv, UNCHANGED <<busy, writes>>, FetchesOn
  PROVE  (\A x \in writes' : WriteIs(x)) /\ Held' /\ Waits'
<1>1. Held'
  BY HeldOn
<1>2. Waits'
  BY WaitsOn
<1> QED
  BY <1>1, <1>2 DEF AwaitInv

\* An answer that arrives is the same request.
LEMMA AnswerOn ==
  ASSUME Shape, NEW f \in fetches, Answer(f)
  PROVE  FetchesOn
<1> DEFINE l == [r \in Listed(f.q) |-> rows[r]]
           t == Cardinality(Matching(f.q))
           a == [f EXCEPT !.stage = "ok", !.rows = l, !.total = t]
           b == [f EXCEPT !.stage = "failed"]
<1>1. /\ fetches' = (fetches \ {f}) \cup {a} \/ fetches' = (fetches \ {f}) \cup {b}
      /\ issued' = issued
  BY DEF Answer
<1> HIDE DEF l, t
<1>2. a.n = f.n /\ b.n = f.n
  BY DEF Shape, FetchOK, FetchFields
<1> HIDE DEF a, b
<1> QED
  BY <1>1, <1>2 DEF FetchesOn

\* The writes, the flags and the requests after any step.
LEMMA AwaitStep ==
  ASSUME Shape, AwaitInv, [Next]_vars
  PROVE  (\A x \in writes' : WriteIs(x)) /\ Held' /\ Waits'
<1> DEFINE Goal == (\A x \in writes' : WriteIs(x)) /\ Held' /\ Waits'
<1> HIDE DEF Goal
<1> SUFFICES Goal
  BY DEF Goal
<1>1. ASSUME UNCHANGED <<busy, writes>>, FetchesOn
      PROVE  Goal
  BY <1>1, IdleAwaits DEF Goal
<1>2. ASSUME UNCHANGED <<busy, writes, fetches, issued>>
      PROVE  Goal
  BY <1>1, <1>2 DEF FetchesOn
<1>3. ASSUME UNCHANGED <<busy, writes>>, NEW q, FetchWith(q, "page")
      PROVE  Goal
  BY <1>1, <1>3, FetchWithOn
<1>4. ASSUME NEW q, Ask(q) PROVE Goal
  BY <1>2, <1>3, <1>4 DEF Ask, Effect
<1>5. ASSUME \/ \E v \in {All, "a"} : Filter(v)
             \/ ToggleOrder \/ Previous \/ Next_ \/ Interval \/ Retry
      PROVE  Goal
  BY <1>3, <1>4, <1>5 DEF Filter, ToggleOrder, Previous, Next_, Interval, Retry, Refetch
<1>6. ASSUME (\E r \in Rows : Save(r) \/ Toggle(r) \/ Create(r)) \/ Confirm PROVE Goal
  BY <1>6, SendAwaits DEF Goal
<1>7. ASSUME ToggleForm PROVE Goal
  BY <1>7, FormAwaits DEF Goal
<1>8. CASE User
  BY <1>2, <1>5, <1>6, <1>7, <1>8
  DEF User, StartEdit, OpenDialog, Type, CancelEdit, CloseDialog
<1>9. ASSUME NEW f \in fetches, Answer(f) \/ Apply(f) \/ FetchFails(f)
      PROVE  Goal
  <2>1. ASSUME Answer(f) PROVE Goal
    BY <1>1, <2>1, AnswerOn DEF Answer
  <2>2. ASSUME Apply(f) \/ FetchFails(f) PROVE Goal
    BY <2>2, ResumeAwaits DEF Apply, FetchFails, Goal
  <2> QED
    BY <1>9, <2>1, <2>2
<1>10. ASSUME NEW w \in writes,
              Serve(w) \/ Done(w) \/ Added(w) \/ Navigate(w) \/ WriteFails(w)
       PROVE  Goal
  BY <1>10, ServeAwaits, DoneAwaits, AddedAwaits, NavigateAwaits, FailureAwaits DEF Goal
<1>11. CASE Network
  BY <1>9, <1>10, <1>11 DEF Network
<1>12. ASSUME NEW r \in Rows, OtherUser(r) PROVE Goal
  BY <1>2, <1>12 DEF OtherUser
<1> QED
  BY <1>2, <1>8, <1>11, <1>12 DEF Next, vars

\* Nothing on the dashboard toggles or deletes a row.
LEMMA NoRowButtonsStep ==
  ASSUME Shape, AwaitInv, [Next]_vars
  PROVE  NoRowButtons'
<1>1. page'.kind = page.kind
  BY PageStep
<1> SUFFICES ASSUME page.kind = "dashboard"
             PROVE  confirm' = None /\ busy'.toggling = None /\ busy'.deleting = None
  BY <1>1 DEF NoRowButtons
<1>2. /\ confirm = None /\ busy.toggling = None /\ busy.deleting = None /\ BusyIs(busy)
      /\ "toggle" \notin page.writes /\ "delete" \notin page.writes
  BY DEF AwaitInv, NoRowButtons, Held, Shape, PageOK, Plain
<1> DEFINE Goal == confirm' = None /\ busy'.toggling = None /\ busy'.deleting = None
<1> HIDE DEF Goal
<1> SUFFICES Goal
  BY DEF Goal
<1>3. ASSUME UNCHANGED confirm, UNCHANGED busy PROVE Goal
  BY <1>2, <1>3 DEF Goal
<1>4. ASSUME UNCHANGED confirm, NEW u \in BOOLEAN, busy' = [busy EXCEPT !.saving = u] PROVE Goal
  BY <1>2, <1>4, SetSaving DEF Goal
<1>5. ASSUME UNCHANGED confirm, NEW w \in writes, busy' = Release(w) PROVE Goal
  <2>1. BusyIs(busy) /\ WriteIs(w)
    BY <1>2 DEF AwaitInv
  <2>2. /\ busy'.toggling # None => busy'.toggling = busy.toggling
        /\ busy'.deleting # None => busy'.deleting = busy.deleting
    BY <1>5, <2>1, ReleaseClears
  <2> QED
    BY <1>2, <1>5, <2>2 DEF Goal
<1>6. CASE User
  <2>1. ~Confirm /\ \A r \in Rows : ~Toggle(r) /\ ~OpenDialog(r)
    BY <1>2 DEF Confirm, Toggle, OpenDialog
  <2>2. ~CloseDialog
    BY <1>2 DEF CloseDialog
  <2>3. ASSUME (\E r \in Rows : Save(r) \/ Create(r)) \/ ToggleForm PROVE Goal
    BY <1>3, <1>4, <2>3 DEF Save, Create, ToggleForm
  <2>4. ASSUME \/ \E v \in {All, "a"} : Filter(v)
               \/ ToggleOrder \/ Previous \/ Next_ \/ Interval \/ Retry
        PROVE  Goal
    BY <2>4, AskIsNoDashboard
  <2> QED
    BY <1>3, <1>6, <2>1, <2>2, <2>3, <2>4 DEF User, StartEdit, Type, CancelEdit
<1>7. ASSUME NEW f \in fetches, Answer(f) \/ Apply(f) \/ FetchFails(f)
      PROVE  Goal
  <2>1. ASSUME Resume(f), UNCHANGED confirm PROVE Goal
    <3> DEFINE awaiting == {w \in writes : w.stage = "refetch" /\ w.n = f.n}
    <3>1. \/ UNCHANGED busy
          \/ awaiting # {} /\ busy' = Release(CHOOSE w \in awaiting : TRUE)
      BY <2>1 DEF Resume
    <3>2. awaiting # {} => (CHOOSE w \in awaiting : TRUE) \in writes
      OBVIOUS
    <3> QED
      BY <1>3, <1>5, <2>1, <3>1, <3>2
  <2> QED
    BY <1>3, <1>7, <2>1 DEF Answer, Apply, FetchFails
<1>8. ASSUME NEW w \in writes,
              Serve(w) \/ Done(w) \/ Added(w) \/ Navigate(w) \/ WriteFails(w)
       PROVE  Goal
  BY <1>3, <1>4, <1>5, <1>8 DEF Serve, Done, Added, Navigate, WriteFails, ReleaseAfterFailure
<1> QED
  BY <1>3, <1>6, <1>7, <1>8 DEF Next, Network, vars, OtherUser

\* A disabled button always has a write, or the refetch of one, to release it.
THEOREM DisabledIsAwaited == Spec => []BusyIsAwaited
<1>1. Init => AwaitInv
  BY DEF Init, AwaitInv, Held, BusyIs, BusyFields, Waits, NoRowButtons
<1>2. Shape /\ AwaitInv /\ [Next]_vars => AwaitInv'
  BY AwaitStep, NoRowButtonsStep DEF AwaitInv, WriteIs
<1>3. AwaitInv => BusyIsAwaited
  BY DEF AwaitInv, Held, Waits, Saver, BusyIsAwaited
<1> QED
  BY ShapeAlways, <1>1, <1>2, <1>3, PTL DEF Spec

=============================================================================
