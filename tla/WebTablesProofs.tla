--------------------------- MODULE WebTablesProofs ---------------------------
(***************************************************************************)
(* Proofs about the paged tables, for any rows, pages, clicks and failing  *)
(* requests: types, the pager, the spinners, deleted rows, and the last    *)
(* request of the deployments winning.                                     *)
(***************************************************************************)
EXTENDS WebTables, FiniteSetTheorems, TLAPS

-----------------------------------------------------------------------------
(* The inductive invariant. *)

Table == [page : 0..MaxPage, size : Sizes, loading : BOOLEAN, searching : BOOLEAN,
          mode : BOOLEAN, query : {"all", "kw"}]
Screen == [ok : BOOLEAN, rows : SUBSET Rows, u : Url]
Flight == [reply : [rows : SUBSET Rows, served : BOOLEAN], conts : SUBSET {"load", "search", "again"}]
Op == [kind : {"delete", "toggle"}, row : Rows, c : Table, rows : Screen]

\* A state of the hook; only the pager of the channels may stand on page 0.
Paged(t) == t \in Table /\ (hook # "channels" => t.page > 0)

\* Requests under way: GETs with somebody awaiting them, and operations on rows.
Flown(fl) ==
  /\ fl = [u \in DOMAIN fl |-> fl[u]]
  /\ IsFiniteSet(DOMAIN fl) /\ DOMAIN fl \subseteq Url
  /\ \A u \in DOMAIN fl : fl[u] \in Flight /\ fl[u].conts # {}

UnderWay ==
  /\ Flown(flights) /\ latest \in Url
  /\ IsFiniteSet(ops) /\ \A o \in ops : o \in Op /\ Paged(o.c)
  /\ hook \in {"usageLogs", "taskLogs"} => ops = {}

OnScreen ==
  /\ hook \in Hooks /\ form \in {"", "kw"} /\ store \subseteq Rows
  /\ Paged(table) /\ shown \in Screen

Flags ==
  /\ disturbed \in BOOLEAN /\ rejected \in BOOLEAN /\ stale \in BOOLEAN
  /\ shared \in BOOLEAN /\ sizeRace \in BOOLEAN

Typed == UnderWay /\ OnScreen /\ Flags

\* Tables whose flags are told apart by the request, which do not catch a rejected
\* request, and whose replies bring the page size along.
ByQuery == {"tokens", "users", "redemptions", "models"}
Logs == {"usageLogs", "taskLogs"}
Catching == {"redemptions", "models", "deployments"}
SizeReplied == {"tokens"} \cup Logs

\* With fl and os under way and lt the last counted request, the request that will
\* switch the spinner off is under way.
LoadComes(fl, os, lt) ==
  CASE hook \in ByQuery -> \/ \E u \in DOMAIN fl : u.q = "all"
                           \/ hook # "models" /\ os # {}
    [] hook = "deployments" -> lt \in DOMAIN fl
    [] hook = "channels" -> lt \in DOMAIN fl /\ "load" \in fl[lt].conts
    [] OTHER -> DOMAIN fl # {}

SearchComes(fl, lt) ==
  CASE hook \in ByQuery -> \E u \in DOMAIN fl : u.q = "kw"
    [] hook = "deployments" -> lt \in DOMAIN fl
    [] hook = "channels" -> \E u \in DOMAIN fl : "search" \in fl[u].conts
    [] OTHER -> FALSE

Spins ==
  (rejected => hook \in Catching) =>
    /\ table.loading => LoadComes(flights, ops, latest)
    /\ table.searching => SearchComes(flights, latest)

\* Undisturbed, one request at most is under way.
Lone ==
  ~disturbed => /\ DOMAIN flights = {} \/ ops = {}
                /\ \A u, v \in DOMAIN flights : u = v
                /\ \A o, r \in ops : o = r

\* The pager of t shows page and size of the request u.
Agrees(t, u) ==
  t.size = u.s /\ IF hook = "channels" THEN u.p \in {t.page, 1} ELSE u.p = t.page

\* The reply to u will bring pager and rows together.
Coming(u) ==
  /\ hook \in {"channels", "deployments"} /\ (hook = "channels" => u.q = "all") => latest = u
  /\ hook \notin SizeReplied => table.size = u.s
  /\ hook = "channels" /\ u.q = "all" => ServerPage(u.p) \in {table.page, 1}

\* An undisturbed operation still has the values of the last render in its closure.
Fresh(o) == o.rows = shown /\ o.c.size = table.size /\ o.c.page = table.page

Pager ==
  ~disturbed => /\ DOMAIN flights = {} /\ shown.ok => Agrees(table, shown.u)
                /\ \A u \in DOMAIN flights : Coming(u)
                /\ \A o \in ops : Fresh(o)

\* The reply to u, if it is there, and the rows on the screen hold no deleted row.
Answered(u) == flights[u].reply.served => flights[u].reply.rows \subseteq store

Rowed ==
  ~disturbed => /\ DOMAIN flights = {} /\ shown.ok => shown.rows \subseteq store
                /\ \A u \in DOMAIN flights : Answered(u)

\* The deployments: what the last request will bring, or has brought.
Last ==
  hook = "deployments" =>
    /\ latest \in DOMAIN flights /\ ~stale => table.size = latest.s /\ table.query = latest.q
    /\ latest \notin DOMAIN flights /\ shown.ok /\ ~stale =>
         table.page = shown.u.p /\ table.size = shown.u.s /\ table.query = shown.u.q
    /\ latest \in DOMAIN flights /\ ~rejected /\ ~shared => Answered(latest)
    /\ latest \notin DOMAIN flights /\ shown.ok /\ ~rejected /\ ~shared =>
         shown.rows \subseteq store

Inv == Typed /\ Spins /\ Lone /\ Pager /\ Rowed /\ Last

-----------------------------------------------------------------------------
(* What a handler does. *)

\* One GET of u, awaited by cs, is sent and the state t is left where T was.
Shot(T, t, u, cs) ==
  /\ Paged(t) /\ u \in Url /\ cs # {} /\ cs \subseteq {"load", "search", "again"}
  /\ hook \in ByQuery \cup {"channels"} => (t.loading => T.loading \/ u.q = "all")
  /\ hook \in ByQuery => (t.searching => T.searching \/ u.q = "kw")
  /\ hook = "channels" => /\ t.searching => T.searching \/ "search" \in cs
                          /\ u.q = "all" => "load" \in cs
  /\ hook \in Logs => (t.searching => T.searching)

\* The state t is that of the request u already, as far as the reply will not make it so.
Level(t, u) ==
  /\ hook \notin SizeReplied => t.size = u.s
  /\ hook = "channels" /\ u.q = "all" => ServerPage(u.p) \in {t.page, 1}

\* A piece of a handler: its state is typed, its GETs are few, and a spinner it
\* switches on is one of a GET it sends.
Effect(T, e) ==
  /\ Paged(e.t) /\ IsFiniteSet(e.gets)
  /\ \A g \in e.gets : g = <<g[1], g[2]>> /\ g[1] \in Url /\ g[2] \in {"load", "search", "again"}
  /\ hook \in ByQuery \cup {"channels"} =>
       (e.t.loading => T.loading \/ \E g \in e.gets : g[1].q = "all")
  /\ hook \in ByQuery => (e.t.searching => T.searching \/ \E g \in e.gets : g[1].q = "kw")
  /\ hook = "channels" =>
       /\ e.t.searching => T.searching \/ \E g \in e.gets : g[2] = "search"
       /\ \A g \in e.gets : g[1].q = "all" => <<g[1], "load">> \in e.gets
  /\ hook = "deployments" /\ e.gets = {} => (e.t.loading => T.loading)
                                         /\ (e.t.searching => T.searching)
  /\ hook \in Logs => (e.t.loading => T.loading \/ e.gets # {}) /\ (e.t.searching => T.searching)
  /\ hook \in {"channels", "deployments"} => \A g, h \in e.gets : g[1] = h[1]

\* When all its GETs are one, the pager is level with it.
LevelEffect(e) ==
  (\A g, h \in e.gets : g[1] = h[1]) => \A g \in e.gets : Level(e.t, g[1])

\* A single GET.
LEMMA GetEffect ==
  ASSUME NEW T, NEW t, NEW u, NEW cs, Shot(T, t, u, cs)
  PROVE  /\ Effect(T, Get(t, u, cs)) /\ Get(t, u, cs).t = t /\ Get(t, u, cs).gets # {}
         /\ \A g \in Get(t, u, cs).gets : g[1] = u
<1> DEFINE G == {<<u, c>> : c \in cs}
<1>1. Get(t, u, cs).t = t /\ Get(t, u, cs).gets = G
  BY DEF Get
<1>2. \A g \in G : g = <<g[1], g[2]>> /\ g[1] = u /\ g[2] \in cs
  OBVIOUS
<1>3. \A c \in cs : <<u, c>> \in G
  OBVIOUS
<1>4. IsFiniteSet(G)
  <2>1. G \subseteq ({<<u, "load">>} \cup {<<u, "search">>}) \cup {<<u, "again">>}
    BY DEF Shot
  <2>2. IsFiniteSet(({<<u, "load">>} \cup {<<u, "search">>}) \cup {<<u, "again">>})
    BY FS_Singleton, FS_Union
  <2>3. QED
    BY <2>1, <2>2, FS_Subset
<1>5. PICK c \in cs : <<u, c>> \in G
  BY <1>3 DEF Shot
<1> HIDE DEF G
<1>6. \E g \in G : g[1] = u
  BY <1>5, <1>2
<1>7. "search" \in cs => \E g \in G : g[2] = "search"
  <2>1. "search" \in cs => <<u, "search">> \in G
    BY <1>3
  <2>2. QED
    BY <2>1
<1>8. Paged(t) /\ u \in Url /\ cs \subseteq {"load", "search", "again"}
  BY DEF Shot
<1>9. Effect(T, Get(t, u, cs))
  BY <1>1, <1>2, <1>3, <1>4, <1>6, <1>7, <1>8 DEF Effect, Shot
<1>10. QED
  BY <1>1, <1>2, <1>5, <1>9

\* A piece that sends nothing.
LEMMA StayEffect ==
  ASSUME NEW T, NEW t, Paged(t), t.loading => T.loading, t.searching => T.searching
  PROVE  Effect(T, Stay(t)) /\ Stay(t).t = t /\ Stay(t).gets = {}
<1>1. Stay(t).t = t /\ Stay(t).gets = {}
  BY DEF Stay
<1>2. QED
  BY <1>1, FS_EmptySet DEF Effect

\* Two pieces, one after the other, of a table whose flags go by the request.
LEMMA ThenEffect ==
  ASSUME NEW T, NEW e, NEW f, hook \in ByQuery, Effect(T, e), Effect(e.t, f)
  PROVE  Effect(T, Then(e, f))
<1>1. Then(e, f).t = f.t /\ Then(e, f).gets = e.gets \cup f.gets
  BY DEF Then
<1>2. IsFiniteSet(e.gets \cup f.gets)
  BY FS_Union DEF Effect
<1>3. hook \notin {"channels", "deployments"} /\ hook \notin Logs
  BY DEF ByQuery, Logs
<1>4. QED
  BY <1>1, <1>2, <1>3 DEF Effect

\* The state after one of its fields was set.
LEMMA SetField ==
  ASSUME NEW T \in Table, NEW p \in 0..MaxPage, NEW s \in Sizes, NEW b \in BOOLEAN,
         NEW q \in {"all", "kw"}
  PROVE  /\ [T EXCEPT !.page = p] \in Table /\ [T EXCEPT !.size = s] \in Table
         /\ [T EXCEPT !.loading = b] \in Table /\ [T EXCEPT !.searching = b] \in Table
         /\ [T EXCEPT !.mode = b] \in Table /\ [T EXCEPT !.query = q] \in Table
BY DEF Table

-----------------------------------------------------------------------------
(* The clicks of each table. *)

\* What a click does: it sends a GET and leaves the pager level with it; the
\* deployments keep the query of the request as well.
Clicked(T, e) ==
  /\ Effect(T, e) /\ LevelEffect(e) /\ e.gets # {}
  /\ hook = "deployments" => \A g \in e.gets : e.t.size = g[1].s /\ e.t.query = g[1].q

\* No spinner is on in N that is not on in T.
Dimmer(T, N) == (N.loading => T.loading) /\ (N.searching => T.searching)

\* A single GET the pager is level with.
LEMMA ShotClicked ==
  ASSUME NEW T, NEW t, NEW u, NEW cs, Shot(T, t, u, cs), Level(t, u),
         hook = "deployments" => t.query = u.q
  PROVE  Clicked(T, Get(t, u, cs))
<1>1. hook = "deployments" => t.size = u.s
  BY DEF Level, SizeReplied, Logs
<1>2. QED
  BY <1>1, GetEffect DEF Clicked, LevelEffect

\* Urls.
LEMMA Urls ==
  ASSUME NEW q \in {"all", "kw"}, NEW p \in 0..MaxPage, NEW s \in Sizes
  PROVE  /\ U(q, p, s) \in Url /\ U(q, p, s).q = q
         /\ U(q, p, s).p = p /\ U(q, p, s).s = s
BY DEF U, Url

\* The pages and sizes there are.
LEMMA Numbers ==
  /\ MaxPage \in Nat /\ 1 \in 0..MaxPage /\ 0 \in 0..MaxPage /\ \A p \in 1..MaxPage : p \in 0..MaxPage
  /\ \A p \in 1..MaxPage : p > 0
  /\ 1 \in Sizes /\ Sizes \subseteq Nat
BY TablesAssumption DEF Sizes

\* The spinners.
LEMMA Lights ==
  ASSUME NEW N \in Table
  PROVE  /\ Loading(N) \in Table /\ Loading(N).page = N.page /\ Loading(N).size = N.size
         /\ Loading(N).query = N.query /\ Loading(N).searching = N.searching
         /\ Searching(N) \in Table /\ Searching(N).page = N.page /\ Searching(N).size = N.size
         /\ Searching(N).query = N.query /\ Searching(N).loading = N.loading
BY DEF Loading, Searching, Table

\* The pager is moved.
LEMMA Moved ==
  ASSUME NEW T, Paged(T), NEW p \in 1..MaxPage
  PROVE  /\ Paged([T EXCEPT !.page = p]) /\ Dimmer(T, [T EXCEPT !.page = p])
         /\ [T EXCEPT !.page = p].size = T.size /\ [T EXCEPT !.page = p].page = p
         /\ [T EXCEPT !.page = p].query = T.query
<1> DEFINE N == [T EXCEPT !.page = p]
<1>1. T \in Table /\ p \in 0..MaxPage /\ p > 0
  BY Numbers DEF Paged
<1>2. N \in Table /\ N.page = p /\ N.size = T.size /\ N.query = T.query
  BY <1>1 DEF Table
<1>3. N.loading = T.loading /\ N.searching = T.searching
  BY <1>1 DEF Table
<1> HIDE DEF N
<1>4. Paged(N) /\ Dimmer(T, N)
  BY <1>1, <1>2, <1>3 DEF Paged, Dimmer
<1> USE DEF N
<1>5. QED
  BY <1>2, <1>4

\* Its size is set.
LEMMA Resized ==
  ASSUME NEW T, Paged(T), NEW s \in Sizes
  PROVE  /\ Paged([T EXCEPT !.size = s]) /\ Dimmer(T, [T EXCEPT !.size = s])
         /\ [T EXCEPT !.size = s].size = s /\ [T EXCEPT !.size = s].page = T.page
<1> DEFINE N == [T EXCEPT !.size = s]
<1>1. T \in Table
  BY DEF Paged
<1>2. N \in Table /\ N.page = T.page /\ N.size = s
  BY <1>1 DEF Table
<1>3. N.loading = T.loading /\ N.searching = T.searching
  BY <1>1 DEF Table
<1> HIDE DEF N
<1>4. Paged(N) /\ Dimmer(T, N)
  BY <1>1, <1>2, <1>3 DEF Paged, Dimmer
<1> USE DEF N
<1>5. QED
  BY <1>2, <1>4

\* Its size is set and it is moved to page 1.
LEMMA Restarted ==
  ASSUME NEW T, Paged(T), NEW s \in Sizes,
         NEW N, N = [T EXCEPT !.size = s, !.page = 1] \/ N = [T EXCEPT !.page = 1, !.size = s]
  PROVE  Paged(N) /\ Dimmer(T, N) /\ N.size = s /\ N.page = 1 /\ N.query = T.query
<1>1. T \in Table /\ 1 \in 0..MaxPage
  BY Numbers DEF Paged
<1>2. CASE N = [T EXCEPT !.size = s, !.page = 1]
  <2>1. N \in Table /\ N.page = 1 /\ N.size = s /\ N.query = T.query
    BY <1>1, <1>2 DEF Table
  <2>2. N.loading = T.loading /\ N.searching = T.searching
    BY <1>1, <1>2 DEF Table
  <2>3. QED
    BY <2>1, <2>2 DEF Paged, Dimmer
<1>3. CASE N = [T EXCEPT !.page = 1, !.size = s]
  <2>1. N \in Table /\ N.page = 1 /\ N.size = s /\ N.query = T.query
    BY <1>1, <1>3 DEF Table
  <2>2. N.loading = T.loading /\ N.searching = T.searching
    BY <1>1, <1>3 DEF Table
  <2>3. QED
    BY <2>1, <2>2 DEF Paged, Dimmer
<1>4. QED
  BY <1>2, <1>3

\* A load and a search of a table whose flags go by the request.
LEMMA LoadShot ==
  ASSUME hook \in ByQuery, NEW T, NEW N, Paged(N), Dimmer(T, N),
         NEW p \in 0..MaxPage, NEW s \in Sizes
  PROVE  /\ Shot(T, Loading(N), U("all", p, s), {"load"}) /\ Loading(N).size = N.size
         /\ Shot(T, Searching(N), U("kw", p, s), {"search"}) /\ Searching(N).size = N.size
<1>1. N \in Table /\ hook # "channels" /\ hook \notin Logs
  BY DEF Paged, ByQuery, Logs
<1>2. Paged(Loading(N)) /\ Paged(Searching(N))
  BY <1>1, Lights DEF Paged
<1>3. Loading(N).searching => T.searching
  BY <1>1, Lights DEF Dimmer
<1>4. Searching(N).loading => T.loading
  BY <1>1, Lights DEF Dimmer
<1>5. QED
  BY <1>1, <1>2, <1>3, <1>4, Lights, Urls DEF Shot

\* The users.
LEMMA UsersClick ==
  ASSUME hook = "users", NEW T, Paged(T), NEW p \in 1..MaxPage, NEW s \in Sizes
  PROVE  /\ Clicked(T, PageUsers(T, p)) /\ Clicked(T, SizeUsers(T, s))
         /\ Clicked(T, SearchUsers(T, 1, T.size))
<1>h. hook \in ByQuery /\ hook # "channels" /\ hook # "deployments"
  BY DEF ByQuery
<1>t. T.size \in Sizes /\ T.page \in 0..MaxPage /\ Dimmer(T, T) /\ 1 \in 0..MaxPage
      /\ p \in 0..MaxPage
  BY Numbers DEF Paged, Table, Dimmer
<1>1. ASSUME NEW N, Paged(N), Dimmer(T, N), NEW r \in 0..MaxPage, NEW z \in Sizes, N.size = z
      PROVE  Clicked(T, LoadUsers(N, r, z)) /\ Clicked(T, SearchUsers(N, r, z))
  <2>1. Level(Loading(N), U("all", r, z)) /\ Level(Searching(N), U("kw", r, z))
    BY <1>h, <1>1, LoadShot, Urls DEF Level
  <2>2. QED
    BY <1>h, <1>1, <2>1, LoadShot, ShotClicked DEF LoadUsers, SearchUsers
<1>2. Clicked(T, PageUsers(T, p))
  BY <1>1, <1>t, Moved DEF PageUsers
<1>3. Clicked(T, SizeUsers(T, s))
  <2> DEFINE N == [T EXCEPT !.size = s, !.page = 1]
  <2>1. N = [T EXCEPT !.size = s, !.page = 1] /\ SizeUsers(T, s) = LoadUsers(N, T.page, s)
    BY DEF SizeUsers
  <2> HIDE DEF N
  <2>2. Paged(N) /\ Dimmer(T, N) /\ N.size = s
    BY <2>1, Restarted
  <2>3. QED
    BY <1>1, <1>t, <2>1, <2>2
<1>4. Clicked(T, SearchUsers(T, 1, T.size))
  BY <1>1, <1>t
<1>5. QED
  BY <1>2, <1>3, <1>4

\* The models.
LEMMA ModelsClick ==
  ASSUME hook = "models", NEW T, Paged(T), NEW p \in 1..MaxPage, NEW s \in Sizes
  PROVE  /\ Clicked(T, PageModels(T, p)) /\ Clicked(T, SizeModels(T, s))
         /\ Clicked(T, SearchModels(T))
<1>h. hook \in ByQuery /\ hook # "channels" /\ hook # "deployments"
  BY DEF ByQuery
<1>t. T.size \in Sizes /\ Dimmer(T, T) /\ 1 \in 0..MaxPage /\ p \in 0..MaxPage
  BY Numbers DEF Paged, Table, Dimmer
<1>1. ASSUME NEW N, Paged(N), Dimmer(T, N), NEW r \in 0..MaxPage, NEW z \in Sizes, N.size = z
      PROVE  /\ Clicked(T, LoadModels(N, r, z))
             /\ Clicked(T, Get(Searching(N), U("kw", r, z), {"search"}))
  <2>1. Level(Loading(N), U("all", r, z)) /\ Level(Searching(N), U("kw", r, z))
    BY <1>h, <1>1, LoadShot, Urls DEF Level
  <2>2. QED
    BY <1>h, <1>1, <2>1, LoadShot, ShotClicked DEF LoadModels
<1>2. Clicked(T, PageModels(T, p))
  BY <1>1, <1>t, Moved DEF PageModels
<1>3. Clicked(T, SizeModels(T, s))
  <2> DEFINE N == [T EXCEPT !.page = 1, !.size = s]
  <2>1. N = [T EXCEPT !.page = 1, !.size = s] /\ SizeModels(T, s) = LoadModels(N, 1, s)
    BY DEF SizeModels
  <2> HIDE DEF N
  <2>2. Paged(N) /\ Dimmer(T, N) /\ N.size = s
    BY <2>1, Restarted
  <2>3. QED
    BY <1>1, <1>t, <2>1, <2>2
<1>4. Clicked(T, SearchModels(T))
  BY <1>1, <1>t DEF SearchModels
<1>5. QED
  BY <1>2, <1>3, <1>4

\* The redemption codes: a new page size with a keyword sends two GETs, the search
\* with the old size and the load with the new one.
LEMMA RedemptionsClick ==
  ASSUME hook = "redemptions", NEW T, Paged(T), NEW p \in 1..MaxPage, NEW s \in Sizes
  PROVE  /\ Clicked(T, PageRedemptions(T, p)) /\ Clicked(T, SizeRedemptions(T, s))
         /\ Clicked(T, SearchRedemptions(T, T))
<1>h. hook \in ByQuery /\ hook # "channels" /\ hook # "deployments"
  BY DEF ByQuery
<1>t. T.size \in Sizes /\ Dimmer(T, T) /\ 1 \in 0..MaxPage /\ p \in 0..MaxPage
  BY Numbers DEF Paged, Table, Dimmer
<1>1. ASSUME NEW N, Paged(N), Dimmer(T, N), NEW r \in 0..MaxPage, NEW z \in Sizes, N.size = z
      PROVE  /\ Clicked(T, LoadRedemptions(N, r, z))
             /\ Clicked(T, Get(Searching(N), U("kw", r, z), {"search"}))
  <2>1. Level(Loading(N), U("all", r, z)) /\ Level(Searching(N), U("kw", r, z))
    BY <1>h, <1>1, LoadShot, Urls DEF Level
  <2>2. QED
    BY <1>h, <1>1, <2>1, LoadShot, ShotClicked DEF LoadRedemptions
<1>2. ASSUME NEW N, Paged(N), Dimmer(T, N), N.size = T.size
      PROVE  Clicked(T, SearchRedemptions(N, T))
  BY <1>1, <1>2, <1>t DEF SearchRedemptions
<1>3. Clicked(T, PageRedemptions(T, p))
  <2> DEFINE N == [T EXCEPT !.page = p]
  <2>1. PageRedemptions(T, p) = IF form = "" THEN LoadRedemptions(N, p, T.size)
                                ELSE SearchRedemptions(N, T)
    BY DEF PageRedemptions
  <2>2. Paged(N) /\ Dimmer(T, N) /\ N.size = T.size
    BY Moved
  <2> HIDE DEF N
  <2>3. QED
    BY <1>1, <1>2, <1>t, <2>1, <2>2
<1>4. Clicked(T, SizeRedemptions(T, s))
  <2> DEFINE N == [T EXCEPT !.size = s, !.page = 1]
             a == U("all", 1, s)
             k == U("kw", 1, T.size)
             e == IF form = "" THEN LoadRedemptions(N, 1, s) ELSE SearchRedemptions(N, T)
             f == LoadRedemptions(e.t, 1, s)
  <2>1. SizeRedemptions(T, s) = Then(e, f)
    BY DEF SizeRedemptions
  <2>n. N = [T EXCEPT !.size = s, !.page = 1]
    OBVIOUS
  <2> HIDE DEF N
  <2>2. Paged(N) /\ Dimmer(T, N) /\ N.size = s
    BY <2>n, Restarted
  <2>3. \E u \in {a, k}, cs \in {{"load"}, {"search"}}, M \in {Loading(N), Searching(N)} :
          /\ e = Get(M, u, cs) /\ Shot(T, M, u, cs) /\ M.size = s
    BY <1>h, <1>t, <2>2, LoadShot DEF LoadRedemptions, SearchRedemptions
  <2>4. PICK u \in {a, k}, cs \in {{"load"}, {"search"}}, M \in {Loading(N), Searching(N)} :
          /\ e = Get(M, u, cs) /\ Shot(T, M, u, cs) /\ M.size = s
    BY <2>3
  <2>p. Paged(M)
    BY <2>4 DEF Shot
  <2> HIDE DEF e
  <2>5. Effect(T, e) /\ e.t = M /\ Paged(M) /\ e.gets # {} /\ \A g \in e.gets : g[1] = u
    BY <2>4, <2>p, GetEffect
  <2>6. f = Get(Loading(M), a, {"load"}) /\ Shot(M, Loading(M), a, {"load"})
        /\ Loading(M).size = s
    BY <1>h, <1>t, <2>4, <2>5, LoadShot DEF LoadRedemptions, Dimmer
  <2> HIDE DEF e, f
  <2>7. Effect(M, f) /\ f.t = Loading(M) /\ f.gets # {} /\ \A g \in f.gets : g[1] = a
    BY <2>6, GetEffect
  <2>8. Effect(T, Then(e, f))
    BY <1>h, <2>5, <2>7, ThenEffect
  <2>9. Then(e, f).t = Loading(M) /\ Then(e, f).gets = e.gets \cup f.gets
    BY <2>7 DEF Then
  <2>10. Level(Loading(M), a)
    BY <1>h, <1>t, <2>6, Urls DEF Level
  <2>11. ASSUME \A g, h \in Then(e, f).gets : g[1] = h[1], NEW g \in Then(e, f).gets
         PROVE  g[1] = a
    BY <2>7, <2>9, <2>11
  <2>12. LevelEffect(Then(e, f)) /\ Then(e, f).gets # {}
    BY <2>7, <2>9, <2>10, <2>11 DEF LevelEffect
  <2>13. QED
    BY <1>h, <2>1, <2>8, <2>12 DEF Clicked
<1>5. Clicked(T, SearchRedemptions(T, T))
  BY <1>2, <1>t
<1>6. QED
  BY <1>3, <1>4, <1>5

\* The tokens: a load also leaves the search mode.
LEMMA TokensShot ==
  ASSUME hook = "tokens", NEW T, NEW N, Paged(N), Dimmer(T, N),
         NEW p \in 0..MaxPage, NEW s \in Sizes
  PROVE  \E t : /\ LoadTokens(N, p, s) = Get(t, U("all", p, s), {"load"})
                /\ Shot(T, t, U("all", p, s), {"load"}) /\ Paged(t)
<1> DEFINE t == [Loading(N) EXCEPT !.mode = FALSE]
<1>1. LoadTokens(N, p, s) = Get(t, U("all", p, s), {"load"})
  BY DEF LoadTokens
<1>2. Shot(T, Loading(N), U("all", p, s), {"load"})
  BY LoadShot DEF ByQuery
<1>3. Loading(N) \in Table /\ Paged(Loading(N))
  BY <1>2 DEF Shot, Paged
<1>4. /\ t \in Table /\ t.page = Loading(N).page
      /\ t.loading = Loading(N).loading /\ t.searching = Loading(N).searching
  BY <1>3 DEF Table
<1>5. Paged(t)
  BY <1>3, <1>4 DEF Paged
<1> HIDE DEF t
<1>6. Shot(T, t, U("all", p, s), {"load"})
  BY <1>2, <1>4, <1>5 DEF Shot
<1>7. QED
  BY <1>1, <1>5, <1>6

\* The tokens' clicks; their replies bring page and size along.
LEMMA TokensClick ==
  ASSUME hook = "tokens", NEW T, Paged(T), NEW p \in 1..MaxPage, NEW s \in Sizes
  PROVE  /\ Clicked(T, PageTokens(T, p)) /\ Clicked(T, SizeTokens(T, s))
         /\ Clicked(T, SearchTokens(T, T, 1, T.size))
<1>h. hook \in ByQuery /\ hook # "channels" /\ hook # "deployments" /\ hook \in SizeReplied
  BY DEF ByQuery, SizeReplied
<1>t. T.size \in Sizes /\ Dimmer(T, T) /\ 1 \in 0..MaxPage /\ p \in 0..MaxPage
  BY Numbers DEF Paged, Table, Dimmer
<1>l. \A t, u : Level(t, u)
  BY <1>h DEF Level
<1>1. ASSUME NEW N, Paged(N), Dimmer(T, N), NEW r \in 0..MaxPage, NEW z \in Sizes
      PROVE  /\ Clicked(T, LoadTokens(N, r, z)) /\ Paged(LoadTokens(N, r, z).t)
             /\ Clicked(T, SearchTokens(N, T, r, z)) /\ Paged(SearchTokens(N, T, r, z).t)
  <2>1. ASSUME NEW q \in 0..MaxPage, NEW y \in Sizes
        PROVE  Clicked(T, LoadTokens(N, q, y)) /\ Paged(LoadTokens(N, q, y).t)
    <3>1. PICK t : /\ LoadTokens(N, q, y) = Get(t, U("all", q, y), {"load"})
                   /\ Shot(T, t, U("all", q, y), {"load"}) /\ Paged(t)
      BY <1>1, TokensShot
    <3>2. QED
      BY <1>h, <1>l, <3>1, ShotClicked, GetEffect
  <2>2. Shot(T, Searching(N), U("kw", r, z), {"search"})
    BY <1>h, <1>1, LoadShot
  <2>3. /\ Clicked(T, Get(Searching(N), U("kw", r, z), {"search"}))
        /\ Paged(Get(Searching(N), U("kw", r, z), {"search"}).t)
    <3>1. Paged(Searching(N))
      BY <2>2 DEF Shot
    <3>2. QED
      BY <1>h, <1>l, <2>2, <3>1, ShotClicked, GetEffect
  <2>4. QED
    BY <1>t, <2>1, <2>3 DEF SearchTokens
<1>2. Clicked(T, PageTokens(T, p))
  BY <1>1, <1>t DEF PageTokens
<1>3. Clicked(T, SearchTokens(T, T, 1, T.size))
  BY <1>1, <1>t
<1>4. Clicked(T, SizeTokens(T, s))
  <2> DEFINE N == [T EXCEPT !.size = s]
             e == IF T.mode THEN SearchTokens(N, T, 1, s) ELSE LoadTokens(N, 1, s)
             f == LoadTokens(e.t, 1, s)
  <2>1. SizeTokens(T, s) = Then(e, f)
    BY DEF SizeTokens
  <2>2. Paged(N) /\ Dimmer(T, N)
    BY Resized
  <2> HIDE DEF N
  <2>3. Clicked(T, e) /\ Paged(e.t)
    BY <1>1, <1>t, <2>2
  <2> HIDE DEF e
  <2>4. PICK t : /\ f = Get(t, U("all", 1, s), {"load"})
                 /\ Shot(e.t, t, U("all", 1, s), {"load"}) /\ Paged(t)
    BY <1>t, <2>3, TokensShot DEF Dimmer
  <2> HIDE DEF f
  <2>5. Effect(e.t, f)
    BY <2>4, GetEffect
  <2>6. Effect(T, Then(e, f)) /\ Then(e, f).gets # {}
    BY <1>h, <2>3, <2>5, ThenEffect DEF Clicked, Then
  <2>7. QED
    BY <1>h, <1>l, <2>1, <2>6 DEF Clicked, LevelEffect
<1>5. QED
  BY <1>2, <1>3, <1>4

\* The deployments.
LEMMA DeploymentsShot ==
  ASSUME hook = "deployments", NEW T, NEW N, Paged(N), NEW t \in {Loading(N), Searching(N)},
         NEW p \in 0..MaxPage, NEW s \in Sizes, NEW q \in {"all", "kw"}
  PROVE  /\ Shot(T, t, U(q, p, s), {"load"}) /\ Paged(t)
         /\ t.size = N.size /\ t.query = N.query /\ t.page = N.page
<1>1. N \in Table /\ hook \notin ByQuery /\ hook # "channels" /\ hook \notin Logs
  BY DEF Paged, ByQuery, Logs
<1>2. t \in Table /\ t.page = N.page /\ t.size = N.size /\ t.query = N.query
  BY <1>1, Lights
<1>3. Paged(t)
  BY <1>2 DEF Paged
<1>4. Shot(T, t, U(q, p, s), {"load"})
  BY <1>1, <1>3, Urls DEF Shot
<1>5. QED
  BY <1>2, <1>3, <1>4

\* The deployments' clicks: the query they send is the one they keep.
LEMMA DeploymentsClick ==
  ASSUME hook = "deployments", NEW T, Paged(T), NEW p \in 1..MaxPage, NEW s \in Sizes
  PROVE  /\ Clicked(T, PageDeployments(T, p)) /\ Clicked(T, SizeDeployments(T, s))
         /\ Clicked(T, SearchDeployments(T))
<1>t. T \in Table /\ T.size \in Sizes /\ T.query \in {"all", "kw"} /\ 1 \in 0..MaxPage
      /\ p \in 0..MaxPage
  BY Numbers DEF Paged, Table
<1>1. ASSUME NEW N, Paged(N), NEW r \in 0..MaxPage, NEW z \in Sizes, NEW q \in {"all", "kw"},
             N.size = z, N.query = q
      PROVE  Clicked(T, FetchDeployments(N, r, z, q))
  <2>1. PICK t \in {Loading(N), Searching(N)} :
          FetchDeployments(N, r, z, q) = Get(t, U(q, r, z), {"load"})
    BY DEF FetchDeployments
  <2>2. Shot(T, t, U(q, r, z), {"load"}) /\ t.size = N.size /\ t.query = N.query
    BY <1>1, DeploymentsShot
  <2>3. Level(t, U(q, r, z)) /\ t.query = U(q, r, z).q
    BY <1>1, <2>2, Urls DEF Level
  <2>4. QED
    BY <2>1, <2>2, <2>3, ShotClicked
<1>2. Clicked(T, PageDeployments(T, p))
  <2> DEFINE N == [T EXCEPT !.page = p]
  <2>1. PageDeployments(T, p) = FetchDeployments(N, p, T.size, T.query)
    BY DEF PageDeployments
  <2>2. Paged(N) /\ N.size = T.size /\ N.query = T.query
    BY Moved
  <2> HIDE DEF N
  <2>3. QED
    BY <1>1, <1>t, <2>1, <2>2
<1>3. Clicked(T, SizeDeployments(T, s))
  <2> DEFINE N == [T EXCEPT !.size = s, !.page = 1]
  <2>1. /\ N = [T EXCEPT !.size = s, !.page = 1]
        /\ SizeDeployments(T, s) = FetchDeployments(N, 1, s, T.query)
    BY DEF SizeDeployments
  <2> HIDE DEF N
  <2>2. Paged(N) /\ Dimmer(T, N) /\ N.size = s
    BY <2>1, Restarted
  <2>q. N.query = T.query
    BY <2>1, Restarted
  <2>3. QED
    BY <1>1, <1>t, <2>1, <2>2, <2>q
<1>4. Clicked(T, SearchDeployments(T))
  <2> DEFINE q == IF form = "" THEN "all" ELSE "kw"
             N == [T EXCEPT !.query = q, !.page = 1]
  <2>1. q \in {"all", "kw"}
    OBVIOUS
  <2>2. SearchDeployments(T) = FetchDeployments(N, 1, T.size, q)
    BY DEF SearchDeployments
  <2> HIDE DEF q
  <2>3. N \in Table /\ N.page = 1 /\ N.size = T.size /\ N.query = q
    BY <1>t, <2>1 DEF Table
  <2> HIDE DEF N
  <2>4. Paged(N)
    BY <2>3 DEF Paged
  <2>5. QED
    BY <1>1, <1>t, <2>1, <2>2, <2>3, <2>4
<1>5. QED
  BY <1>2, <1>3, <1>4

\* The channels.
LEMMA ChannelsShot ==
  ASSUME hook = "channels", NEW T, NEW N, Paged(N), Dimmer(T, N),
         NEW p \in 0..MaxPage, NEW s \in Sizes
  PROVE  /\ Shot(T, Loading(N), U("all", p, s), {"load"})
         /\ Shot(T, Searching(N), U("kw", p, s), {"search"})
         /\ Shot(T, Loading(Searching(N)), U("all", p, s), {"load", "search"})
         /\ \A t \in {Loading(N), Searching(N), Loading(Searching(N))} :
              t.size = N.size /\ t.page = N.page
<1>1. N \in Table /\ Searching(N) \in Table /\ hook \notin ByQuery /\ hook \notin Logs
  BY Lights DEF Paged, ByQuery, Logs
<1>2. /\ Loading(N) \in Table /\ Loading(Searching(N)) \in Table
      /\ Loading(N).searching = N.searching /\ Searching(N).loading = N.loading
      /\ \A t \in {Loading(N), Searching(N), Loading(Searching(N))} :
           t.size = N.size /\ t.page = N.page
  BY <1>1, Lights
<1>3. Paged(Loading(N)) /\ Paged(Searching(N)) /\ Paged(Loading(Searching(N)))
  BY <1>1, <1>2 DEF Paged
<1>4. Shot(T, Loading(N), U("all", p, s), {"load"})
  BY <1>1, <1>2, <1>3, Urls DEF Shot, Dimmer
<1>5. Shot(T, Searching(N), U("kw", p, s), {"search"})
  BY <1>1, <1>2, <1>3, Urls DEF Shot, Dimmer
<1>6. Shot(T, Loading(Searching(N)), U("all", p, s), {"load", "search"})
  BY <1>1, <1>2, <1>3, Urls DEF Shot, Dimmer
<1>7. QED
  BY <1>2, <1>4, <1>5, <1>6

\* A load or a search of the channels the pager is level with.
LEMMA ChannelsLevel ==
  ASSUME hook = "channels", NEW T, NEW N, Paged(N), Dimmer(T, N),
         NEW p \in 0..MaxPage, NEW s \in Sizes
  PROVE  /\ Effect(T, RefreshChannels(N, p, s)) /\ RefreshChannels(N, p, s).gets # {}
         /\ N.size = s /\ ServerPage(p) \in {N.page, 1} =>
              Clicked(T, RefreshChannels(N, p, s)) /\ Clicked(T, SearchChannels(N, p, s))
<1>1. ASSUME NEW t \in {Loading(N), Searching(N), Loading(Searching(N))},
             NEW q \in {"all", "kw"}, NEW cs, Shot(T, t, U(q, p, s), cs)
      PROVE  /\ Effect(T, Get(t, U(q, p, s), cs)) /\ Get(t, U(q, p, s), cs).gets # {}
             /\ N.size = s /\ ServerPage(p) \in {N.page, 1} => Clicked(T, Get(t, U(q, p, s), cs))
  <2>1. t.size = N.size /\ t.page = N.page
    BY <1>1, ChannelsShot
  <2>2. N.size = s /\ ServerPage(p) \in {N.page, 1} => Level(t, U(q, p, s))
    BY <1>1, <2>1, Urls DEF Level
  <2>3. QED
    BY <1>1, <2>2, GetEffect, ShotClicked
<1>2. /\ Effect(T, SearchChannels(N, p, s)) /\ SearchChannels(N, p, s).gets # {}
      /\ N.size = s /\ ServerPage(p) \in {N.page, 1} => Clicked(T, SearchChannels(N, p, s))
  BY <1>1, ChannelsShot DEF SearchChannels
<1>3. /\ Effect(T, LoadChannels(N, p, s)) /\ LoadChannels(N, p, s).gets # {}
      /\ N.size = s /\ ServerPage(p) \in {N.page, 1} => Clicked(T, LoadChannels(N, p, s))
  BY <1>1, ChannelsShot DEF LoadChannels
<1>4. QED
  BY <1>2, <1>3 DEF RefreshChannels

\* The channels' clicks, the refresh button among them.
LEMMA ChannelsClick ==
  ASSUME hook = "channels", NEW T, Paged(T), NEW p \in 1..MaxPage, NEW s \in Sizes
  PROVE  /\ Clicked(T, PageChannels(T, p)) /\ Clicked(T, SizeChannels(T, s))
         /\ Clicked(T, SearchChannels(T, 1, T.size)) /\ Clicked(T, RefreshChannels(T, 0, T.size))
<1>t. /\ T.size \in Sizes /\ Dimmer(T, T) /\ 1 \in 0..MaxPage /\ 0 \in 0..MaxPage
      /\ p \in 0..MaxPage /\ p > 0
  BY Numbers DEF Paged, Table, Dimmer
<1>s. ServerPage(0) = 1 /\ ServerPage(1) = 1 /\ ServerPage(p) = p
  BY <1>t DEF ServerPage
<1>1. Clicked(T, PageChannels(T, p))
  <2> DEFINE N == [T EXCEPT !.page = p]
  <2>1. PageChannels(T, p) = RefreshChannels(N, p, T.size)
    BY DEF PageChannels
  <2>2. Paged(N) /\ Dimmer(T, N) /\ N.size = T.size /\ N.page = p
    BY Moved
  <2> HIDE DEF N
  <2>3. QED
    BY <1>t, <1>s, <2>1, <2>2, ChannelsLevel
<1>2. Clicked(T, SizeChannels(T, s))
  <2> DEFINE N == [T EXCEPT !.size = s, !.page = 1]
  <2>1. N = [T EXCEPT !.size = s, !.page = 1] /\ SizeChannels(T, s) = RefreshChannels(N, 1, s)
    BY DEF SizeChannels
  <2> HIDE DEF N
  <2>2. Paged(N) /\ Dimmer(T, N) /\ N.size = s
    BY <2>1, Restarted
  <2>3. N.size = s /\ ServerPage(1) \in {N.page, 1}
    BY <1>s, <2>2
  <2>4. Clicked(T, RefreshChannels(N, 1, s))
    BY <1>t, <2>2, <2>3, ChannelsLevel
  <2>5. QED
    BY <2>1, <2>4
<1>3. Clicked(T, SearchChannels(T, 1, T.size)) /\ Clicked(T, RefreshChannels(T, 0, T.size))
  BY <1>t, <1>s, ChannelsLevel
<1>4. QED
  BY <1>1, <1>2, <1>3

\* The logs; their replies bring page and size along.
LEMMA LogsClick ==
  ASSUME hook \in Logs, NEW T, Paged(T), NEW p \in 1..MaxPage, NEW s \in Sizes
  PROVE  /\ Clicked(T, PageUsageLogs(T, p)) /\ Clicked(T, SizeUsageLogs(T, s))
         /\ Clicked(T, RefreshUsageLogs(T))
         /\ Clicked(T, PageTaskLogs(T, p)) /\ Clicked(T, SizeTaskLogs(T, s))
         /\ Clicked(T, RefreshTaskLogs(T))
<1>h. /\ hook \notin ByQuery /\ hook # "channels" /\ hook # "deployments" /\ hook \in SizeReplied
  BY DEF ByQuery, SizeReplied, Logs
<1>t. /\ T.size \in Sizes /\ T.page \in 0..MaxPage /\ Dimmer(T, T) /\ 1 \in 0..MaxPage
      /\ p \in 0..MaxPage /\ 1 \in 1..MaxPage
  BY TablesAssumption, Numbers DEF Paged, Table, Dimmer
<1>1. ASSUME NEW N, Paged(N), Dimmer(T, N), NEW r \in 0..MaxPage, NEW z \in Sizes
      PROVE  Clicked(T, LoadLogs(N, r, z))
  <2>1. N \in Table
    BY <1>1 DEF Paged
  <2>2. Loading(N) \in Table /\ Loading(N).page = N.page /\ Loading(N).searching = N.searching
    BY <2>1, Lights
  <2>3. Paged(Loading(N))
    BY <1>1, <2>2 DEF Paged
  <2>4. ASSUME NEW q \in {"all", "kw"} PROVE Shot(T, Loading(N), U(q, r, z), {"load"})
    BY <1>h, <1>1, <2>2, <2>3, Urls DEF Shot, Dimmer
  <2>5. \A u : Level(Loading(N), u)
    BY <1>h DEF Level
  <2>6. QED
    BY <1>h, <2>4, <2>5, ShotClicked DEF LoadLogs
<1>2. Clicked(T, PageUsageLogs(T, p)) /\ Clicked(T, RefreshUsageLogs(T))
  BY <1>1, <1>t, Moved DEF PageUsageLogs, RefreshUsageLogs
<1>3. Clicked(T, SizeUsageLogs(T, s))
  <2> DEFINE N == [T EXCEPT !.size = s, !.page = 1]
  <2>1. N = [T EXCEPT !.size = s, !.page = 1] /\ SizeUsageLogs(T, s) = LoadLogs(N, T.page, s)
    BY DEF SizeUsageLogs
  <2> HIDE DEF N
  <2>2. Paged(N) /\ Dimmer(T, N)
    BY <2>1, Restarted
  <2>3. QED
    BY <1>1, <1>t, <2>1, <2>2
<1>4. Clicked(T, PageTaskLogs(T, p)) /\ Clicked(T, SizeTaskLogs(T, s))
      /\ Clicked(T, RefreshTaskLogs(T))
  BY <1>1, <1>t DEF PageTaskLogs, SizeTaskLogs, RefreshTaskLogs
<1>5. QED
  BY <1>2, <1>3, <1>4

\* Every click of every table.
LEMMA ClickEffect ==
  ASSUME Typed, NEW p \in 1..MaxPage, NEW s \in Sizes
  PROVE  /\ Clicked(table, OnPage(table, p)) /\ Clicked(table, OnSize(table, s))
         /\ Clicked(table, OnSearch(table))
         /\ hook = "channels" => Clicked(table, RefreshChannels(table, 0, table.size))
<1>1. Paged(table) /\ hook \in AllHooks
  BY TablesAssumption DEF Typed, OnScreen
<1>2. CASE hook = "tokens"
  BY <1>1, <1>2, TokensClick DEF OnPage, OnSize, OnSearch
<1>3. CASE hook = "users"
  BY <1>1, <1>3, UsersClick DEF OnPage, OnSize, OnSearch
<1>4. CASE hook = "redemptions"
  BY <1>1, <1>4, RedemptionsClick DEF OnPage, OnSize, OnSearch
<1>5. CASE hook = "models"
  BY <1>1, <1>5, ModelsClick DEF OnPage, OnSize, OnSearch
<1>6. CASE hook = "deployments"
  BY <1>1, <1>6, DeploymentsClick DEF OnPage, OnSize, OnSearch
<1>7. CASE hook = "channels"
  BY <1>1, <1>7, ChannelsClick DEF OnPage, OnSize, OnSearch
<1>8. CASE hook \in Logs
  BY <1>1, <1>8, LogsClick DEF OnPage, OnSize, OnSearch, Logs
<1>9. QED
  BY <1>1, <1>2, <1>3, <1>4, <1>5, <1>6, <1>7, <1>8 DEF AllHooks, Logs

-----------------------------------------------------------------------------
(* Refreshes and replies. *)

\* What refresh() does with the closure c: level with the pager if the closure has
\* its values; the deployments ask for the page, size and query of the closure.
Refreshed(T, c, e) ==
  /\ Effect(T, e) /\ e.gets # {}
  /\ c.size = T.size /\ c.page = T.page => LevelEffect(e)
  /\ hook = "deployments" =>
       /\ e.t.size = T.size /\ e.t.query = T.query
       /\ \A g \in e.gets : g[1].s = c.size /\ g[1].q = c.query

\* A single GET of a refresh.
LEMMA ShotRefreshed ==
  ASSUME NEW T, NEW t, NEW u, NEW cs, NEW c, Shot(T, t, u, cs), hook # "deployments",
         c.size = T.size /\ c.page = T.page => Level(t, u)
  PROVE  Refreshed(T, c, Get(t, u, cs))
BY GetEffect DEF Refreshed, LevelEffect

\* Every table that has operations on rows.
LEMMA RefreshEffect ==
  ASSUME hook \in AllHooks \ Logs, NEW T, Paged(T), NEW c, Paged(c)
  PROVE  Refreshed(T, c, OnRefresh(T, c))
<1>c. /\ c.page \in 0..MaxPage /\ c.size \in Sizes /\ c.query \in {"all", "kw"}
      /\ 1 \in 0..MaxPage /\ Dimmer(T, T)
  BY Numbers DEF Paged, Table, Dimmer
<1>q. ASSUME hook \in ByQuery, NEW p \in 0..MaxPage
      PROVE  /\ Refreshed(T, c, Get(Loading(T), U("all", p, c.size), {"load"}))
             /\ Refreshed(T, c, Get(Searching(T), U("kw", p, c.size), {"search"}))
  <2>1. /\ Shot(T, Loading(T), U("all", p, c.size), {"load"}) /\ Loading(T).size = T.size
        /\ Shot(T, Searching(T), U("kw", p, c.size), {"search"}) /\ Searching(T).size = T.size
    BY <1>c, <1>q, LoadShot
  <2>2. hook # "channels" /\ hook # "deployments"
    BY <1>q DEF ByQuery
  <2>3. c.size = T.size => /\ Level(Loading(T), U("all", p, c.size))
                           /\ Level(Searching(T), U("kw", p, c.size))
    BY <1>c, <2>1, <2>2, Urls DEF Level
  <2>4. Refreshed(T, c, Get(Loading(T), U("all", p, c.size), {"load"}))
    BY <2>1, <2>2, <2>3, ShotRefreshed
  <2>5. Refreshed(T, c, Get(Searching(T), U("kw", p, c.size), {"search"}))
    BY <2>1, <2>2, <2>3, ShotRefreshed
  <2>6. QED
    BY <2>4, <2>5
<1>1. CASE hook = "tokens"
  <2>1. PICK t : /\ LoadTokens(T, c.page, c.size) = Get(t, U("all", c.page, c.size), {"load"})
                 /\ Shot(T, t, U("all", c.page, c.size), {"load"}) /\ Paged(t)
    BY <1>1, <1>c, TokensShot
  <2>2. \A u : Level(t, u)
    BY <1>1 DEF Level, SizeReplied
  <2>3. Refreshed(T, c, LoadTokens(T, c.page, c.size))
    BY <1>1, <2>1, <2>2, ShotRefreshed
  <2>4. QED
    BY <1>1, <2>3 DEF OnRefresh
<1>2. CASE hook = "users"
  <2>1. Refreshed(T, c, SearchUsers(T, c.page, c.size))
    BY <1>2, <1>c, <1>q DEF SearchUsers, LoadUsers, ByQuery
  <2>2. QED
    BY <1>2, <2>1 DEF OnRefresh
<1>3. CASE hook = "redemptions"
  <2>1. Refreshed(T, c, LoadRedemptions(T, c.page, c.size))
    BY <1>3, <1>c, <1>q DEF LoadRedemptions, ByQuery
  <2>2. Refreshed(T, c, SearchRedemptions(T, c))
    BY <1>3, <1>c, <1>q DEF SearchRedemptions, LoadRedemptions, ByQuery
  <2>3. QED
    BY <1>3, <2>1, <2>2 DEF OnRefresh
<1>4. CASE hook = "models"
  <2>1. Refreshed(T, c, LoadModels(T, c.page, c.size))
    BY <1>4, <1>c, <1>q DEF LoadModels, ByQuery
  <2>2. QED
    BY <1>4, <2>1 DEF OnRefresh
<1>5. CASE hook = "deployments"
  <2>1. PICK t \in {Loading(T), Searching(T)} :
          OnRefresh(T, c) = Get(t, U(c.query, c.page, c.size), {"load"})
    BY <1>5 DEF OnRefresh, RefreshDeployments, FetchDeployments
  <2>2. /\ Shot(T, t, U(c.query, c.page, c.size), {"load"})
        /\ t.size = T.size /\ t.query = T.query
    BY <1>5, <1>c, DeploymentsShot
  <2>3. c.size = T.size => Level(t, U(c.query, c.page, c.size))
    BY <1>5, <1>c, <2>2, Urls DEF Level
  <2>4. U(c.query, c.page, c.size).s = c.size /\ U(c.query, c.page, c.size).q = c.query
    BY <1>c, Urls
  <2>5. QED
    BY <2>1, <2>2, <2>3, <2>4, GetEffect DEF Refreshed, LevelEffect
<1>6. CASE hook = "channels"
  <2>1. ServerPage(c.page) \in {c.page, 1}
    BY DEF ServerPage
  <2>2. /\ Effect(T, RefreshChannels(T, c.page, c.size))
        /\ RefreshChannels(T, c.page, c.size).gets # {}
        /\ T.size = c.size /\ T.page = c.page => LevelEffect(RefreshChannels(T, c.page, c.size))
    BY <1>6, <1>c, <2>1, ChannelsLevel DEF Clicked
  <2>3. Refreshed(T, c, RefreshChannels(T, c.page, c.size))
    BY <1>6, <2>2 DEF Refreshed
  <2>4. QED
    BY <1>6, <2>3 DEF OnRefresh
<1>7. QED
  BY <1>1, <1>2, <1>3, <1>4, <1>5, <1>6 DEF AllHooks, Logs

\* The first of the two refreshes that follow the deletion of a model.
LEMMA TwiceEffect ==
  ASSUME hook = "models", NEW T, Paged(T), NEW c, Paged(c)
  PROVE  Refreshed(T, c, RefreshModelsTwice(T, c))
<1>1. c.page \in 0..MaxPage /\ c.size \in Sizes /\ Dimmer(T, T)
  BY DEF Paged, Table, Dimmer
<1> DEFINE u == U("all", c.page, c.size)
<1>2. u.s = c.size
  BY <1>1, Urls
<1>3. Shot(T, Loading(T), u, {"load"}) /\ Loading(T).size = T.size
  BY <1>1, LoadShot DEF ByQuery
<1> HIDE DEF u
<1>4. Shot(T, Loading(T), u, {"load", "again"})
  BY <1>3 DEF Shot
<1>5. c.size = T.size => Level(Loading(T), u)
  BY <1>2, <1>3 DEF Level
<1>6. Refreshed(T, c, Get(Loading(T), u, {"load", "again"}))
  BY <1>4, <1>5, ShotRefreshed
<1>7. QED
  BY <1>6 DEF RefreshModelsTwice, u

\* What the arrival of a reply to u does: it switches its spinner off and moves the
\* pager; only the tokens may send another GET, when their page size changes, and the
\* models, the same one after a deletion.
Replied(u, how, e) ==
  /\ Effect(table, e)
  /\ hook \notin {"tokens", "models"} => e.gets = {}
  /\ hook = "models" => e.t.size = table.size /\ \A g \in e.gets : g[1].s = u.s
  /\ hook \in ByQuery /\ (how = "rejected" => hook \in Catching) =>
       /\ u.q = "all" => (e.t.loading => \E g \in e.gets : g[1].q = "all")
       /\ u.q = "kw" => ~e.t.searching
  /\ hook = "channels" /\ how # "rejected" /\ latest = u /\ "load" \in flights[u].conts =>
       ~e.t.loading
  /\ hook = "channels" /\ "search" \in flights[u].conts => ~e.t.searching
  /\ hook \in Logs /\ how # "rejected" => ~e.t.loading
  /\ hook = "deployments" =>
       /\ latest = u => ~e.t.loading /\ ~e.t.searching
       /\ latest = u /\ how = "ok" => e.t.page = ServerPage(u.p)
       /\ latest # u => e.t = table
       /\ e.t.size = table.size /\ e.t.query = table.query
  /\ how = "ok" /\ e.gets = {} /\ Coming(u) => Agrees(e.t, U(u.q, ServerPage(u.p), u.s))

\* Pages the server answers with.
LEMMA ServedPage ==
  ASSUME NEW u \in Url
  PROVE  /\ ServerPage(u.p) \in 1..MaxPage /\ ServerPage(u.p) \in 0..MaxPage
         /\ ServerPage(u.p) > 0 /\ u.p \in 0..MaxPage /\ u.s \in Sizes /\ u.q \in {"all", "kw"}
         /\ U(u.q, ServerPage(u.p), u.s) \in Url
         /\ U(u.q, ServerPage(u.p), u.s).p = ServerPage(u.p)
         /\ U(u.q, ServerPage(u.p), u.s).s = u.s /\ U(u.q, ServerPage(u.p), u.s).q = u.q
<1>1. u.p \in 0..MaxPage /\ u.s \in Sizes /\ u.q \in {"all", "kw"} /\ MaxPage \in Nat \ {0}
  BY TablesAssumption DEF Url
<1>2. ServerPage(u.p) \in 1..MaxPage /\ ServerPage(u.p) \in 0..MaxPage /\ ServerPage(u.p) > 0
  BY <1>1 DEF ServerPage
<1>3. QED
  BY <1>1, <1>2, Urls

\* The users.
LEMMA UsersReplied ==
  ASSUME hook = "users", Paged(table), NEW u \in Url,
         NEW how \in {"ok", "refused", "rejected"}
  PROVE  Replied(u, how, ReplyUsers(table, u, how))
<1> DEFINE D == IF how = "ok" THEN [table EXCEPT !.page = ServerPage(u.p)] ELSE table
           F == IF how = "rejected" THEN D
                ELSE IF u.q = "all" THEN [D EXCEPT !.loading = FALSE]
                                    ELSE [D EXCEPT !.searching = FALSE]
<1>1. ReplyUsers(table, u, how) = Stay(F)
  BY DEF ReplyUsers
<1>2. table \in Table /\ table.page > 0 /\ ServerPage(u.p) \in 0..MaxPage
  BY ServedPage DEF Paged
<1>3. /\ D \in Table /\ D.size = table.size
      /\ D.loading = table.loading /\ D.searching = table.searching
      /\ how = "ok" => D.page = ServerPage(u.p)
      /\ how # "ok" => D.page = table.page
  BY <1>2 DEF Table
<1> HIDE DEF D
<1>4. /\ F \in Table /\ F.page = D.page /\ F.size = D.size
      /\ F.loading => D.loading
      /\ F.searching => D.searching
      /\ how # "rejected" /\ u.q = "all" => ~F.loading
      /\ how # "rejected" /\ u.q # "all" => ~F.searching
  BY <1>3 DEF Table
<1> HIDE DEF F
<1>5. Paged(F)
  BY <1>2, <1>3, <1>4, ServedPage DEF Paged
<1>6. Effect(table, Stay(F)) /\ Stay(F).t = F /\ Stay(F).gets = {}
  BY <1>3, <1>4, <1>5, StayEffect
<1>7. how = "ok" /\ Coming(u) => Agrees(F, U(u.q, ServerPage(u.p), u.s))
  BY <1>3, <1>4, ServedPage DEF Coming, Agrees, SizeReplied, Logs
<1>8. QED
  BY <1>1, <1>4, <1>6, <1>7 DEF Replied, Catching, Logs

\* The redemption codes and the models: the flags are reset whatever happens.
LEMMA CatchingReplied ==
  ASSUME hook \in {"redemptions", "models"}, Paged(table), NEW u \in Url,
         NEW how \in {"ok", "refused", "rejected"}, NEW cs
  PROVE  /\ hook = "redemptions" => Replied(u, how, ReplyRedemptions(table, u, how))
         /\ hook = "models" => Replied(u, how, ReplyModels(table, u, cs, how))
<1> DEFINE F == [table EXCEPT !.page = IF how = "ok" THEN ServerPage(u.p) ELSE @,
                              !.loading = @ /\ u.q # "all", !.searching = @ /\ u.q # "kw"]
<1>1. /\ ReplyRedemptions(table, u, how) = Stay(F)
      /\ ReplyModels(table, u, cs, how) =
           IF "again" \in cs THEN LoadModels(F, u.p, u.s) ELSE Stay(F)
  BY DEF ReplyRedemptions, ReplyModels
<1>2. table \in Table /\ table.page > 0 /\ ServerPage(u.p) \in 0..MaxPage
  BY ServedPage DEF Paged
<1>3. /\ F \in Table /\ F.size = table.size
      /\ how = "ok" => F.page = ServerPage(u.p)
      /\ how # "ok" => F.page = table.page
      /\ F.loading => table.loading
      /\ F.searching => table.searching
      /\ u.q = "all" => ~F.loading
      /\ u.q = "kw" => ~F.searching
  BY <1>2 DEF Table
<1> HIDE DEF F
<1>4. Paged(F)
  BY <1>2, <1>3, ServedPage DEF Paged
<1>5. Effect(table, Stay(F)) /\ Stay(F).t = F /\ Stay(F).gets = {}
  BY <1>3, <1>4, StayEffect
<1>6. how = "ok" /\ Coming(u) => Agrees(F, U(u.q, ServerPage(u.p), u.s))
  BY <1>3, ServedPage DEF Coming, Agrees, SizeReplied, Logs
<1>7. Replied(u, how, Stay(F))
  BY <1>3, <1>5, <1>6 DEF Replied, Logs
<1>8. hook = "models" => Replied(u, how, LoadModels(F, u.p, u.s))
  <2> SUFFICES ASSUME hook = "models" PROVE Replied(u, how, LoadModels(F, u.p, u.s))
    OBVIOUS
  <2> DEFINE v == U("all", u.p, u.s)
             e == Get(Loading(F), v, {"load"})
  <2>1. u.p \in 0..MaxPage /\ u.s \in Sizes
    BY ServedPage
  <2>2. v.q = "all" /\ v.s = u.s
    BY <2>1, Urls
  <2>3. /\ Shot(table, Loading(F), v, {"load"}) /\ Loading(F).size = F.size
    BY <1>3, <1>4, <2>1, LoadShot DEF ByQuery, Dimmer
  <2>4. Loading(F).searching = F.searching
    BY <1>3, Lights
  <2> HIDE DEF v
  <2>5. /\ Effect(table, e) /\ e.t = Loading(F) /\ e.gets # {}
        /\ \A g \in e.gets : g[1] = v
    BY <2>3, GetEffect
  <2>6. LoadModels(F, u.p, u.s) = e
    BY DEF LoadModels, v
  <2> HIDE DEF e
  <2>7. \E g \in e.gets : g[1].q = "all"
    BY <2>2, <2>5
  <2>8. Replied(u, how, e)
    BY <1>3, <2>2, <2>3, <2>4, <2>5, <2>7 DEF Replied, Logs
  <2>9. QED
    BY <2>6, <2>8
<1>9. QED
  BY <1>1, <1>7, <1>8

\* The deployments: only the last request counts.
LEMMA DeploymentsReplied ==
  ASSUME hook = "deployments", Paged(table), NEW u \in Url,
         NEW how \in {"ok", "refused", "rejected"}
  PROVE  Replied(u, how, ReplyDeployments(table, u, how))
<1> DEFINE F == [table EXCEPT !.page = IF how = "ok" THEN ServerPage(u.p) ELSE @,
                              !.loading = FALSE, !.searching = FALSE]
           G == IF latest # u THEN table ELSE F
<1>1. ReplyDeployments(table, u, how) = Stay(G)
  BY DEF ReplyDeployments
<1>2. table \in Table /\ table.page > 0 /\ ServerPage(u.p) \in 0..MaxPage
  BY ServedPage DEF Paged
<1>3. /\ F \in Table /\ F.size = table.size /\ F.query = table.query
      /\ how = "ok" => F.page = ServerPage(u.p)
      /\ how # "ok" => F.page = table.page
      /\ ~F.loading /\ ~F.searching
  BY <1>2 DEF Table
<1> HIDE DEF F
<1>4. Paged(G)
  BY <1>2, <1>3, ServedPage DEF Paged
<1>5. Effect(table, Stay(G)) /\ Stay(G).t = G /\ Stay(G).gets = {}
  BY <1>3, <1>4, StayEffect
<1>6. how = "ok" /\ Coming(u) => Agrees(G, U(u.q, ServerPage(u.p), u.s))
  BY <1>3, ServedPage DEF Coming, Agrees, SizeReplied, Logs
<1>7. QED
  BY <1>1, <1>3, <1>5, <1>6 DEF Replied, ByQuery, Logs

\* The channels: only a search moves the pager.
LEMMA ChannelsReplied ==
  ASSUME hook = "channels", Paged(table), NEW u \in Url,
         NEW how \in {"ok", "refused", "rejected"}
  PROVE  Replied(u, how, ReplyChannels(table, u, flights[u].conts, how))
<1> DEFINE cs == flights[u].conts
           off == "load" \in cs /\ how # "rejected" /\ latest = u
           F == [table EXCEPT !.page = IF how = "ok" /\ u.q = "kw" THEN u.p ELSE @,
                              !.loading = @ /\ ~off,
                              !.searching = @ /\ "search" \notin cs]
<1>1. ReplyChannels(table, u, cs, how) = Stay(F)
  BY DEF ReplyChannels
<1>2. table \in Table /\ u.p \in 0..MaxPage
  BY ServedPage DEF Paged
<1> HIDE DEF cs
<1>3. /\ F \in Table /\ F.size = table.size
      /\ how = "ok" /\ u.q = "kw" => F.page = u.p
      /\ how = "ok" /\ u.q # "kw" => F.page = table.page
      /\ F.loading => table.loading
      /\ F.searching => table.searching
      /\ off => ~F.loading
      /\ "search" \in cs => ~F.searching
  BY <1>2 DEF Table
<1> HIDE DEF F
<1>4. Paged(F)
  BY <1>3 DEF Paged
<1>5. Effect(table, Stay(F)) /\ Stay(F).t = F /\ Stay(F).gets = {}
  BY <1>3, <1>4, StayEffect
<1>6. how = "ok" /\ Coming(u) => Agrees(F, U(u.q, ServerPage(u.p), u.s))
  <2> SUFFICES ASSUME how = "ok", Coming(u) PROVE Agrees(F, U(u.q, ServerPage(u.p), u.s))
    OBVIOUS
  <2>1. F.size = u.s
    BY <1>3 DEF Coming, SizeReplied, Logs
  <2>2. ServerPage(u.p) \in {F.page, 1}
    <3>1. CASE u.q = "kw"
      BY <1>3, <3>1 DEF ServerPage
    <3>2. CASE u.q = "all"
      BY <1>3, <3>2 DEF Coming
    <3>3. QED
      BY <3>1, <3>2, ServedPage
  <2>3. QED
    BY <2>1, <2>2, ServedPage DEF Agrees
<1>7. /\ how # "rejected" /\ latest = u /\ "load" \in flights[u].conts => ~F.loading
      /\ "search" \in flights[u].conts => ~F.searching
  BY <1>3 DEF cs
<1>8. QED
  BY <1>1, <1>5, <1>6, <1>7 DEF Replied, ByQuery, Logs, cs

\* The logs.
LEMMA LogsReplied ==
  ASSUME hook \in Logs, Paged(table), NEW u \in Url,
         NEW how \in {"ok", "refused", "rejected"}
  PROVE  Replied(u, how, ReplyLogs(table, u, how))
<1> DEFINE F == [table EXCEPT !.page = IF how = "ok" THEN ServerPage(u.p) ELSE @,
                              !.size = IF how = "ok" THEN u.s ELSE @,
                              !.loading = @ /\ how = "rejected"]
<1>1. ReplyLogs(table, u, how) = Stay(F)
  BY DEF ReplyLogs
<1>2. table \in Table /\ ServerPage(u.p) \in 0..MaxPage /\ u.s \in Sizes
  BY ServedPage DEF Paged
<1>3. /\ F \in Table
      /\ how = "ok" => F.page = ServerPage(u.p) /\ F.size = u.s
      /\ how # "ok" => F.page = table.page
      /\ F.loading => table.loading
      /\ F.searching => table.searching
      /\ how # "rejected" => ~F.loading
  BY <1>2 DEF Table
<1> HIDE DEF F
<1>h. /\ hook # "channels" /\ hook # "deployments" /\ hook # "tokens"
     /\ hook # "models" /\ hook \notin ByQuery
  BY DEF Logs, ByQuery
<1>4. Paged(F)
  BY <1>h, <1>2, <1>3, ServedPage DEF Paged
<1>5. Effect(table, Stay(F)) /\ Stay(F).t = F /\ Stay(F).gets = {}
  BY <1>3, <1>4, StayEffect
<1>6. how = "ok" => Agrees(F, U(u.q, ServerPage(u.p), u.s))
  BY <1>h, <1>3, ServedPage DEF Agrees
<1>7. QED
  BY <1>h, <1>1, <1>3, <1>5, <1>6 DEF Replied

\* The tokens: a reply with another page size starts a load of that size.
LEMMA TokensReplied ==
  ASSUME hook = "tokens", Paged(table), NEW u \in Url,
         NEW how \in {"ok", "refused", "rejected"}
  PROVE  Replied(u, how, ReplyTokens(table, u, how))
<1> DEFINE D == IF how # "ok" THEN table
                ELSE [table EXCEPT !.page = ServerPage(u.p), !.size = u.s,
                                   !.mode = @ \/ u.q = "kw"]
           F == IF how = "rejected" THEN D
                ELSE IF u.q = "all" THEN [D EXCEPT !.loading = FALSE]
                                    ELSE [D EXCEPT !.searching = FALSE]
<1>1. ReplyTokens(table, u, how) =
        IF F.size # table.size THEN LoadTokens(F, 1, F.size) ELSE Stay(F)
  BY DEF ReplyTokens
<1>2. table \in Table /\ table.page > 0 /\ ServerPage(u.p) \in 0..MaxPage /\ u.s \in Sizes
  BY ServedPage DEF Paged
<1>3. /\ D \in Table
      /\ D.loading = table.loading /\ D.searching = table.searching
      /\ how = "ok" => D.page = ServerPage(u.p) /\ D.size = u.s
      /\ how # "ok" => D.page = table.page
  BY <1>2 DEF Table
<1> HIDE DEF D
<1>4. /\ F \in Table /\ F.page = D.page /\ F.size = D.size
      /\ F.loading => D.loading
      /\ F.searching => D.searching
      /\ how # "rejected" /\ u.q = "all" => ~F.loading
      /\ how # "rejected" /\ u.q # "all" => ~F.searching
  BY <1>3 DEF Table
<1> HIDE DEF F
<1>5. Paged(F) /\ F.size \in Sizes
  BY <1>2, <1>3, <1>4, ServedPage DEF Paged, Table
<1>h. hook \in ByQuery /\ hook \notin Catching /\ hook \notin Logs
  BY DEF ByQuery, Catching, Logs
<1>6. Dimmer(table, F)
  BY <1>3, <1>4 DEF Dimmer
<1>7. CASE F.size = table.size
  <2>1. Effect(table, Stay(F)) /\ Stay(F).t = F /\ Stay(F).gets = {}
    BY <1>5, <1>6, StayEffect DEF Dimmer
  <2>2. how = "ok" => Agrees(F, U(u.q, ServerPage(u.p), u.s))
    BY <1>3, <1>4, ServedPage DEF Agrees
  <2>3. QED
    BY <1>h, <1>1, <1>4, <1>7, <2>1, <2>2 DEF Replied
<1>8. CASE F.size # table.size
  <2> DEFINE a == U("all", 1, F.size)
             e == LoadTokens(F, 1, F.size)
  <2>1. PICK t : e = Get(t, a, {"load"}) /\ Shot(F, t, a, {"load"}) /\ Shot(table, t, a, {"load"})
    <3>1. 1 \in 0..MaxPage /\ Dimmer(F, F)
      BY Numbers DEF Dimmer
    <3>2. PICK t : LoadTokens(F, 1, F.size) = Get(t, a, {"load"}) /\ Shot(F, t, a, {"load"})
      BY <1>5, <3>1, TokensShot
    <3>3. Shot(table, t, a, {"load"})
      BY <1>6, <3>2 DEF Shot, Dimmer
    <3>4. QED
      BY <3>2, <3>3
  <2> HIDE DEF e
  <2>2. /\ Effect(table, e) /\ e.t = t /\ e.gets # {}
        /\ \A g \in e.gets : g[1] = a
    BY <2>1, GetEffect
  <2>3. a.q = "all"
    BY DEF U
  <2>4. \E g \in e.gets : g[1].q = "all"
    BY <2>2, <2>3
  <2>5. u.q = "kw" /\ how # "rejected" => ~e.t.searching
    <3>1. u.q = "kw" /\ how # "rejected" => ~F.searching
      BY <1>4
    <3>2. e.t.searching => F.searching
      BY <1>h, <2>1, <2>2, <2>3 DEF Shot
    <3>3. QED
      BY <3>1, <3>2
  <2>6. ReplyTokens(table, u, how) = e
    BY <1>1, <1>8 DEF e
  <2>7. QED
    BY <1>h, <2>2, <2>4, <2>5, <2>6 DEF Replied
<1>9. QED
  BY <1>7, <1>8

\* Every reply of every table.
LEMMA ReplyEffect ==
  ASSUME Typed, NEW u \in DOMAIN flights, NEW how \in {"ok", "refused", "rejected"}
  PROVE  Replied(u, how, OnReply(table, u, how))
<1>1. Paged(table) /\ hook \in AllHooks /\ u \in Url
  BY TablesAssumption DEF Typed, OnScreen, UnderWay, Flown
<1>2. CASE hook = "tokens"
  BY <1>1, <1>2, TokensReplied DEF OnReply
<1>3. CASE hook = "users"
  BY <1>1, <1>3, UsersReplied DEF OnReply
<1>4. CASE hook \in {"redemptions", "models"}
  BY <1>1, <1>4, CatchingReplied DEF OnReply
<1>5. CASE hook = "deployments"
  BY <1>1, <1>5, DeploymentsReplied DEF OnReply
<1>6. CASE hook = "channels"
  BY <1>1, <1>6, ChannelsReplied DEF OnReply
<1>7. CASE hook \in Logs
  BY <1>1, <1>7, LogsReplied DEF OnReply, Logs
<1>8. QED
  BY <1>1, <1>2, <1>3, <1>4, <1>5, <1>6, <1>7 DEF AllHooks, Logs

-----------------------------------------------------------------------------
(* What is under way after a handler has run. *)

\* The GETs under way after new ones were sent: an answer that was there stays, and
\* everybody who awaited one still does.
LEMMA SendFacts ==
  ASSUME NEW fl, NEW gets
  PROVE  /\ DOMAIN Send(fl, gets) = DOMAIN fl \cup {g[1] : g \in gets}
         /\ \A u \in DOMAIN fl : /\ Send(fl, gets)[u].reply = fl[u].reply
                                 /\ fl[u].conts \subseteq Send(fl, gets)[u].conts
         /\ \A u \in DOMAIN Send(fl, gets) : u \notin DOMAIN fl =>
              Send(fl, gets)[u].reply = Unserved
         /\ \A g \in gets : g[2] \in Send(fl, gets)[g[1]].conts
<1>1. DOMAIN Send(fl, gets) = DOMAIN fl \cup {g[1] : g \in gets}
  BY DEF Send
<1>2. \A u \in DOMAIN Send(fl, gets) :
        Send(fl, gets)[u].reply = IF u \in DOMAIN fl THEN fl[u].reply ELSE Unserved
  BY DEF Send
<1>3. \A u \in DOMAIN Send(fl, gets) :
        Send(fl, gets)[u].conts = (IF u \in DOMAIN fl THEN fl[u].conts ELSE {})
                                    \cup {g[2] : g \in {x \in gets : x[1] = u}}
  BY DEF Send
<1>4. QED
  BY <1>1, <1>2, <1>3

\* They are well formed.
LEMMA SendFlown ==
  ASSUME NEW fl, Flown(fl), NEW gets, IsFiniteSet(gets),
         \A g \in gets : g[1] \in Url /\ g[2] \in {"load", "search", "again"}
  PROVE  Flown(Send(fl, gets))
<1> DEFINE S == Send(fl, gets)
           us == {g[1] : g \in gets}
<1>1. DOMAIN S = DOMAIN fl \cup us
  BY SendFacts
<1>2. IsFiniteSet(us) /\ us \subseteq Url
  <2> DEFINE f == [g \in gets |-> g[1]]
  <2>1. f \in Surjection(gets, us)
    BY DEF Surjection
  <2> HIDE DEF f, us
  <2>2. IsFiniteSet(us)
    BY <2>1, FS_Surjection
  <2>3. QED
    BY <2>2 DEF us
<1>3. IsFiniteSet(DOMAIN S) /\ DOMAIN S \subseteq Url
  <2> HIDE DEF S, us
  <2>1. IsFiniteSet(DOMAIN fl) /\ DOMAIN fl \subseteq Url
    BY DEF Flown
  <2>2. IsFiniteSet(DOMAIN fl \cup us)
    BY <1>2, <2>1, FS_Union
  <2>3. QED
    BY <1>1, <1>2, <2>1, <2>2
<1>4. ASSUME NEW u \in DOMAIN S PROVE S[u] \in Flight /\ S[u].conts # {}
  <2> DEFINE cs == (IF u \in DOMAIN fl THEN fl[u].conts ELSE {})
                     \cup {g[2] : g \in {x \in gets : x[1] = u}}
             rp == IF u \in DOMAIN fl THEN fl[u].reply ELSE Unserved
  <2>1. S[u] = [reply |-> rp, conts |-> cs]
    BY <1>1 DEF Send
  <2>2. rp \in [rows : SUBSET Rows, served : BOOLEAN]
    BY DEF Flown, Flight, Unserved
  <2>3. cs \subseteq {"load", "search", "again"}
    BY DEF Flown, Flight
  <2>4. cs # {}
    <3>1. CASE u \in DOMAIN fl
      BY <3>1 DEF Flown
    <3>2. CASE u \notin DOMAIN fl
      <4>1. PICK g \in gets : g[1] = u
        BY <1>1, <3>2
      <4>2. QED
        BY <4>1
    <3>3. QED
      BY <3>1, <3>2
  <2> HIDE DEF cs, rp, S
  <2>5. QED
    BY <2>1, <2>2, <2>3, <2>4 DEF Flight
<1>5. S = [u \in DOMAIN S |-> S[u]]
  BY DEF Send
<1> HIDE DEF S
<1>6. Flown(S)
  BY <1>3, <1>4, <1>5 DEF Flown
<1>7. QED
  BY <1>6 DEF S

\* A reply has arrived.
LEMMA LandedFlown ==
  ASSUME Flown(flights), NEW u
  PROVE  /\ Flown(Landed(u)) /\ DOMAIN Landed(u) = DOMAIN flights \ {u}
         /\ \A v \in DOMAIN Landed(u) : Landed(u)[v] = flights[v]
<1>1. DOMAIN Landed(u) = DOMAIN flights \ {u}
  BY DEF Landed
<1>2. \A v \in DOMAIN Landed(u) : Landed(u)[v] = flights[v]
  BY <1>1 DEF Landed
<1>3. Landed(u) = [v \in DOMAIN Landed(u) |-> Landed(u)[v]]
  BY DEF Landed
<1>4. IsFiniteSet(DOMAIN flights \ {u})
  BY FS_Subset DEF Flown
<1>5. QED
  BY <1>1, <1>2, <1>3, <1>4 DEF Flown

\* What a handler leaves under way, and which request counts as the last.
LEMMA RunFacts ==
  ASSUME NEW T, NEW e, NEW fl, NEW os, Effect(T, e), Flown(fl), Run(e, fl, os), latest \in Url
  PROVE  /\ table' = e.t /\ ops' = os /\ flights' = Send(fl, e.gets)
         /\ Flown(flights') /\ latest' \in Url /\ Paged(table')
         /\ DOMAIN flights' = DOMAIN fl \cup {g[1] : g \in e.gets}
         /\ e.gets = {} => latest' = latest /\ shared' = shared
         /\ hook = "deployments" => \A g \in e.gets : latest' = g[1]
         /\ hook = "channels" => \A g \in e.gets : g[1].q = "all" => latest' = g[1]
         /\ hook = "channels" /\ (\A g \in e.gets : g[1].q # "all") => latest' = latest
<1>1. /\ table' = e.t /\ ops' = os /\ flights' = Send(fl, e.gets)
      /\ latest' = IF Counted(e.gets) = {} THEN latest
                   ELSE CHOOSE u \in Counted(e.gets) : TRUE
      /\ e.gets = {} => shared' = shared
  BY DEF Run
<1>2. \A g \in e.gets : g[1] \in Url /\ g[2] \in {"load", "search", "again"}
  BY DEF Effect
<1>3. Flown(flights') /\ DOMAIN flights' = DOMAIN fl \cup {g[1] : g \in e.gets}
  BY <1>1, <1>2, SendFlown, SendFacts DEF Effect
<1>4. Counted(e.gets) # {} => latest' \in Counted(e.gets)
  BY <1>1
<1>5. Counted(e.gets) = {} => latest' = latest
  BY <1>1
<1>6. \A u \in Counted(e.gets) : \E g \in e.gets : u = g[1]
        /\ (hook = "deployments" \/ (hook = "channels" /\ g[1].q = "all"))
  BY DEF Counted
<1>7. \A g \in e.gets : hook = "deployments" \/ (hook = "channels" /\ g[1].q = "all") =>
        g[1] \in Counted(e.gets)
  BY DEF Counted
<1>8. latest' \in Url
  BY <1>2, <1>4, <1>5, <1>6
<1>9. hook \in {"channels", "deployments"} => \A g, h \in e.gets : g[1] = h[1]
  BY DEF Effect
<1>10. QED
  BY <1>1, <1>3, <1>4, <1>5, <1>6, <1>7, <1>8, <1>9 DEF Effect

\* The types.
LEMMA TypedNext ==
  ASSUME Typed, hook' = hook, Flown(flights'), latest' \in Url, IsFiniteSet(ops'),
         \A o \in ops' : o \in Op /\ Paged(o.c),
         hook \in {"usageLogs", "taskLogs"} => ops' = {},
         form' \in {"", "kw"}, store' \subseteq Rows, Paged(table'), shown' \in Screen, Flags'
  PROVE  Typed'
<1>1. \A t : Paged(t)' <=> (t' \in Table /\ (hook # "channels" => t'.page > 0))
  BY DEF Paged
<1>2. UnderWay'
  BY DEF UnderWay, Flown, Paged
<1>3. OnScreen'
  BY DEF Typed, OnScreen, Paged
<1>4. QED
  BY <1>2, <1>3 DEF Typed

-----------------------------------------------------------------------------
(* Requests that run alone. *)

\* Two finite sets with one element at most between them.
LEMMA AtMostOne ==
  ASSUME NEW A, NEW B, IsFiniteSet(A), IsFiniteSet(B),
         ~(Cardinality(A) + Cardinality(B) > 1)
  PROVE  /\ A = {} \/ B = {}
         /\ \A x, y \in A : x = y
         /\ \A x, y \in B : x = y
<1>1. Cardinality(A) \in Nat /\ Cardinality(B) \in Nat
  BY FS_CardinalityType
<1>2. (Cardinality(A) = 0 <=> A = {}) /\ (Cardinality(B) = 0 <=> B = {})
  BY FS_EmptySet
<1>3. A = {} \/ \E x : A = {x}
  BY <1>1, <1>2, FS_Singleton
<1>4. B = {} \/ \E x : B = {x}
  BY <1>1, <1>2, FS_Singleton
<1>5. QED
  BY <1>1, <1>2, <1>3, <1>4

\* After a step that keeps the history by Overlap, one request at most is under way
\* unless the table is disturbed; and it was undisturbed before, or nothing was
\* under way and a GET was sent.
LEMMA Undisturbed ==
  ASSUME IsFiniteSet(DOMAIN flights'), IsFiniteSet(ops'), disturbed' = Overlap
  PROVE  Lone' /\ (~disturbed' => (Quiet /\ DOMAIN flights' # {}) \/ ~disturbed)
<1>1. ~disturbed' => ~(Cardinality(DOMAIN flights') + Cardinality(ops') > 1)
  BY DEF Overlap
<1>2. ~disturbed' => (Quiet /\ DOMAIN flights' # {}) \/ ~disturbed
  BY DEF Overlap
<1>3. ~disturbed' => /\ DOMAIN flights' = {} \/ ops' = {}
                     /\ \A u, v \in DOMAIN flights' : u = v
                     /\ \A o, r \in ops' : o = r
  BY <1>1, AtMostOne
<1>4. QED
  BY <1>2, <1>3 DEF Lone

-----------------------------------------------------------------------------
(* The spinners. *)

\* GETs that will switch a spinner off.
Loads(gets) ==
  IF hook \in ByQuery \cup {"channels"} THEN \E g \in gets : g[1].q = "all" ELSE gets # {}
Seeks(gets) ==
  CASE hook \in ByQuery -> \E g \in gets : g[1].q = "kw"
    [] hook = "channels" -> \E g \in gets : g[2] = "search"
    [] hook = "deployments" -> gets # {}
    [] OTHER -> FALSE

\* A piece of a handler switches a spinner on only with such a GET.
LEMMA EffectSpins ==
  ASSUME hook \in AllHooks, NEW T, NEW e, Effect(T, e)
  PROVE  /\ e.t.loading => T.loading \/ Loads(e.gets)
         /\ e.t.searching => T.searching \/ Seeks(e.gets)
<1>1. CASE hook \in ByQuery
  <2>1. hook # "channels" /\ hook # "deployments"
    BY <1>1 DEF ByQuery
  <2>2. QED
    BY <1>1, <2>1 DEF Effect, Loads, Seeks
<1>2. CASE hook = "channels"
  BY <1>2 DEF Effect, Loads, Seeks, ByQuery
<1>3. CASE hook = "deployments"
  BY <1>3 DEF Effect, Loads, Seeks, ByQuery
<1>4. CASE hook \in Logs
  BY <1>4 DEF Effect, Loads, Seeks, ByQuery, Logs
<1>5. QED
  BY <1>1, <1>2, <1>3, <1>4 DEF AllHooks, ByQuery, Logs

\* The request a spinner waits for is under way after a handler has run if it was
\* before or was sent.
LEMMA RunSpins ==
  ASSUME hook \in AllHooks, NEW T, NEW e, NEW fl, NEW os, Effect(T, e), Flown(fl),
         latest \in Url, Run(e, fl, os)
  PROVE  /\ Loads(e.gets) \/ LoadComes(fl, os, latest) => LoadComes(flights', ops', latest')
         /\ Seeks(e.gets) \/ SearchComes(fl, latest) => SearchComes(flights', latest')
<1> DEFINE S == Send(fl, e.gets)
<1>1. /\ ops' = os /\ flights' = S
      /\ DOMAIN flights' = DOMAIN fl \cup {g[1] : g \in e.gets}
      /\ e.gets = {} => latest' = latest
      /\ hook = "deployments" => \A g \in e.gets : latest' = g[1]
      /\ hook = "channels" => \A g \in e.gets : g[1].q = "all" => latest' = g[1]
      /\ hook = "channels" /\ (\A g \in e.gets : g[1].q # "all") => latest' = latest
  BY RunFacts
<1>2. /\ \A u \in DOMAIN fl : fl[u].conts \subseteq S[u].conts
      /\ \A g \in e.gets : g[2] \in S[g[1]].conts
  BY SendFacts
<1>3. /\ \A g \in e.gets : g[1] \in DOMAIN flights'
      /\ \A u \in DOMAIN fl : u \in DOMAIN flights'
  BY <1>1
<1> HIDE DEF S
<1>4. CASE hook \in ByQuery
  <2>1. hook # "channels" /\ hook # "deployments"
    BY <1>4 DEF ByQuery
  <2>2. QED
    BY <1>1, <1>3, <1>4, <2>1 DEF LoadComes, SearchComes, Loads, Seeks
<1>5. CASE hook = "channels"
  <2>1. hook \notin ByQuery
    BY <1>5 DEF ByQuery
  <2>2. ASSUME NEW g \in e.gets, g[1].q = "all"
        PROVE  latest' \in DOMAIN flights' /\ "load" \in flights'[latest'].conts
    <3>1. <<g[1], "load">> \in e.gets /\ latest' = g[1]
      BY <1>1, <1>5, <2>2 DEF Effect
    <3>2. <<g[1], "load">>[2] \in S[<<g[1], "load">>[1]].conts
      BY <1>2, <3>1
    <3>3. QED
      BY <1>1, <1>3, <3>1, <3>2
  <2>3. Loads(e.gets) => LoadComes(flights', ops', latest')
    BY <1>5, <2>1, <2>2 DEF Loads, LoadComes
  <2>4. LoadComes(fl, os, latest) => LoadComes(flights', ops', latest')
    <3>1. CASE \E g \in e.gets : g[1].q = "all"
      BY <1>5, <2>1, <2>2, <3>1 DEF LoadComes
    <3>2. CASE \A g \in e.gets : g[1].q # "all"
      BY <1>1, <1>2, <1>3, <1>5, <2>1, <3>2 DEF LoadComes
    <3>3. QED
      BY <3>1, <3>2
  <2>5. Seeks(e.gets) => SearchComes(flights', latest')
    BY <1>1, <1>2, <1>3, <1>5, <2>1 DEF Seeks, SearchComes
  <2>6. SearchComes(fl, latest) => SearchComes(flights', latest')
    BY <1>1, <1>2, <1>3, <1>5, <2>1 DEF SearchComes
  <2>7. QED
    BY <2>3, <2>4, <2>5, <2>6
<1>6. CASE hook = "deployments"
  BY <1>1, <1>3, <1>6 DEF LoadComes, SearchComes, Loads, Seeks, ByQuery
<1>7. CASE hook \in Logs
  BY <1>1, <1>3, <1>7 DEF LoadComes, SearchComes, Loads, Seeks, ByQuery, Logs
<1>8. QED
  BY <1>4, <1>5, <1>6, <1>7 DEF AllHooks, ByQuery, Logs

\* The spinners after a step, told with the table that stays on the screen.
LEMMA SpinsNext ==
  ASSUME hook' = hook,
         (rejected' => hook \in Catching) =>
           /\ table'.loading => LoadComes(flights', ops', latest')
           /\ table'.searching => SearchComes(flights', latest')
  PROVE  Spins'
BY DEF Spins, LoadComes, SearchComes

-----------------------------------------------------------------------------
(* The steps of the user. *)

\* A click that sends GETs.
LEMMA ClickKeeps ==
  ASSUME Inv, NEW e, Clicked(table, e), UserGets(e)
  PROVE  Inv'
<1>1. /\ Run(e, flights, ops) /\ disturbed' = Overlap /\ stale' = FALSE
      /\ hook' = hook /\ form' = form /\ shown' = shown /\ store' = store
      /\ rejected' = rejected
  BY DEF UserGets
<1>2. /\ Flown(flights) /\ latest \in Url /\ IsFiniteSet(ops)
      /\ \A o \in ops : o \in Op /\ Paged(o.c)
      /\ hook \in {"usageLogs", "taskLogs"} => ops = {}
  BY DEF Inv, Typed, UnderWay
<1>3. hook \in AllHooks
  BY TablesAssumption DEF Inv, Typed, OnScreen
<1>4. Effect(table, e) /\ LevelEffect(e) /\ e.gets # {}
  BY DEF Clicked
<1>5. /\ table' = e.t /\ ops' = ops /\ flights' = Send(flights, e.gets)
      /\ Flown(flights') /\ latest' \in Url /\ Paged(table')
      /\ DOMAIN flights' = DOMAIN flights \cup {g[1] : g \in e.gets}
      /\ hook = "deployments" => \A g \in e.gets : latest' = g[1]
      /\ hook = "channels" => \A g \in e.gets : g[1].q = "all" => latest' = g[1]
  BY <1>1, <1>2, <1>4, RunFacts
<1>6. \A g \in e.gets : g[1] \in DOMAIN flights'
  BY <1>5
<1>7. PICK g \in e.gets : TRUE
  BY <1>4
<1>8. Lone' /\ (~disturbed' => Quiet \/ ~disturbed)
  <2>1. IsFiniteSet(DOMAIN flights') /\ IsFiniteSet(ops')
    BY <1>2, <1>5 DEF Flown
  <2>2. QED
    BY <1>1, <2>1, Undisturbed
<1>9. Typed'
  <2>1. Flags'
    <3>1. shared' \in BOOLEAN /\ sizeRace' \in BOOLEAN
      BY <1>1 DEF Run, Inv, Typed, Flags
    <3>2. disturbed' \in BOOLEAN
      BY <1>1 DEF Overlap, Inv, Typed, Flags
    <3>3. QED
      BY <1>1, <3>1, <3>2 DEF Inv, Typed, Flags
  <2>2. form' \in {"", "kw"} /\ store' \subseteq Rows /\ shown' \in Screen
    BY <1>1 DEF Inv, Typed, OnScreen
  <2>3. Typed
    BY DEF Inv
  <2>4. QED
    BY <1>1, <1>2, <1>5, <2>1, <2>2, <2>3, TypedNext
<1>10. Spins'
  <2>1. /\ e.t.loading => table.loading \/ Loads(e.gets)
        /\ e.t.searching => table.searching \/ Seeks(e.gets)
    BY <1>3, <1>4, EffectSpins
  <2>2. (rejected => hook \in Catching) =>
          /\ table.loading => LoadComes(flights, ops, latest)
          /\ table.searching => SearchComes(flights, latest)
    BY DEF Inv, Spins
  <2>3. /\ Loads(e.gets) \/ LoadComes(flights, ops, latest) => LoadComes(flights', ops', latest')
        /\ Seeks(e.gets) \/ SearchComes(flights, latest) => SearchComes(flights', latest')
    BY <1>1, <1>2, <1>3, <1>4, RunSpins
  <2>4. QED
    BY <1>1, <1>5, <2>1, <2>2, <2>3, SpinsNext
<1>11. ASSUME ~disturbed'
       PROVE  ops' = {} /\ \A v \in DOMAIN flights' : v = g[1] /\ Level(e.t, v)
  <2>1. ops' = {} /\ \A v \in DOMAIN flights' : v = g[1]
    BY <1>6, <1>7, <1>8, <1>11 DEF Lone
  <2>2. \A h, k \in e.gets : h[1] = k[1]
    BY <1>6, <2>1
  <2>3. Level(e.t, g[1])
    BY <1>4, <1>7, <2>2 DEF LevelEffect
  <2>4. QED
    BY <2>1, <2>3
<1>12. \A v \in DOMAIN flights' : v \notin DOMAIN flights => ~flights'[v].reply.served
  <2>1. \A v \in DOMAIN flights' : v \notin DOMAIN flights => flights'[v].reply = Unserved
    BY <1>5, SendFacts
  <2>2. ~Unserved.served
    BY DEF Unserved
  <2>3. QED
    BY <2>1, <2>2
<1>13. \A v \in DOMAIN flights : flights'[v].reply = flights[v].reply
  BY <1>5, SendFacts
<1>14. Pager'
  <2> SUFFICES ASSUME ~disturbed', NEW v \in DOMAIN flights'
               PROVE  Coming(v)' /\ ops' = {} /\ DOMAIN flights' # {}
    BY <1>6, <1>7, <1>11 DEF Pager
  <2>1. v = g[1] /\ Level(table', v) /\ ops' = {}
    BY <1>5, <1>11
  <2>2. hook \in {"channels", "deployments"} /\ (hook = "channels" => v.q = "all") => latest' = v
    BY <1>5, <1>7, <2>1
  <2>3. hook \notin SizeReplied => table'.size = v.s
    BY <2>1 DEF Level
  <2>4. hook = "channels" /\ v.q = "all" => ServerPage(v.p) \in {table'.page, 1}
    BY <2>1 DEF Level
  <2>5. Coming(v)'
    BY <1>1, <2>2, <2>3, <2>4 DEF Coming, SizeReplied
  <2>6. QED
    BY <2>1, <2>5
<1>15. Rowed'
  <2> SUFFICES ASSUME ~disturbed', NEW v \in DOMAIN flights', flights'[v].reply.served
               PROVE  flights'[v].reply.rows \subseteq store
    BY <1>1, <1>6, <1>7 DEF Rowed, Answered
  <2>1. v \in DOMAIN flights /\ flights'[v].reply = flights[v].reply
    BY <1>12, <1>13
  <2>2. ~disturbed
    BY <1>8, <2>1 DEF Quiet
  <2>3. QED
    BY <2>1, <2>2 DEF Inv, Rowed, Answered
<1>16. Last'
  <2> SUFFICES ASSUME hook = "deployments"
               PROVE  /\ latest' \in DOMAIN flights'
                      /\ table'.size = latest'.s /\ table'.query = latest'.q
                      /\ ~shared' => ~flights'[latest'].reply.served
    BY <1>1 DEF Last, Answered
  <2>1. latest' = g[1] /\ latest' \in DOMAIN flights'
    BY <1>5, <1>6, <1>7
  <2>2. table'.size = latest'.s /\ table'.query = latest'.q
    BY <1>5, <1>7, <2>1 DEF Clicked
  <2>3. shared' = \E h \in e.gets : h[1] \in DOMAIN flights /\ flights[h[1]].reply.served
    BY <1>1, <1>4 DEF Run
  <2>4. ~shared' => ~flights'[latest'].reply.served
    BY <1>7, <1>12, <1>13, <2>1, <2>3
  <2>5. QED
    BY <2>1, <2>2, <2>4
<1>17. QED
  BY <1>8, <1>9, <1>10, <1>14, <1>15, <1>16 DEF Inv

\* Typing and selecting send nothing and leave the pager alone.
LEMMA TypeKeeps ==
  ASSUME Inv, Type
  PROVE  Inv'
<1>1. /\ form' \in {"", "kw"} /\ UNCHANGED <<hook, table, shown, flights, latest, ops, store>>
      /\ UNCHANGED <<disturbed, rejected, stale, shared, sizeRace>>
  BY DEF Type, history, Inv, Typed, OnScreen
<1>2. Typed'
  BY <1>1 DEF Inv, Typed, UnderWay, OnScreen, Flags, Flown, Paged
<1>3. Spins' /\ Lone'
  BY <1>1 DEF Inv, Spins, Lone, LoadComes, SearchComes
<1>4. Pager'
  BY <1>1 DEF Inv, Pager, Coming, Agrees, Fresh
<1>5. Rowed' /\ Last'
  BY <1>1 DEF Inv, Rowed, Last, Answered
<1>6. QED
  BY <1>2, <1>3, <1>4, <1>5 DEF Inv

\* An operation on a row starts: it has the table as it is in its closure.
LEMMA OperateKeeps ==
  ASSUME Inv, NEW kind \in {"delete", "toggle"}, NEW r \in Rows, Operate(kind, r)
  PROVE  Inv'
<1> DEFINE x == [kind |-> kind, row |-> r, c |-> table, rows |-> shown]
<1>1. /\ UNCHANGED <<hook, form, shown, flights, latest, store, rejected, stale, shared, sizeRace>>
      /\ hook \notin {"usageLogs", "taskLogs"} /\ ops' = ops \cup {x} /\ disturbed' = Overlap
      /\ table' = IF hook \in {"tokens", "users", "redemptions"} THEN Loading(table) ELSE table
  BY DEF Operate
<1>2. /\ Flown(flights) /\ latest \in Url /\ IsFiniteSet(ops)
      /\ \A o \in ops : o \in Op /\ Paged(o.c)
  BY DEF Inv, Typed, UnderWay
<1>3. Paged(table) /\ table \in Table /\ shown \in Screen
  BY DEF Inv, Typed, OnScreen, Paged
<1>4. /\ table' \in Table /\ table'.page = table.page /\ table'.size = table.size
      /\ table'.query = table.query /\ table'.searching = table.searching
  BY <1>1, <1>3, Lights
<1>5. Paged(table')
  BY <1>3, <1>4 DEF Paged
<1>6. x \in Op /\ x.c = table /\ x.rows = shown
  BY <1>3 DEF Op
<1> HIDE DEF x
<1>7. x \in ops' /\ IsFiniteSet(ops') /\ \A o \in ops' : o \in Op /\ Paged(o.c)
  BY <1>1, <1>2, <1>3, <1>6, FS_AddElement
<1>8. Lone' /\ (~disturbed' => ~disturbed)
  <2>1. IsFiniteSet(DOMAIN flights')
    BY <1>1, <1>2 DEF Flown
  <2>2. QED
    BY <1>1, <1>7, <2>1, Undisturbed DEF Quiet
<1>9. Typed'
  <2>1. Flags'
    BY <1>1 DEF Overlap, Inv, Typed, Flags
  <2>2. form' \in {"", "kw"} /\ store' \subseteq Rows /\ shown' \in Screen
    BY <1>1 DEF Inv, Typed, OnScreen
  <2>3. Typed
    BY DEF Inv
  <2>4. QED
    BY <1>1, <1>2, <1>5, <1>7, <2>1, <2>2, <2>3, TypedNext
<1>10. Spins'
  <2>1. (rejected => hook \in Catching) =>
          /\ table.loading => LoadComes(flights, ops, latest)
          /\ table.searching => SearchComes(flights, latest)
    BY DEF Inv, Spins
  <2>2. CASE hook \in {"tokens", "users", "redemptions"}
    <3>1. LoadComes(flights', ops', latest')
      BY <1>7, <2>2 DEF LoadComes, ByQuery
    <3>2. QED
      BY <1>1, <1>4, <2>1, <3>1, SpinsNext
  <2>3. CASE hook \notin {"tokens", "users", "redemptions"}
    <3>1. LoadComes(flights, ops, latest) => LoadComes(flights, ops', latest)
      BY <2>3 DEF LoadComes, ByQuery
    <3>2. table' = table
      BY <1>1, <2>3
    <3>3. QED
      BY <1>1, <2>1, <3>1, <3>2, SpinsNext
  <2>4. QED
    BY <2>2, <2>3
<1>11. ASSUME ~disturbed'
       PROVE  ~disturbed /\ DOMAIN flights' = {} /\ \A o \in ops' : o = x
  BY <1>7, <1>8, <1>11 DEF Lone
<1>12. Pager'
  <2>1. ASSUME ~disturbed', shown.ok PROVE Agrees(table, shown.u)
    BY <1>1, <1>11, <2>1 DEF Inv, Pager
  <2>2. ASSUME ~disturbed', shown'.ok PROVE Agrees(table, shown.u)'
    BY <1>1, <1>4, <2>1, <2>2 DEF Agrees
  <2>3. ASSUME ~disturbed', NEW o \in ops' PROVE Fresh(o)'
    <3>1. o.rows = shown' /\ o.c.size = table'.size /\ o.c.page = table'.page
      BY <1>1, <1>4, <1>6, <1>11, <2>3
    <3>2. QED
      BY <3>1 DEF Fresh
  <2>4. QED
    BY <1>11, <2>2, <2>3 DEF Pager
<1>13. Rowed'
  BY <1>1, <1>11 DEF Inv, Rowed
<1>14. Last'
  <2>1. hook = "deployments" => table' = table
    BY <1>1
  <2>2. QED
    BY <1>1, <2>1 DEF Inv, Last, Answered
<1>15. QED
  BY <1>8, <1>9, <1>10, <1>12, <1>13, <1>14 DEF Inv

-----------------------------------------------------------------------------
(* The steps of the server and the browser. *)

\* The server answers a GET with rows it has.
LEMMA ServeKeeps ==
  ASSUME Inv, NEW u \in DOMAIN flights, Serve(u)
  PROVE  Inv'
<1> DEFINE a == [rows |-> Answer(u), served |-> TRUE]
<1>1. /\ UNCHANGED <<hook, form, table, shown, latest, ops, store>>
      /\ UNCHANGED <<disturbed, rejected, stale, shared, sizeRace>>
      /\ flights' = [flights EXCEPT ![u].reply = a]
  BY DEF Serve, history
<1>2. Flown(flights) /\ store \subseteq Rows
  BY DEF Inv, Typed, UnderWay, OnScreen
<1>3. a.rows \subseteq store /\ a \in [rows : SUBSET Rows, served : BOOLEAN]
  <2>1. Answer(u) \subseteq store
    BY DEF Answer, PageOf
  <2>2. QED
    BY <1>2, <2>1
<1> HIDE DEF a
<1>4. /\ DOMAIN flights' = DOMAIN flights
      /\ \A v \in DOMAIN flights : flights'[v].conts = flights[v].conts
      /\ \A v \in DOMAIN flights : v # u => flights'[v] = flights[v]
      /\ flights'[u].reply = a
  BY <1>1, <1>2 DEF Flown, Flight
<1>5. Flown(flights')
  <2>1. flights' = [v \in DOMAIN flights' |-> flights'[v]]
    BY <1>1
  <2>2. flights[u] \in Flight
    BY <1>2 DEF Flown
  <2>3. flights'[u] \in Flight
    BY <1>1, <1>3, <2>2 DEF Flight
  <2>4. QED
    BY <1>2, <1>4, <2>1, <2>3 DEF Flown
<1>6. Typed'
  <2>1. /\ form' \in {"", "kw"} /\ store' \subseteq Rows /\ shown' \in Screen
        /\ Paged(table') /\ latest' \in Url /\ IsFiniteSet(ops')
        /\ \A o \in ops' : o \in Op /\ Paged(o.c)
        /\ hook \in {"usageLogs", "taskLogs"} => ops' = {}
    BY <1>1 DEF Inv, Typed, OnScreen, UnderWay
  <2>2. Flags' /\ Typed
    BY <1>1 DEF Inv, Typed, Flags
  <2>3. QED
    BY <1>1, <1>5, <2>1, <2>2, TypedNext
<1>7. Spins'
  <2>1. LoadComes(flights, ops, latest) => LoadComes(flights', ops, latest)
    BY <1>4 DEF LoadComes
  <2>2. SearchComes(flights, latest) => SearchComes(flights', latest)
    BY <1>4 DEF SearchComes
  <2>3. QED
    BY <1>1, <2>1, <2>2, SpinsNext DEF Inv, Spins
<1>8. Lone'
  BY <1>1, <1>4 DEF Inv, Lone
<1>9. Pager'
  BY <1>1, <1>4 DEF Inv, Pager, Coming, Agrees, Fresh
<1>10. ASSUME NEW v \in DOMAIN flights, Answered(v) PROVE Answered(v)'
  <2>1. CASE v = u
    BY <1>1, <1>3, <1>4, <2>1 DEF Answered
  <2>2. CASE v # u
    BY <1>1, <1>4, <1>10, <2>2 DEF Answered
  <2>3. QED
    BY <2>1, <2>2
<1>11. Rowed'
  BY <1>1, <1>4, <1>10 DEF Inv, Rowed
<1>12. Last'
  <2>1. latest \in DOMAIN flights /\ Answered(latest) => Answered(latest)'
    <3>1. ASSUME NEW l, l = latest, l \in DOMAIN flights, Answered(l) PROVE Answered(latest)'
      BY <1>1, <1>10, <3>1 DEF Answered
    <3>2. QED
      BY <3>1
  <2>2. QED
    BY <1>1, <1>4, <2>1 DEF Inv, Last
<1>13. QED
  BY <1>6, <1>7, <1>8, <1>9, <1>11, <1>12 DEF Inv

\* A reply to u, good or bad, arrives: types and spinners, and what is then under way.
LEMMA ReplyKeeps ==
  ASSUME Inv, NEW u \in DOMAIN flights, NEW how \in {"ok", "refused", "rejected"},
         NEW e, Replied(u, how, e), Run(e, Landed(u), ops),
         hook' = hook, form' = form, store' = store, stale' = stale, shown' \in Screen,
         disturbed' \in BOOLEAN, rejected' = (rejected \/ how = "rejected")
  PROVE  /\ Typed' /\ Spins' /\ table' = e.t /\ ops' = ops /\ latest' \in Url
         /\ DOMAIN flights' = (DOMAIN flights \ {u}) \cup {g[1] : g \in e.gets}
         /\ \A v \in DOMAIN flights \ {u} : flights'[v].reply = flights[v].reply
         /\ \A v \in DOMAIN flights' : v \notin DOMAIN flights \ {u} => ~flights'[v].reply.served
         /\ e.gets = {} => latest' = latest /\ shared' = shared
         /\ IsFiniteSet(DOMAIN flights') /\ IsFiniteSet(ops')
<1>1. /\ Flown(flights) /\ latest \in Url /\ IsFiniteSet(ops)
      /\ \A o \in ops : o \in Op /\ Paged(o.c)
      /\ hook \in {"usageLogs", "taskLogs"} => ops = {}
  BY DEF Inv, Typed, UnderWay
<1>2. hook \in AllHooks /\ form \in {"", "kw"} /\ store \subseteq Rows
  BY TablesAssumption DEF Inv, Typed, OnScreen
<1>3. Effect(table, e)
  BY DEF Replied
<1>4. /\ Flown(Landed(u)) /\ DOMAIN Landed(u) = DOMAIN flights \ {u}
      /\ \A v \in DOMAIN Landed(u) : Landed(u)[v] = flights[v]
  BY <1>1, LandedFlown
<1>5. /\ table' = e.t /\ ops' = ops /\ flights' = Send(Landed(u), e.gets)
      /\ Flown(flights') /\ latest' \in Url /\ Paged(table')
      /\ DOMAIN flights' = DOMAIN Landed(u) \cup {g[1] : g \in e.gets}
      /\ e.gets = {} => latest' = latest /\ shared' = shared
  BY <1>1, <1>3, <1>4, RunFacts
<1> DEFINE L == Landed(u)
<1>s. /\ \A v \in DOMAIN L : flights'[v].reply = L[v].reply
      /\ \A v \in DOMAIN flights' : v \notin DOMAIN L => flights'[v].reply = Unserved
  <2> HIDE DEF L
  <2>1. flights' = Send(L, e.gets)
    BY <1>5 DEF L
  <2>2. QED
    BY <2>1, SendFacts
<1>6. \A v \in DOMAIN flights \ {u} : flights'[v].reply = flights[v].reply
  BY <1>4, <1>s
<1>7. \A v \in DOMAIN flights' : v \notin DOMAIN flights \ {u} => ~flights'[v].reply.served
  <2>1. ~Unserved.served
    BY DEF Unserved
  <2>2. QED
    BY <1>4, <1>s, <2>1
<1>8. Typed'
  <2>1. Flags'
    <3>1. shared' \in BOOLEAN /\ sizeRace' \in BOOLEAN
      BY DEF Run, Inv, Typed, Flags
    <3>2. QED
      BY <3>1 DEF Inv, Typed, Flags
  <2>2. Typed
    BY DEF Inv
  <2>3. QED
    BY <1>1, <1>2, <1>5, <2>1, <2>2, TypedNext
<1>9. Spins'
  <2> SUFFICES ASSUME rejected' => hook \in Catching
               PROVE  /\ table'.loading => LoadComes(flights', ops', latest')
                      /\ table'.searching => SearchComes(flights', latest')
    BY SpinsNext
  <2>1. /\ e.t.loading => table.loading \/ Loads(e.gets)
        /\ e.t.searching => table.searching \/ Seeks(e.gets)
    BY <1>2, <1>3, EffectSpins
  <2>2. /\ table.loading => LoadComes(flights, ops, latest)
        /\ table.searching => SearchComes(flights, latest)
    BY DEF Inv, Spins
  <2>3. how = "rejected" => hook \in Catching
    OBVIOUS
  <2>4. e.t.loading /\ LoadComes(flights, ops, latest) =>
          Loads(e.gets) \/ LoadComes(Landed(u), ops, latest)
    <3>1. CASE hook \in ByQuery
      <4>1. hook # "channels" /\ hook # "deployments" /\ u.q \in {"all", "kw"}
        BY <1>1, <3>1 DEF ByQuery, Flown, Url
      <4>2. u.q = "all" => (e.t.loading => \E g \in e.gets : g[1].q = "all")
        BY <2>3, <3>1 DEF Replied
      <4>3. QED
        BY <1>4, <3>1, <4>1, <4>2 DEF LoadComes, Loads
    <3>2. CASE hook = "channels"
      <4>1. how # "rejected" /\ hook \notin ByQuery
        BY <2>3, <3>2 DEF Catching, ByQuery
      <4>2. latest = u /\ "load" \in flights[u].conts => ~e.t.loading
        BY <3>2, <4>1 DEF Replied
      <4>3. QED
        BY <1>4, <3>2, <4>1, <4>2 DEF LoadComes
    <3>3. CASE hook = "deployments"
      <4>1. latest = u => ~e.t.loading
        BY <3>3 DEF Replied
      <4>2. QED
        BY <1>4, <3>3, <4>1 DEF LoadComes, ByQuery
    <3>4. CASE hook \in Logs
      BY <2>3, <3>4 DEF Replied, Catching, Logs
    <3>5. QED
      BY <1>2, <3>1, <3>2, <3>3, <3>4 DEF AllHooks, ByQuery, Logs
  <2>5. e.t.searching /\ SearchComes(flights, latest) =>
          Seeks(e.gets) \/ SearchComes(Landed(u), latest)
    <3>1. CASE hook \in ByQuery
      <4>1. u.q = "kw" => ~e.t.searching
        BY <2>3, <3>1 DEF Replied
      <4>2. QED
        BY <1>4, <3>1, <4>1 DEF SearchComes, ByQuery
    <3>2. CASE hook = "channels"
      <4>1. "search" \in flights[u].conts => ~e.t.searching
        BY <3>2 DEF Replied
      <4>2. QED
        BY <1>4, <3>2, <4>1 DEF SearchComes, ByQuery
    <3>3. CASE hook = "deployments"
      <4>1. latest = u => ~e.t.searching
        BY <3>3 DEF Replied
      <4>2. QED
        BY <1>4, <3>3, <4>1 DEF SearchComes, ByQuery
    <3>4. CASE hook \in Logs
      BY <3>4 DEF SearchComes, ByQuery, Logs
    <3>5. QED
      BY <1>2, <3>1, <3>2, <3>3, <3>4 DEF AllHooks, ByQuery, Logs
  <2>6. /\ Loads(e.gets) \/ LoadComes(Landed(u), ops, latest) => LoadComes(flights', ops', latest')
        /\ Seeks(e.gets) \/ SearchComes(Landed(u), latest) => SearchComes(flights', latest')
    BY <1>1, <1>2, <1>3, <1>4, RunSpins
  <2>7. QED
    BY <1>5, <2>1, <2>2, <2>4, <2>5, <2>6
<1>10. IsFiniteSet(DOMAIN flights') /\ IsFiniteSet(ops')
  BY <1>1, <1>5 DEF Flown
<1>11. QED
  BY <1>4, <1>5, <1>6, <1>7, <1>8, <1>9, <1>10

\* A good reply: alone, it brings pager and rows together.
LEMMA DeliverKeeps ==
  ASSUME Inv, NEW u \in DOMAIN flights, Deliver(u)
  PROVE  Inv'
<1> DEFINE e == OnReply(table, u, "ok")
           w == U(u.q, ServerPage(u.p), u.s)
           got == [ok |-> TRUE, rows |-> flights[u].reply.rows, u |-> w]
<1>1. /\ flights[u].reply.served /\ Run(e, Landed(u), ops) /\ disturbed' = Overlap
      /\ shown' = IF Applies(u) THEN got ELSE shown
      /\ UNCHANGED <<hook, form, store, rejected, stale>>
  BY DEF Deliver
<1>2. Replied(u, "ok", e)
  BY ReplyEffect DEF Inv
<1> HIDE DEF e
<1>3. u \in Url /\ flights[u] \in Flight /\ shown \in Screen
  BY DEF Inv, Typed, UnderWay, Flown, OnScreen
<1>4. w \in Url /\ w.p = ServerPage(u.p) /\ w.s = u.s /\ w.q = u.q
  BY <1>3, ServedPage
<1> HIDE DEF w
<1>5. got \in Screen /\ got.u = w /\ got.rows = flights[u].reply.rows /\ got.ok
  BY <1>3, <1>4 DEF Screen, Flight
<1> HIDE DEF got
<1>6. /\ shown' \in Screen /\ disturbed' \in BOOLEAN
      /\ rejected' = (rejected \/ "ok" = "rejected") /\ rejected \in BOOLEAN
  BY <1>1, <1>3, <1>5 DEF Overlap, Inv, Typed, Flags
<1>7. /\ Typed' /\ Spins' /\ table' = e.t /\ ops' = ops
      /\ DOMAIN flights' = (DOMAIN flights \ {u}) \cup {g[1] : g \in e.gets}
      /\ \A v \in DOMAIN flights \ {u} : flights'[v].reply = flights[v].reply
      /\ \A v \in DOMAIN flights' : v \notin DOMAIN flights \ {u} => ~flights'[v].reply.served
      /\ e.gets = {} => latest' = latest /\ shared' = shared
      /\ IsFiniteSet(DOMAIN flights') /\ IsFiniteSet(ops')
  BY <1>1, <1>2, <1>6, ReplyKeeps
<1>8. Lone' /\ (~disturbed' => ~disturbed)
  BY <1>1, <1>7, Undisturbed DEF Quiet
<1>9. ASSUME ~disturbed'
      PROVE  /\ ~disturbed /\ DOMAIN flights = {u} /\ ops' = {} /\ Coming(u)
             /\ flights[u].reply.rows \subseteq store
  BY <1>1, <1>7, <1>8, <1>9 DEF Inv, Lone, Pager, Rowed, Answered
<1>10. ASSUME ~disturbed', e.gets = {}
       PROVE  /\ DOMAIN flights' = {} /\ shown' = got /\ Agrees(e.t, w)
  <2>1. DOMAIN flights' = {}
    BY <1>7, <1>9, <1>10
  <2>2. Applies(u)
    BY <1>3, <1>9, <1>10 DEF Coming, Applies, Url
  <2>3. Agrees(e.t, w)
    BY <1>2, <1>9, <1>10 DEF Replied, w
  <2>4. QED
    BY <1>1, <2>1, <2>2, <2>3
<1>11. e.gets # {} => /\ hook \in {"tokens", "models"}
                     /\ \E g \in e.gets : g[1] \in DOMAIN flights'
  BY <1>2, <1>7 DEF Replied
<1>12. Pager'
  <2>1. ASSUME ~disturbed', DOMAIN flights' = {} PROVE Agrees(table, shown.u)'
    <3>1. shown'.u = w /\ table' = e.t /\ Agrees(e.t, w)
      BY <1>5, <1>7, <1>10, <1>11, <2>1
    <3>2. QED
      BY <1>1, <3>1 DEF Agrees
  <2>2. ASSUME ~disturbed', NEW v \in DOMAIN flights' PROVE Coming(v)'
    <3>1. hook \in {"tokens", "models"}
      BY <1>10, <1>11, <2>2
    <3>2. hook = "models" => table'.size = v.s
      <4>1. PICK g \in e.gets : v = g[1]
        BY <1>7, <1>9, <2>2
      <4>2. hook = "models" => table.size = u.s
        BY <1>9, <2>2 DEF Coming, SizeReplied, Logs
      <4>3. QED
        BY <1>2, <1>7, <4>1, <4>2 DEF Replied
    <3>3. QED
      BY <1>1, <3>1, <3>2 DEF Coming, SizeReplied
  <2>3. QED
    BY <1>9, <2>1, <2>2 DEF Pager
<1>13. Rowed'
  <2>1. ASSUME ~disturbed', DOMAIN flights' = {} PROVE shown'.rows \subseteq store
    BY <1>5, <1>9, <1>10, <1>11, <2>1
  <2>2. ASSUME ~disturbed', NEW v \in DOMAIN flights' PROVE ~flights'[v].reply.served
    BY <1>7, <1>9, <2>2
  <2>3. QED
    BY <1>1, <2>1, <2>2 DEF Rowed, Answered
<1>14. Last'
  <2> SUFFICES ASSUME hook = "deployments" PROVE Last'
    BY <1>1 DEF Last
  <2>1. /\ e.gets = {} /\ DOMAIN flights' = DOMAIN flights \ {u}
        /\ latest' = latest /\ shared' = shared
        /\ table'.size = table.size /\ table'.query = table.query
        /\ latest = u => table'.page = ServerPage(u.p)
        /\ latest # u => table' = table
    BY <1>2, <1>7 DEF Replied
  <2>2. CASE latest = u
    <3>1. shown' = got
      BY <1>1, <2>2 DEF Applies
    <3>2. latest' \notin DOMAIN flights'
      BY <2>1, <2>2
    <3>3. ~stale => table.size = u.s /\ table.query = u.q
      BY <2>2 DEF Inv, Last
    <3>4. ~rejected /\ ~shared => flights[u].reply.rows \subseteq store
      BY <1>1, <2>2 DEF Inv, Last, Answered
    <3>5. QED
      BY <1>1, <1>4, <1>5, <2>1, <2>2, <3>1, <3>2, <3>3, <3>4 DEF Last
  <2>3. CASE latest # u
    <3>1. shown' = shown
      BY <1>1, <2>3 DEF Applies
    <3>2. /\ latest \in DOMAIN flights' <=> latest \in DOMAIN flights
          /\ latest \in DOMAIN flights => flights'[latest].reply = flights[latest].reply
      BY <1>7, <2>1, <2>3
    <3>3. QED
      BY <1>1, <2>1, <2>3, <3>1, <3>2 DEF Inv, Last, Answered
  <2>4. QED
    BY <2>2, <2>3
<1>15. QED
  BY <1>7, <1>8, <1>12, <1>13, <1>14 DEF Inv

\* A GET fails: the table is disturbed, and the deployments empty their rows.
LEMMA FailGetKeeps ==
  ASSUME Inv, NEW u \in DOMAIN flights, NEW how \in {"refused", "rejected"}, FailGet(u, how)
  PROVE  Inv'
<1> DEFINE e == OnReply(table, u, how)
<1>1. /\ Run(e, Landed(u), ops) /\ disturbed' = TRUE
      /\ shown' = IF hook \in {"models", "deployments"} /\ Applies(u) THEN Nothing ELSE shown
      /\ rejected' = (rejected \/ how = "rejected")
      /\ UNCHANGED <<hook, form, store, stale>>
  BY DEF FailGet
<1>2. Replied(u, how, e)
  BY ReplyEffect DEF Inv
<1> HIDE DEF e
<1>3. ~Nothing.ok /\ Nothing \in Screen
  BY Numbers DEF Nothing, Screen, U, Url
<1>4. shown' \in Screen /\ rejected \in BOOLEAN
  BY <1>1, <1>3 DEF Inv, Typed, OnScreen, Flags
<1>5. /\ Typed' /\ Spins' /\ table' = e.t /\ ops' = ops
      /\ DOMAIN flights' = (DOMAIN flights \ {u}) \cup {g[1] : g \in e.gets}
      /\ \A v \in DOMAIN flights \ {u} : flights'[v].reply = flights[v].reply
      /\ e.gets = {} => latest' = latest /\ shared' = shared
  BY <1>1, <1>2, <1>4, ReplyKeeps
<1>6. Lone' /\ Pager' /\ Rowed'
  BY <1>1 DEF Lone, Pager, Rowed
<1>7. Last'
  <2> SUFFICES ASSUME hook = "deployments" PROVE Last'
    BY <1>1 DEF Last
  <2>1. /\ e.gets = {} /\ DOMAIN flights' = DOMAIN flights \ {u}
        /\ latest' = latest /\ shared' = shared
        /\ latest # u => table' = table
    BY <1>2, <1>5 DEF Replied
  <2>2. CASE latest = u
    <3>1. ~shown'.ok /\ latest' \notin DOMAIN flights'
      BY <1>1, <1>3, <2>1, <2>2 DEF Applies
    <3>2. QED
      BY <3>1 DEF Last
  <2>3. CASE latest # u
    <3>1. shown' = shown
      BY <1>1, <2>3 DEF Applies
    <3>2. /\ latest \in DOMAIN flights' <=> latest \in DOMAIN flights
          /\ latest \in DOMAIN flights => flights'[latest].reply = flights[latest].reply
      BY <1>5, <2>1, <2>3
    <3>3. ~rejected' => ~rejected
      BY <1>1
    <3>4. QED
      BY <1>1, <2>1, <2>3, <3>1, <3>2, <3>3 DEF Inv, Last, Answered
  <2>4. QED
    BY <2>2, <2>3
<1>8. QED
  BY <1>5, <1>6, <1>7 DEF Inv

-----------------------------------------------------------------------------
(* Operations on rows come to an end. *)

\* What is done before the refresh touches no more than a spinner.
LEMMA AfterOpFacts ==
  ASSUME Paged(table), NEW how \in {"ok", "refused", "rejected"}
  PROVE  /\ Paged(AfterOp(how)) /\ AfterOp(how).page = table.page
         /\ AfterOp(how).size = table.size /\ AfterOp(how).query = table.query
         /\ Dimmer(table, AfterOp(how))
         /\ hook \in {"tokens", "users", "redemptions"} /\ (how = "rejected" => hook \in Catching)
              => ~AfterOp(how).loading
         /\ hook = "deployments" => AfterOp(how) = table
<1> DEFINE N == [table EXCEPT !.loading = FALSE]
<1>1. table \in Table
  BY DEF Paged
<1>2. /\ N \in Table /\ N.page = table.page /\ N.size = table.size /\ N.query = table.query
      /\ ~N.loading /\ N.searching = table.searching
  BY <1>1 DEF Table
<1>3. AfterOp(how) = IF \/ hook \in {"tokens", "users"} /\ how # "rejected"
                        \/ hook = "redemptions" THEN N ELSE table
  BY DEF AfterOp
<1> HIDE DEF N
<1>4. Paged(N)
  BY <1>2 DEF Paged
<1>5. QED
  BY <1>2, <1>3, <1>4 DEF Dimmer, Catching

\* The handler of an operation and its refresh.
Ended(o, how) ==
  IF ~Refreshes(o, how) THEN Stay(AfterOp(how))
  ELSE IF hook = "models" /\ how = "ok" THEN RefreshModelsTwice(AfterOp(how), o.c)
  ELSE OnRefresh(AfterOp(how), o.c)

\* Types and spinners after an operation, and what is then under way.
LEMMA OpKeeps ==
  ASSUME Inv, NEW o \in ops, NEW how \in {"ok", "refused", "rejected"}, OpRuns(o, how),
         hook' = hook, form' = form, store' \subseteq Rows,
         disturbed' \in BOOLEAN, rejected' = (rejected \/ how = "rejected")
  PROVE  /\ Typed' /\ Spins' /\ table' = Ended(o, how).t /\ ops' = ops \ {o}
         /\ Run(Ended(o, how), flights, ops \ {o}) /\ Effect(AfterOp(how), Ended(o, how))
         /\ IsFiniteSet(DOMAIN flights') /\ IsFiniteSet(ops') /\ hook \in AllHooks \ Logs
         /\ Paged(o.c) /\ o \in Op /\ Paged(table)
         /\ Refreshes(o, how) => Refreshed(AfterOp(how), o.c, Ended(o, how))
         /\ ~Refreshes(o, how) => Ended(o, how).gets = {} /\ Ended(o, how).t = AfterOp(how)
<1> DEFINE T == AfterOp(how)
           e == Ended(o, how)
<1>1. /\ Run(e, flights, ops \ {o})
      /\ stale' = IF e.gets = {} THEN stale
                  ELSE o.c.size # table.size \/ o.c.query # table.query
      /\ shown' = IF how = "ok" /\ hook \in {"tokens", "users", "redemptions", "channels"}
                  THEN o.rows ELSE shown
  BY DEF OpRuns, Ended
<1>2. /\ Flown(flights) /\ latest \in Url /\ IsFiniteSet(ops)
      /\ \A r \in ops : r \in Op /\ Paged(r.c)
      /\ hook \in {"usageLogs", "taskLogs"} => ops = {}
  BY DEF Inv, Typed, UnderWay
<1>3. hook \in AllHooks \ Logs /\ form \in {"", "kw"} /\ Paged(table) /\ shown \in Screen
  BY <1>2, TablesAssumption DEF Inv, Typed, OnScreen, Logs
<1>4. /\ Paged(T) /\ T.page = table.page /\ T.size = table.size
      /\ Dimmer(table, T)
      /\ hook \in {"tokens", "users", "redemptions"} /\ (how = "rejected" => hook \in Catching)
           => ~T.loading
  BY <1>3, AfterOpFacts
<1>5. Paged(o.c) /\ o \in Op /\ o.rows \in Screen
  BY <1>2 DEF Op
<1>6. Refreshes(o, how) => Refreshed(T, o.c, e)
  <2> HIDE DEF T
  <2>1. Refreshed(T, o.c, OnRefresh(T, o.c))
    BY <1>3, <1>4, <1>5, RefreshEffect
  <2>2. hook = "models" => Refreshed(T, o.c, RefreshModelsTwice(T, o.c))
    BY <1>4, <1>5, TwiceEffect
  <2>3. Refreshes(o, how) => e \in {OnRefresh(T, o.c), RefreshModelsTwice(T, o.c)}
                            /\ (e = RefreshModelsTwice(T, o.c) /\ hook # "models"
                                  => e = OnRefresh(T, o.c))
    BY DEF Ended, T
  <2>4. QED
    BY <2>1, <2>2, <2>3
<1>7. Effect(T, Stay(T)) /\ Stay(T).gets = {} /\ Stay(T).t = T
  <2> HIDE DEF T
  <2>1. QED
    BY <1>4, StayEffect
<1>8. Effect(T, e)
  BY <1>6, <1>7 DEF Refreshed, Ended
<1>9. ~Refreshes(o, how) => e.gets = {} /\ e.t = T
  BY <1>7 DEF Ended
<1> HIDE DEF T, e
<1>10. /\ table' = e.t /\ ops' = ops \ {o} /\ flights' = Send(flights, e.gets)
       /\ Flown(flights') /\ latest' \in Url /\ Paged(table')
  BY <1>1, <1>2, <1>8, RunFacts
<1>11. IsFiniteSet(DOMAIN flights') /\ IsFiniteSet(ops')
  BY <1>2, <1>10, FS_Subset DEF Flown
<1>12. Typed'
  <2>1. Flags'
    <3>1. shared' \in BOOLEAN /\ sizeRace' \in BOOLEAN
      BY <1>1 DEF Run, Inv, Typed, Flags
    <3>2. stale' \in BOOLEAN
      BY <1>1 DEF Inv, Typed, Flags
    <3>3. QED
      BY <3>1, <3>2 DEF Inv, Typed, Flags
  <2>2. Typed /\ shown' \in Screen
    BY <1>1, <1>3, <1>5 DEF Inv
  <2>3. \A r \in ops' : r \in Op /\ Paged(r.c)
    BY <1>2, <1>10
  <2>4. hook \in {"usageLogs", "taskLogs"} => ops' = {}
    BY <1>2, <1>10
  <2>5. QED
    BY <1>3, <1>10, <1>11, <2>1, <2>2, <2>3, <2>4, TypedNext
<1>13. Spins'
  <2> SUFFICES ASSUME rejected' => hook \in Catching
               PROVE  /\ table'.loading => LoadComes(flights', ops', latest')
                      /\ table'.searching => SearchComes(flights', latest')
    BY SpinsNext
  <2>1. /\ e.t.loading => T.loading \/ Loads(e.gets)
        /\ e.t.searching => T.searching \/ Seeks(e.gets)
    BY <1>3, <1>8, EffectSpins
  <2>2. /\ table.loading => LoadComes(flights, ops, latest)
        /\ table.searching => SearchComes(flights, latest)
    BY DEF Inv, Spins
  <2>3. T.loading => LoadComes(flights, ops \ {o}, latest)
    <3>1. CASE hook \in {"tokens", "users", "redemptions"}
      BY <1>4, <3>1
    <3>2. CASE hook \notin {"tokens", "users", "redemptions"}
      BY <1>4, <2>2, <3>2 DEF LoadComes, ByQuery, Dimmer
    <3>3. QED
      BY <3>1, <3>2
  <2>4. T.searching => SearchComes(flights, latest)
    BY <1>4, <2>2 DEF Dimmer
  <2>5. /\ Loads(e.gets) \/ LoadComes(flights, ops \ {o}, latest) => LoadComes(flights', ops', latest')
        /\ Seeks(e.gets) \/ SearchComes(flights, latest) => SearchComes(flights', latest')
    BY <1>1, <1>2, <1>3, <1>8, RunSpins
  <2>6. QED
    BY <1>10, <2>1, <2>3, <2>4, <2>5
<1> USE DEF T, e
<1>14. QED
  BY <1>1, <1>3, <1>5, <1>6, <1>8, <1>9, <1>10, <1>11, <1>12, <1>13

\* An operation succeeds.
LEMMA OpDoneKeeps ==
  ASSUME Inv, NEW o \in ops, OpDone(o)
  PROVE  Inv'
<1> DEFINE T == AfterOp("ok")
           e == Ended(o, "ok")
<1>1. /\ OpRuns(o, "ok") /\ disturbed' = Overlap
      /\ store' = IF o.kind = "delete" /\ hook # "users" THEN store \ {o.row} ELSE store
      /\ UNCHANGED <<hook, form, rejected>>
  BY DEF OpDone
<1>2. /\ stale' = IF e.gets = {} THEN stale
                  ELSE o.c.size # table.size \/ o.c.query # table.query
      /\ shown' = IF hook \in {"tokens", "users", "redemptions", "channels"}
                  THEN o.rows ELSE shown
  BY <1>1 DEF OpRuns, Ended
<1>3. /\ store' \subseteq Rows /\ disturbed' \in BOOLEAN
      /\ rejected' = (rejected \/ "ok" = "rejected") /\ Flown(flights) /\ latest \in Url
  BY <1>1 DEF Overlap, Inv, Typed, Flags, OnScreen, UnderWay
<1>4. /\ Typed' /\ Spins' /\ table' = e.t /\ ops' = ops \ {o}
      /\ Run(e, flights, ops \ {o}) /\ Effect(T, e)
      /\ IsFiniteSet(DOMAIN flights') /\ IsFiniteSet(ops') /\ hook \in AllHooks \ Logs
      /\ o \in Op /\ Paged(table)
      /\ Refreshes(o, "ok") => Refreshed(T, o.c, e)
      /\ ~Refreshes(o, "ok") => e.gets = {} /\ e.t = T
  BY <1>1, <1>3, OpKeeps
<1>5. T.page = table.page /\ T.size = table.size /\ (hook = "deployments" => T = table)
  BY <1>4, AfterOpFacts
<1> HIDE DEF T, e
<1>6. /\ flights' = Send(flights, e.gets)
      /\ DOMAIN flights' = DOMAIN flights \cup {g[1] : g \in e.gets}
      /\ hook = "deployments" => \A g \in e.gets : latest' = g[1]
      /\ hook = "channels" => \A g \in e.gets : g[1].q = "all" => latest' = g[1]
  BY <1>3, <1>4, RunFacts
<1>7. Lone' /\ (~disturbed' => ~disturbed)
  BY <1>1, <1>4, Undisturbed DEF Quiet
<1>8. ASSUME ~disturbed'
      PROVE  /\ ~disturbed /\ DOMAIN flights = {} /\ ops' = {} /\ Fresh(o)
             /\ shown.ok => Agrees(table, shown.u) /\ shown.rows \subseteq store
  BY <1>4, <1>7, <1>8 DEF Inv, Lone, Pager, Rowed
<1>9. /\ \A v \in DOMAIN flights' : v \notin DOMAIN flights => ~flights'[v].reply.served
      /\ \A v \in DOMAIN flights : flights'[v].reply = flights[v].reply
  <2>1. /\ \A v \in DOMAIN flights' : v \notin DOMAIN flights => flights'[v].reply = Unserved
        /\ \A v \in DOMAIN flights : flights'[v].reply = flights[v].reply
    BY <1>6, SendFacts
  <2>2. ~Unserved.served
    BY DEF Unserved
  <2>3. QED
    BY <2>1, <2>2
<1>10. ASSUME ~disturbed' PROVE shown' = shown
  BY <1>2, <1>8, <1>10 DEF Fresh
<1>11. ASSUME ~disturbed', DOMAIN flights' = {}
       PROVE  ~Refreshes(o, "ok") /\ table' = T /\ store' = store
  <2>1. e.gets = {}
    BY <1>6, <1>11
  <2>2. ~Refreshes(o, "ok")
    BY <1>4, <2>1 DEF Refreshed
  <2>3. store' = store
    BY <1>1, <1>4, <2>2 DEF Refreshes, AllHooks, Logs
  <2>4. QED
    BY <1>4, <2>2, <2>3
<1>12. Pager'
  <2>1. ASSUME ~disturbed', DOMAIN flights' = {}, shown'.ok PROVE Agrees(table, shown.u)'
    <3>1. shown' = shown /\ Agrees(table, shown.u) /\ table' = T
      BY <1>8, <1>10, <1>11, <2>1
    <3>2. QED
      BY <1>1, <1>5, <3>1 DEF Agrees
  <2>2. ASSUME ~disturbed', NEW v \in DOMAIN flights' PROVE Coming(v)'
    <3>1. PICK g \in e.gets : v = g[1]
      BY <1>6, <1>8, <2>2
    <3>2. \A h, k \in e.gets : h[1] = k[1]
      BY <1>6, <1>7, <2>2 DEF Lone
    <3>3. LevelEffect(e)
      <4>1. Refreshes(o, "ok")
        BY <1>4, <3>1
      <4>2. o.c.size = T.size /\ o.c.page = T.page
        BY <1>5, <1>8, <2>2 DEF Fresh
      <4>3. QED
        BY <1>4, <4>1, <4>2 DEF Refreshed
    <3>4. Level(table', v)
      BY <1>4, <3>1, <3>2, <3>3 DEF LevelEffect
    <3>5. hook \in {"channels", "deployments"} /\ (hook = "channels" => v.q = "all") => latest' = v
      BY <1>6, <3>1
    <3>6. hook \notin SizeReplied => table'.size = v.s
      BY <3>4 DEF Level
    <3>7. hook = "channels" /\ v.q = "all" => ServerPage(v.p) \in {table'.page, 1}
      BY <3>4 DEF Level
    <3>8. QED
      BY <1>1, <3>5, <3>6, <3>7 DEF Coming, SizeReplied
  <2>3. QED
    BY <1>8, <2>1, <2>2 DEF Pager
<1>13. Rowed'
  <2>1. ASSUME ~disturbed', DOMAIN flights' = {}, shown'.ok PROVE shown'.rows \subseteq store'
    BY <1>8, <1>10, <1>11, <2>1
  <2>2. ASSUME ~disturbed', NEW v \in DOMAIN flights' PROVE ~flights'[v].reply.served
    BY <1>8, <1>9, <2>2
  <2>3. QED
    BY <2>1, <2>2 DEF Rowed, Answered
<1>14. Last'
  <2> SUFFICES ASSUME hook = "deployments"
               PROVE  /\ latest' \in DOMAIN flights'
                      /\ ~stale' => table'.size = latest'.s /\ table'.query = latest'.q
                      /\ ~shared' => ~flights'[latest'].reply.served
    BY <1>1 DEF Last, Answered
  <2>1. Refreshed(T, o.c, e)
    BY <1>4 DEF Refreshes
  <2>2. PICK g \in e.gets : TRUE
    BY <2>1 DEF Refreshed
  <2>3. latest' = g[1] /\ latest' \in DOMAIN flights'
    BY <1>6, <2>2
  <2>4. ~stale' => table'.size = latest'.s /\ table'.query = latest'.q
    <3>1. table'.size = table.size /\ table'.query = table.query
      BY <1>4, <1>5, <2>1 DEF Refreshed
    <3>2. latest'.s = o.c.size /\ latest'.q = o.c.query
      BY <2>1, <2>2, <2>3 DEF Refreshed
    <3>3. ~stale' => o.c.size = table.size /\ o.c.query = table.query
      BY <1>2, <2>2
    <3>4. QED
      BY <3>1, <3>2, <3>3
  <2>5. ~shared' => ~flights'[latest'].reply.served
    <3>1. shared' = \E h \in e.gets : h[1] \in DOMAIN flights /\ flights[h[1]].reply.served
      BY <1>4, <2>2 DEF Run
    <3>2. QED
      BY <1>9, <2>2, <2>3, <3>1
  <2>6. QED
    BY <2>3, <2>4, <2>5
<1>15. QED
  BY <1>4, <1>7, <1>12, <1>13, <1>14 DEF Inv

\* An operation fails: the table is disturbed; the deployments do nothing.
LEMMA OpFailsKeeps ==
  ASSUME Inv, NEW o \in ops, NEW how \in {"refused", "rejected"}, OpFails(o, how)
  PROVE  Inv'
<1> DEFINE e == Ended(o, how)
<1>1. /\ OpRuns(o, how) /\ disturbed' = TRUE
      /\ rejected' = (rejected \/ how = "rejected") /\ hook' = hook /\ form' = form
      /\ store' \subseteq store /\ (how # "rejected" => store' = store)
  BY DEF OpFails
<1>2. /\ stale' = IF e.gets = {} THEN stale
                  ELSE o.c.size # table.size \/ o.c.query # table.query
      /\ shown' = shown
  BY <1>1 DEF OpRuns, Ended
<1>3. store' \subseteq Rows /\ Flown(flights) /\ latest \in Url
  BY <1>1 DEF Inv, Typed, OnScreen, UnderWay
<1>4. /\ Typed' /\ Spins' /\ table' = e.t /\ ops' = ops \ {o}
      /\ Run(e, flights, ops \ {o}) /\ Effect(AfterOp(how), e) /\ Paged(table)
      /\ ~Refreshes(o, how) => e.gets = {} /\ e.t = AfterOp(how)
  BY <1>1, <1>3, OpKeeps
<1>5. hook = "deployments" => e.gets = {} /\ table' = table
  BY <1>4, AfterOpFacts DEF Refreshes
<1> HIDE DEF e
<1>6. Lone' /\ Pager' /\ Rowed'
  BY <1>1 DEF Lone, Pager, Rowed
<1>7. Last'
  <2> SUFFICES ASSUME hook = "deployments" PROVE Last'
    BY <1>1 DEF Last
  <2>1. /\ flights' = Send(flights, {}) /\ e.gets = {}
        /\ latest' = latest /\ shared' = shared /\ stale' = stale
    BY <1>2, <1>3, <1>4, <1>5, RunFacts
  <2>2. /\ DOMAIN flights' = DOMAIN flights
        /\ \A v \in DOMAIN flights : flights'[v].reply = flights[v].reply
    <3>1. DOMAIN Send(flights, {}) = DOMAIN flights
      BY DEF Send
    <3>2. \A v \in DOMAIN flights : Send(flights, {})[v].reply = flights[v].reply
      BY SendFacts
    <3>3. QED
      BY <2>1, <3>1, <3>2
  <2>3. ~rejected' => ~rejected /\ store' = store
    BY <1>1
  <2>4. QED
    BY <1>1, <1>2, <1>5, <2>1, <2>2, <2>3 DEF Inv, Last, Answered
<1>8. QED
  BY <1>4, <1>6, <1>7 DEF Inv

-----------------------------------------------------------------------------
(* The invariant holds. *)

\* At the start the first load is under way, alone.
LEMMA InitInv == Init => Inv
<1> SUFFICES ASSUME Init PROVE Inv
  OBVIOUS
<1> DEFINE first == U("all", IF hook = "users" THEN 0 ELSE 1, 1)
           none == [u \in {} |-> Unserved]
           gets == {<<first, "load">>}
<1>1. /\ hook \in Hooks /\ form = "" /\ shown = Nothing /\ ops = {} /\ store = Rows
      /\ table = [page |-> 1, size |-> 1, loading |-> TRUE, searching |-> FALSE,
                  mode |-> FALSE, query |-> "all"]
      /\ flights = Send(none, gets) /\ latest = first
      /\ disturbed = FALSE /\ rejected = FALSE /\ stale = FALSE
      /\ shared = FALSE /\ sizeRace = FALSE
  BY DEF Init
<1>2. first \in Url /\ first.q = "all" /\ first.s = 1 /\ ServerPage(first.p) = 1
  <2>1. (IF hook = "users" THEN 0 ELSE 1) \in 0..MaxPage /\ 1 \in Sizes
    BY Numbers
  <2>2. QED
    BY <2>1, Urls DEF ServerPage
<1> HIDE DEF first
<1>3. ~Nothing.ok /\ Nothing \in Screen
  BY Numbers DEF Nothing, Screen, U, Url
<1>4. Flown(none) /\ DOMAIN none = {}
  BY FS_EmptySet DEF Flown
<1>5. /\ IsFiniteSet(gets)
      /\ \A g \in gets : g = <<first, "load">> /\ g[1] \in Url /\ g[2] \in {"load", "search", "again"}
  <2>1. IsFiniteSet(gets)
    BY FS_Singleton
  <2>2. QED
    BY <1>2, <2>1
<1> HIDE DEF none
<1>6. Flown(flights) /\ DOMAIN flights = {first}
  <2>1. Flown(flights)
    BY <1>1, <1>4, <1>5, SendFlown
  <2>2. DOMAIN flights = DOMAIN none \cup {g[1] : g \in gets}
    BY <1>1, SendFacts
  <2>3. QED
    BY <1>4, <2>1, <2>2
<1>7. "load" \in flights[first].conts /\ ~flights[first].reply.served
  <2>1. <<first, "load">>[2] \in Send(none, gets)[<<first, "load">>[1]].conts
    BY SendFacts
  <2>2. flights[first].reply = Unserved
    BY <1>1, <1>4, <1>6, SendFacts
  <2>3. ~Unserved.served
    BY DEF Unserved
  <2>4. "load" \in flights[first].conts
    BY <1>1, <2>1
  <2>5. QED
    BY <2>2, <2>3, <2>4
<1> HIDE DEF gets
<1>8. Paged(table)
  <2>1. table.page = 1
    BY <1>1
  <2>2. table \in Table
    BY <1>1, Numbers DEF Table
  <2>3. QED
    BY <2>1, <2>2 DEF Paged
<1>9. Typed
  BY <1>1, <1>2, <1>3, <1>6, <1>8, FS_EmptySet DEF Typed, UnderWay, OnScreen, Flags
<1>10. LoadComes(flights, ops, latest)
  BY <1>1, <1>2, <1>6, <1>7 DEF LoadComes
<1>11. Spins
  BY <1>1, <1>10 DEF Spins
<1>12. Lone
  BY <1>1, <1>6 DEF Lone
<1>13. Pager
  <2>1. Coming(first)
    BY <1>1, <1>2 DEF Coming
  <2>2. QED
    BY <1>1, <1>6, <2>1 DEF Pager
<1>14. Rowed /\ Last
  BY <1>1, <1>2, <1>6, <1>7 DEF Rowed, Last, Answered
<1>15. QED
  BY <1>9, <1>11, <1>12, <1>13, <1>14 DEF Inv

\* Every step keeps it.
LEMMA NextInv == Inv /\ [Next]_vars => Inv'
<1> SUFFICES ASSUME Inv, [Next]_vars PROVE Inv'
  OBVIOUS
<1>c. ASSUME NEW p \in 1..MaxPage, NEW s \in Sizes
      PROVE  /\ Clicked(table, OnPage(table, p)) /\ Clicked(table, OnSize(table, s))
             /\ Clicked(table, OnSearch(table))
             /\ hook = "channels" => Clicked(table, RefreshChannels(table, 0, table.size))
  BY ClickEffect DEF Inv
<1>d. 1 \in Sizes /\ 1 \in 1..MaxPage
  BY TablesAssumption DEF Sizes
<1>1. ASSUME NEW p \in 1..MaxPage, GoToPage(p) PROVE Inv'
  BY <1>1, <1>c, <1>d, ClickKeeps DEF GoToPage
<1>2. ASSUME NEW s \in Sizes, ChangeSize(s) PROVE Inv'
  BY <1>2, <1>c, <1>d, ClickKeeps DEF ChangeSize
<1>3. CASE Search
  BY <1>3, <1>c, <1>d, ClickKeeps DEF Search
<1>4. CASE ChannelsRefresh
  BY <1>4, <1>c, <1>d, ClickKeeps DEF ChannelsRefresh
<1>5. CASE Type
  BY <1>5, TypeKeeps
<1>7. ASSUME NEW r \in Rows, NEW kind \in {"delete", "toggle"}, Operate(kind, r) PROVE Inv'
  BY <1>7, OperateKeeps
<1>8. ASSUME NEW u \in DOMAIN flights, Serve(u) PROVE Inv'
  BY <1>8, ServeKeeps
<1>9. ASSUME NEW u \in DOMAIN flights, Deliver(u) PROVE Inv'
  BY <1>9, DeliverKeeps
<1>10. ASSUME NEW u \in DOMAIN flights, NEW how \in {"refused", "rejected"}, FailGet(u, how)
       PROVE  Inv'
  BY <1>10, FailGetKeeps
<1>11. ASSUME NEW o \in ops, OpDone(o) PROVE Inv'
  BY <1>11, OpDoneKeeps
<1>12. ASSUME NEW o \in ops, NEW how \in {"refused", "rejected"}, OpFails(o, how) PROVE Inv'
  BY <1>12, OpFailsKeeps
<1>13. CASE UNCHANGED vars
  <2>1. /\ UNCHANGED <<hook, form, table, shown, flights, latest, ops, store>>
        /\ UNCHANGED <<disturbed, rejected, stale, shared, sizeRace>>
    BY <1>13 DEF vars, history
  <2>2. Typed'
    BY <2>1 DEF Inv, Typed, UnderWay, OnScreen, Flags, Flown, Paged
  <2>3. Spins' /\ Lone'
    BY <2>1 DEF Inv, Spins, Lone, LoadComes, SearchComes
  <2>4. Pager'
    BY <2>1 DEF Inv, Pager, Coming, Agrees, Fresh
  <2>5. Rowed' /\ Last'
    BY <2>1 DEF Inv, Rowed, Last, Answered
  <2>6. QED
    BY <2>2, <2>3, <2>4, <2>5 DEF Inv
<1>14. QED
  BY <1>1, <1>2, <1>3, <1>4, <1>5, <1>7, <1>8, <1>9, <1>10, <1>11, <1>12, <1>13 DEF Next

\* The invariant holds throughout.
LEMMA Invariant == Spec => []Inv
<1>1. Init => Inv
  BY InitInv
<1>2. Inv /\ [Next]_vars => Inv'
  BY NextInv
<1>3. QED
  BY <1>1, <1>2, PTL DEF Spec

\* The variables of every table have their types, and only the pager of the channels
\* can stand on page 0.
THEOREM TypeCorrect == Spec => []TypeOK
<1>1. Inv => TypeOK
  <2> SUFFICES ASSUME Inv PROVE TypeOK
    OBVIOUS
  <2>1. /\ hook \in Hooks /\ form \in {"", "kw"} /\ store \subseteq Rows
        /\ table \in Table /\ (hook # "channels" => table.page > 0) /\ shown \in Screen
    BY DEF Inv, Typed, OnScreen, Paged
  <2>2. /\ DOMAIN flights \subseteq Url /\ latest \in Url
        /\ \A u \in DOMAIN flights : flights[u].conts \subseteq {"load", "search", "again"}
                                     /\ flights[u].conts # {}
    BY DEF Inv, Typed, UnderWay, Flown, Flight
  <2>3. QED
    BY <2>1, <2>2 DEF TypeOK, Table, Screen, Inv, Typed, Flags
<1>2. QED
  BY <1>1, Invariant, PTL

\* Once a request has run alone and all is quiet, page and page size on the pager are
\* those of the rows on the screen.
THEOREM PagerFollows == Spec => []PagerAgrees
<1>1. Inv => PagerAgrees
  BY DEF Inv, Pager, PagerAgrees, Agrees, Quiet
<1>2. QED
  BY <1>1, Invariant, PTL

\* The last request of the deployments wins through any overlap and any failure.
THEOREM LastRequestWins == Spec => []LatestWins
<1>1. Inv => LatestWins
  BY DEF Inv, Last, LatestWins, Quiet
<1>2. QED
  BY <1>1, Invariant, PTL

\* No spinner stays on when nothing is under way.
THEOREM SpinnersStop == Spec => []SpinnersEnd
<1>1. Inv => SpinnersEnd
  <2> SUFFICES ASSUME Inv, Quiet, rejected => hook \in Catching
               PROVE  ~table.loading /\ ~table.searching
    BY DEF SpinnersEnd, Catching
  <2>1. ~LoadComes(flights, ops, latest) /\ ~SearchComes(flights, latest)
    BY DEF LoadComes, SearchComes, Quiet
  <2>2. QED
    BY <2>1 DEF Inv, Spins
<1>2. QED
  BY <1>1, Invariant, PTL

\* A row deleted on the page is gone from the screen when all is quiet.
THEOREM DeletedRowsLeave == Spec => []DeletedRowGone
<1>1. Inv => DeletedRowGone
  BY DEF Inv, Rowed, Last, DeletedRowGone, Quiet
<1>2. QED
  BY <1>1, Invariant, PTL
=============================================================================
