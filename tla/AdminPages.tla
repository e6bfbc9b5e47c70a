----------------------------- MODULE AdminPages -----------------------------
(***************************************************************************)
(* The administration pages in one browser tab: users, categories,         *)
(* challenges with their form, and settings.                               *)
(*                                                                         *)
(* All follow one pattern.  A page loads its table when it is opened; a    *)
(* button or a modal sends a change; when the answer comes the handler     *)
(* clears its flags and loads the table again.  The table of the page, the *)
(* flag of a button and the modal that is open by then need not be those   *)
(* the request was sent from.                                              *)
(*                                                                         *)
(* The pages of different tables have nothing in common but the settings   *)
(* the sidebar shows, so a behaviour stays with one table.  Rows are       *)
(* watched rows of it: other users' rows, all on the first page of users.  *)
(* What a row holds is one of two values: a role, a setting, or what a     *)
(* category or a challenge was at first and what it was edited to.         *)
(* is_premium is in no list of users, so its toggle always grants; it has  *)
(* no value here.                                                          *)
(***************************************************************************)
EXTENDS Naturals

CONSTANTS
  Rows,      \* the watched rows of the table
  Keys,      \* those that are the settings there are
  Nothing,   \* no row
  Fetches,   \* bound: how many requests are on the way at a time
  Errands    \* bound: what is done in one behaviour, as sets of activities

Activities == {"toggle", "premium", "page", "modal", "edit", "jump", "elsewhere"}

ASSUME ConstantsAssumption ==
  /\ Nothing \notin Rows
  /\ Keys \subseteq Rows
  /\ Errands \subseteq SUBSET Activities

VARIABLES
  ui,       \* the page and the state of its component
  calls,    \* calls[f]: the request on its way in fetch f
  stored,   \* the rows of the server's table
  sidebar,  \* the settings as SettingsContext has them
  asked,    \* history: what a toggle of the row last asked for
  stale     \* history: what may be out of date, and why is known

vars == <<ui, calls, stored, sidebar, asked, stale>>

\* What a row is on the server: not there yet, a value, deleted.
Unborn == 0
Values == 1 .. 2
Edited == 2
Gone == 3

\* Variant: deleted rows are listed.
ShownAll(t) == t

\* A table on a page shows 0 for what it does not list.
Shown(t) == [r \in Rows |-> IF t[r] \in Values THEN t[r] ELSE 0]
Empty == [r \in Rows |-> 0]
Tables == [Rows -> {0} \cup Values]

Pages == {"users", "categories", "challenges", "form", "settings"}
Table(p) == IF p = "form" THEN "challenges" ELSE p

Optional == Rows \cup {Nothing}

\* target: deleteTarget or pwTarget; editing: editTarget, or the form's :id;
\* open: formOpen; typed: the user a password was typed for; slot, premium:
\* roleLoading or saving, premiumLoading; busy: deleteLoading or pwLoading,
\* and formLoading; errand: what this behaviour does.
Ui == [page : Pages, no : 1 .. 2, loading : BOOLEAN, table : Tables,
       target : Optional, editing : Optional, open : BOOLEAN, typed : Optional,
       slot : Optional, premium : Optional, busy : SUBSET {"modal", "form"},
       errand : SUBSET Activities]

Fresh(p, r, errand) ==
  [page |-> p, no |-> 1, loading |-> p # "form" \/ r # Nothing,
   table |-> Empty, target |-> Nothing, editing |-> r, open |-> FALSE, typed |-> Nothing,
   slot |-> Nothing, premium |-> Nothing, busy |-> {}, errand |-> errand]

Toggles == {"users", "settings"}
Changes == {"set", "create", "delete", "premium", "password"}

Call == [kind : {"list", "get", "public"} \cup Changes, row : Optional, value : {0} \cup Values,
         from : Optional, no : 1 .. 2, here : BOOLEAN, snap : Tables,
         reply : {"pending", "found", "ok", "fail"}]

NoCall == [kind |-> "none", row |-> Nothing, value |-> 0, from |-> Nothing, no |-> 1,
           here |-> FALSE, snap |-> Empty, reply |-> "none"]

Request(kind, r, v, from) ==
  [NoCall EXCEPT !.kind = kind, !.row = r, !.value = v, !.from = from, !.no = ui.no,
                 !.here = TRUE, !.reply = "pending"]

List(no) ==
  [NoCall EXCEPT !.kind = "list", !.no = no, !.here = TRUE, !.reply = "pending"]

Get(r) == [NoCall EXCEPT !.kind = "get", !.row = r, !.here = TRUE, !.reply = "pending"]

Public == [NoCall EXCEPT !.kind = "public", !.here = TRUE, !.reply = "pending"]

TypeOK ==
  /\ ui \in Ui
  /\ calls \in [Fetches -> Call \cup {NoCall}]
  /\ stored \in [Rows -> {Unborn, Gone} \cup Values]
  /\ sidebar \in Tables
  /\ asked \in Tables
  /\ stale \subseteq {"table", "sidebar"}

-----------------------------------------------------------------------------
(* Opening pages.                                                          *)

\* The handlers that do something though their page has been left: the
\* form's goes to the list, the settings' reloads the sidebar.
Lasting(c) == Table(ui.page) \in {"challenges", "settings"} /\ c.kind \in {"set", "create"}

\* The component is unmounted: requests that change nothing come to nothing.
Left(c) ==
  IF c.kind = "public" \/ (c.kind \in Changes /\ (c.reply \in {"pending", "found"} \/ Lasting(c)))
  THEN [c EXCEPT !.here = c.kind = "public"]
  ELSE NoCall

Changing == {f \in Fetches : calls[f].kind \in Changes /\ calls[f].reply \in {"pending", "found"}}

\* What the effect of a page asks for.
First(p, r) == IF p = "form" THEN (IF r = Nothing THEN NoCall ELSE Get(r)) ELSE List(1)

\* A page is mounted, its effect sends the request f.
Mount(p, r, f) ==
  /\ ui' = Fresh(p, r, ui.errand)
  /\ calls' = [g \in Fetches |-> IF g = f THEN First(p, r) ELSE Left(calls[g])]
  /\ asked' = Empty
  /\ stale' = (stale \ {"table"}) \cup (IF Changing \ {f} = {} THEN {} ELSE {"table"})

Visit(f, p, r) ==
  /\ calls[f] = NoCall
  /\ Table(p) = Table(ui.page)
  /\ IF p = "form" THEN "edit" \in ui.errand ELSE r = Nothing
  /\ Mount(p, r, f)
  /\ UNCHANGED <<stored, sidebar>>

\* History leads from one form straight to another: the same component,
\* of which only the effect on id takes notice.
Jump(f, r) ==
  /\ "jump" \in ui.errand
  /\ ui.page = "form" /\ r # ui.editing
  /\ calls[f] = NoCall
  /\ ui' = [ui EXCEPT !.editing = r]
  /\ calls' = [calls EXCEPT ![f] = First("form", r)]
  /\ UNCHANGED <<stored, sidebar, asked, stale>>

-----------------------------------------------------------------------------
(* The pages.                                                              *)

Listing == {f \in Fetches : calls[f].kind = "list" /\ calls[f].here}

\* An open modal covers the page.
Uncovered == ui.target = Nothing /\ ~ui.open

InTable(r) == ~ui.loading /\ Uncovered /\ ui.table[r] \in Values

Send(f, c) ==
  /\ calls[f] = NoCall
  /\ calls' = [calls EXCEPT ![f] = c]

Step(u) == ui' = u /\ UNCHANGED <<stored, sidebar>>

\* Variant: the button is not disabled.
MayToggleAgain(r) == ui.page \in Toggles /\ InTable(r)

MayToggle(r) == ui.page \in Toggles /\ InTable(r) /\ ui.slot # r

\* What is asked for is known while no other row's toggle is on the way.
Asks(r, v) ==
  LET ours == {f \in Fetches : calls[f].kind = "set"}
  IN IF /\ \A f \in ours : calls[f].row = r
        /\ ours # {} => asked[r] # 0
     THEN [asked EXCEPT ![r] = v] ELSE Empty

\* Two changes of one setting: the page shows the one answered last.
Crossing(r) ==
  IF ui.page = "settings" /\ \E f \in Fetches : calls[f].kind = "set" /\ calls[f].row = r
  THEN {"table"} ELSE {}

\* handleRoleToggle and the toggle of a setting.
Toggle(f, r) ==
  LET v == 3 - ui.table[r]
  IN /\ "toggle" \in ui.errand /\ MayToggle(r)
     /\ Send(f, Request("set", r, v, Nothing))
     /\ Step([ui EXCEPT !.slot = r])
     /\ asked' = Asks(r, v)
     /\ stale' = stale \cup Crossing(r)

PremiumToggle(f, r) ==
  /\ "premium" \in ui.errand
  /\ ui.page = "users" /\ InTable(r) /\ ui.premium # r
  /\ Send(f, Request("premium", r, 0, Nothing))
  /\ Step([ui EXCEPT !.premium = r])
  /\ UNCHANGED <<asked, stale>>

\* load(p) on the new page number; a handler on the way has the old one.
SetPage(f, n) ==
  /\ "page" \in ui.errand
  /\ ui.page = "users" /\ ~ui.loading /\ Uncovered /\ n # ui.no
  /\ Send(f, List(n))
  /\ Step([ui EXCEPT !.no = n, !.loading = TRUE])
  /\ stale' = IF Changing = {} THEN stale ELSE stale \cup {"table"}
  /\ UNCHANGED asked

\* Variant: the fields are left as they are.
OpenedAsLeft(r) == [ui EXCEPT !.target = r]

Opened(r) == [ui EXCEPT !.target = r, !.typed = Nothing]

\* openPwReset, and the trash icon of the other tables.
OpenModal(r) ==
  /\ "modal" \in ui.errand
  /\ ui.page \in {"users", "categories", "challenges"} /\ InTable(r)
  /\ Step(Opened(r))
  /\ UNCHANGED <<calls, asked, stale>>

TypePassword ==
  /\ ui.page = "users" /\ ui.target # Nothing /\ ui.typed = Nothing
  /\ Step([ui EXCEPT !.typed = ui.target])
  /\ UNCHANGED <<calls, asked, stale>>

\* openCreate and openEdit.
OpenForm(r) ==
  /\ "edit" \in ui.errand
  /\ ui.page = "categories" /\ Uncovered
  /\ r # Nothing => InTable(r)
  /\ Step([ui EXCEPT !.open = TRUE, !.editing = r])
  /\ UNCHANGED <<calls, asked, stale>>

\* A modal can be left while its request is on the way, but for its Cancel.
CloseModal ==
  /\ \/ ui.target # Nothing /\ Step([ui EXCEPT !.target = Nothing])
     \/ ui.open /\ Step([ui EXCEPT !.open = FALSE])
  /\ UNCHANGED <<calls, asked, stale>>

\* Variant: the confirmation is not disabled.
MayConfirmAgain == ui.target # Nothing /\ (ui.page = "users" => ui.typed # Nothing)

MayConfirm ==
  /\ ui.target # Nothing /\ (ui.page = "users" => ui.typed # Nothing)
  /\ "modal" \notin ui.busy

\* handlePwReset and handleDelete.
Confirm(f) ==
  /\ MayConfirm
  /\ Send(f, Request(IF ui.page = "users" THEN "password" ELSE "delete",
                     ui.target, 0, ui.typed))
  /\ Step([ui EXCEPT !.busy = @ \cup {"modal"}])
  /\ UNCHANGED <<asked, stale>>

\* handleSubmit of a category and of a challenge.
Submit(f) ==
  /\ \/ ui.page = "categories" /\ ui.open
     \/ ui.page = "form" /\ ~ui.loading
  /\ "form" \notin ui.busy
  /\ Send(f, Request(IF ui.editing = Nothing THEN "create" ELSE "set",
                     ui.editing, Edited, Nothing))
  /\ Step([ui EXCEPT !.busy = @ \cup {"form"}])
  /\ UNCHANGED <<asked, stale>>

-----------------------------------------------------------------------------
(* The server.                                                             *)

Asked(f, kinds) == calls[f].kind \in kinds /\ calls[f].reply = "pending"

Answered(f, c) ==
  calls' = [calls EXCEPT ![f] = IF @.here \/ Lasting(@) THEN c ELSE NoCall]

Reply(f, r) == Answered(f, [calls[f] EXCEPT !.reply = r])

\* An error, or a request lost before it has an effect.
Refuse(f) ==
  /\ calls[f].reply = "pending"
  /\ Reply(f, "fail")
  /\ stale' = stale \cup (CASE calls[f].kind = "list" -> {"table"}
                            [] calls[f].kind = "public" -> {"sidebar"}
                            [] OTHER -> {})
  /\ UNCHANGED <<ui, stored, sidebar, asked>>

\* None of the rows is on the second page.
Read(c) == IF c.kind = "get" \/ c.no = 2 THEN Empty ELSE Shown(stored)

\* A challenge whose look-up fails is answered as an empty one.
ServeRead(f) ==
  /\ Asked(f, {"list", "get", "public"})
  /\ Answered(f, [calls[f] EXCEPT !.reply = "ok", !.snap = Read(calls[f])])
  /\ UNCHANGED <<ui, stored, sidebar, asked, stale>>

\* Variant: the row is not looked for.
FoundAnyway(r) == TRUE

Found(r) == stored[r] \in Values

\* Update and SetRole look for the row ...
Find(f) ==
  /\ ui.page # "settings" /\ Asked(f, {"set"}) /\ Found(calls[f].row)
  /\ calls' = [calls EXCEPT ![f].reply = "found"]
  /\ UNCHANGED <<ui, stored, sidebar, asked, stale>>

\* A change is made; its answer may be lost.
MadeTo(f, t) ==
  /\ stored' = t
  /\ \/ Reply(f, "ok") /\ UNCHANGED stale
     \/ Reply(f, "fail") /\ stale' = stale \cup {"table", "sidebar"}
  /\ UNCHANGED <<ui, sidebar>>

Make(f, t) == MadeTo(f, t) /\ UNCHANGED asked

\* ... and save all of it, which inserts it again when it is deleted by now.
\* A setting is put without looking.
Save(f) ==
  /\ calls[f].reply = "found" \/ (ui.page = "settings" /\ Asked(f, {"set"}))
  /\ Make(f, [stored EXCEPT ![calls[f].row] = calls[f].value])

\* A row is made of what was sent, one that is watched or another.
WithNewRow(v) ==
  {stored} \cup {[stored EXCEPT ![r] = v] : r \in {s \in Rows : stored[s] = Unborn}}

\* A look-up that fails leaves an empty row, which is saved as a new one
\* unless an index refuses it; the row asked for stays as it is.
SaveEmpty(f) ==
  /\ ui.page # "settings" /\ Asked(f, {"set"})
  /\ \E t \in WithNewRow(calls[f].value) : MadeTo(f, t)
  /\ asked' = [asked EXCEPT ![calls[f].row] = 0]

Create(f) ==
  /\ Asked(f, {"create"})
  /\ \E t \in WithNewRow(calls[f].value) : Make(f, t)

Delete(f) ==
  /\ Asked(f, {"delete"})
  /\ Make(f, [stored EXCEPT ![calls[f].row] = Gone])

\* What no list shows.
Hidden(f) == Asked(f, {"premium", "password"}) /\ Make(f, stored)

Serve(f) ==
  \/ Refuse(f) \/ ServeRead(f) \/ Find(f) \/ Save(f) \/ SaveEmpty(f)
  \/ Create(f) \/ Delete(f) \/ Hidden(f)

\* Another administrator.
Elsewhere(r) ==
  /\ "elsewhere" \in ui.errand
  /\ \/ stored[r] \in {Unborn} \cup Values /\ \E v \in Values \ {stored[r]} :
          stored' = [stored EXCEPT ![r] = v]
     \/ /\ ui.page \notin Toggles /\ stored[r] \in Values
        /\ stored' = [stored EXCEPT ![r] = Gone]
  /\ ui.page \in Toggles => stored[r] \in Values
  /\ asked' = [asked EXCEPT ![r] = 0]
  /\ stale' = {"table", "sidebar"}
  /\ UNCHANGED <<ui, calls, sidebar>>

-----------------------------------------------------------------------------
(* The rest of a handler, with the answer.                                 *)

Got(f, kinds, r) == calls[f].kind \in kinds /\ calls[f].reply = r

Done(f) == calls' = [calls EXCEPT ![f] = NoCall]

\* Every setting is on where nothing is known of it.
Default == [r \in Rows |-> IF r \in Keys THEN 2 ELSE 0]

Listed(f) ==
  /\ Got(f, {"list"}, "ok")
  /\ Step([ui EXCEPT !.table = calls[f].snap, !.loading = FALSE])
  /\ Done(f)
  /\ UNCHANGED <<asked, stale>>

\* The settings page shows the defaults, the others what they have.
AfterFailure(u) ==
  [u EXCEPT !.loading = FALSE, !.table = IF u.page = "settings" THEN Default ELSE @]

ListFailed(f) ==
  /\ Got(f, {"list"}, "fail")
  /\ Step(AfterFailure(ui))
  /\ Done(f)
  /\ UNCHANGED <<asked, stale>>

\* The form is shown, with the challenge or as it is.
FormLoaded(f) ==
  /\ calls[f].kind = "get" /\ calls[f].reply \in {"ok", "fail"}
  /\ Step([ui EXCEPT !.loading = FALSE])
  /\ Done(f)
  /\ UNCHANGED <<asked, stale>>

SidebarLoaded(f) ==
  /\ calls[f].kind = "public" /\ calls[f].reply \in {"ok", "fail"}
  /\ sidebar' = IF calls[f].reply = "ok" THEN calls[f].snap ELSE Default
  /\ Done(f)
  /\ UNCHANGED <<ui, stored, asked, stale>>

\* Variant: the slot is freed when the change was made.
ClearedWhenOk(u, c) ==
  CASE c.kind = "premium" -> [u EXCEPT !.premium = Nothing]
    [] c.kind = "set" /\ u.page \in Toggles ->
         [u EXCEPT !.slot = IF c.reply = "ok" THEN Nothing ELSE @]
    [] c.kind \in {"delete", "password"} -> [u EXCEPT !.busy = @ \ {"modal"}]
    [] OTHER -> [u EXCEPT !.busy = @ \ {"form"}]

\* finally: one slot for all rows of the table.
Cleared(u, c) ==
  CASE c.kind = "premium" -> [u EXCEPT !.premium = Nothing]
    [] c.kind = "set" /\ u.page \in Toggles -> [u EXCEPT !.slot = Nothing]
    [] c.kind \in {"delete", "password"} -> [u EXCEPT !.busy = @ \ {"modal"}]
    [] OTHER -> [u EXCEPT !.busy = @ \ {"form"}]

\* The modal that is open now is closed.
Closed(u, c) ==
  CASE c.kind \in {"delete", "password"} -> [u EXCEPT !.target = Nothing]
    [] c.kind \in {"set", "create"} -> [u EXCEPT !.open = FALSE]
    [] OTHER -> u

\* load(page), with the page the button was rendered on.
Reload(f) ==
  /\ Step([Cleared(Closed(ui, calls[f]), calls[f]) EXCEPT !.loading = TRUE])
  /\ calls' = [calls EXCEPT ![f] = List(calls[f].no)]
  /\ stale' = IF Listing # {} \/ calls[f].no # ui.no THEN stale \cup {"table"} ELSE stale
  /\ UNCHANGED asked

Changed(f) ==
  /\ Got(f, Changes \ {"password"}, "ok")
  /\ ui.page \in {"users", "categories"} \/ Got(f, {"delete"}, "ok")
  /\ Reload(f)

PasswordSet(f) ==
  /\ Got(f, {"password"}, "ok")
  /\ Step(Cleared(Closed(ui, calls[f]), calls[f]))
  /\ Done(f)
  /\ UNCHANGED <<asked, stale>>

\* Variant: the sidebar is left to the next time the site is loaded.
NoReload == NoCall

\* reload() of SettingsContext.
ReloadSidebar == Public

\* The row is changed on the page, and the sidebar loaded again.
SettingSaved(f) ==
  /\ ui.page = "settings" /\ Got(f, {"set"}, "ok")
  /\ IF calls[f].here
     THEN Step([Cleared(ui, calls[f]) EXCEPT !.table[calls[f].row] = calls[f].value])
     ELSE Step(ui)
  /\ calls' = [calls EXCEPT ![f] = ReloadSidebar]
  /\ stale' = IF \E g \in Fetches : calls[g].kind = "public"
              THEN stale \cup {"sidebar"} ELSE stale
  /\ UNCHANGED asked

\* navigate('/admin/challenges'), from whichever form is open by now.
FormSaved(f) ==
  /\ Table(ui.page) = "challenges" /\ Got(f, {"set", "create"}, "ok")
  /\ IF ui.page = "form" THEN Mount("challenges", Nothing, f)
     ELSE Done(f) /\ UNCHANGED <<ui, asked, stale>>
  /\ UNCHANGED <<stored, sidebar>>

Failed(f) ==
  /\ Got(f, Changes, "fail")
  /\ IF calls[f].here THEN Step(Cleared(ui, calls[f])) ELSE Step(ui)
  /\ asked' = IF calls[f].kind = "set" THEN [asked EXCEPT ![calls[f].row] = 0] ELSE asked
  /\ Done(f)
  /\ UNCHANGED stale

Deliver(f) ==
  \/ Listed(f) \/ ListFailed(f) \/ FormLoaded(f) \/ SidebarLoaded(f)
  \/ Changed(f) \/ PasswordSet(f) \/ SettingSaved(f) \/ FormSaved(f) \/ Failed(f)

-----------------------------------------------------------------------------
\* A table as it can be: users and settings are there, other rows may not be.
StoredOn(p) ==
  CASE p = "users" -> [Rows -> Values]
    [] p = "settings" -> {t \in [Rows -> {Unborn} \cup Values] :
                            \A r \in Rows : r \in Keys <=> t[r] \in Values}
    [] OTHER -> [Rows -> {Unborn, 1}]

\* The page is opened with the site, which asks for the settings as well.
Init ==
  \E p \in Toggles \cup {"categories", "challenges"}, errand \in Errands :
    /\ ui = Fresh(p, Nothing, errand)
    /\ stored \in StoredOn(p)
    /\ sidebar = IF p = "settings" THEN Default ELSE Empty
    /\ \E f, g \in Fetches :
         /\ f # g
         /\ calls = [h \in Fetches |-> CASE h = f -> List(1)
                                         [] h = g /\ p = "settings" -> Public
                                         [] OTHER -> NoCall]
    /\ asked = Empty
    /\ stale = {}

Next ==
  \/ TypePassword \/ CloseModal
  \/ \E r \in Rows : OpenModal(r) \/ Elsewhere(r)
  \/ \E r \in Optional : OpenForm(r)
  \/ \E f \in Fetches :
       \/ \E p \in Pages, r \in Optional : Visit(f, p, r)
       \/ \E r \in Optional : Jump(f, r)
       \/ \E r \in Rows : Toggle(f, r) \/ PremiumToggle(f, r)
       \/ \E n \in 1 .. 2 : SetPage(f, n)
       \/ Confirm(f) \/ Submit(f)
       \/ Serve(f)
       \/ Deliver(f)

Spec == Init /\ [][Next]_vars

\* A request ends, and its handler goes on.
FairSpec == Spec /\ \A f \in Fetches : WF_vars(Serve(f) \/ Deliver(f))

-----------------------------------------------------------------------------
(* Properties.                                                             *)

\* A password is set for the user it was typed for, whichever modals were
\* opened and closed, with requests on the way or not.
PasswordIsOfTarget ==
  \A f \in Fetches : calls[f].kind = "password" => calls[f].from = calls[f].row

\* When the toggles of a row have been answered, the server has what the last
\* of them asked for, unless another row was toggled meanwhile or the server
\* could not look the row up.
AskedIsStored ==
  \A r \in Rows :
    /\ asked[r] # 0
    /\ \A f \in Fetches : calls[f].kind = "set" /\ calls[f].row = r => calls[f].reply = "ok"
    => stored[r] = asked[r]

\* One modal's request, and one form's, at a time; its flag is set as long.
OneRequestPerModal ==
  \A k \in {"modal", "form"} :
    LET ours == {f \in Fetches :
                   /\ calls[f].here
                   /\ calls[f].kind \in IF k = "modal" THEN {"delete", "password"}
                                        ELSE {"set", "create"}}
    IN /\ ui.page \notin Toggles \/ k = "modal" => (k \in ui.busy <=> ours # {})
       /\ ui.page \notin Toggles \/ k = "modal" => \A f, g \in ours : f = g

\* A page that shows it is loading has its request on the way.
LoadingIsBacked ==
  ui.loading => \E f \in Fetches : calls[f].kind \in {"list", "get"} /\ calls[f].here

\* What a page shows as under way is: its one request, or its one load.
BusyIsBacked == OneRequestPerModal /\ LoadingIsBacked

\* When nothing is on the way the table is the server's, unless loads, or two
\* changes of one setting, have overlapped, a load has failed, an answer was
\* lost after its effect, the page was left or turned during a change, or
\* someone else has changed it.
QuietTableIsCurrent ==
  /\ ui.page # "form" /\ "table" \notin stale
  /\ \A f \in Fetches : calls[f].kind \in {"none", "public"}
  => ui.table = IF ui.no = 1 THEN Shown(stored) ELSE Empty

\* The sidebar follows the settings, with the same exceptions.
QuietSidebarIsCurrent ==
  /\ ui.page = "settings" /\ "sidebar" \notin stale
  /\ \A f \in Fetches : calls[f].kind \in {"none", "list"}
  => sidebar = Shown(stored)

\* What an undisturbed page shows is what the server has.
QuietPageIsCurrent == QuietTableIsCurrent /\ QuietSidebarIsCurrent

\* What was deleted stays so, unless an update had found it before.
Buried(r) ==
  /\ stored[r] = Gone
  /\ \A f \in Fetches : ~(calls[f].row = r /\ calls[f].reply = "found")

GoneForGood == [][\A r \in Rows : Buried(r) => Buried(r)']_vars

\* The slot that disables a row's button is free again some time, whichever
\* rows' toggles are on the way.
SlotIsFreed == ui.slot # Nothing ~> ui.slot = Nothing

\* A button is disabled for a request on its way: the row a slot names is one
\* whose own change is, though other rows share the slot.
UnderWay(kind, r) ==
  \E f \in Fetches : calls[f].kind = kind /\ calls[f].row = r /\ calls[f].here

SlotsAreBacked ==
  /\ ui.slot # Nothing => ui.page \in Toggles /\ UnderWay("set", ui.slot)
  /\ ui.premium # Nothing => UnderWay("premium", ui.premium)

-----------------------------------------------------------------------------
(* Inductive invariants.                                                   *)

\* Which requests can be on their way on page p, and which answers are heard.
Fits(p, c) ==
  /\ c.kind \in {"list", "get"} => c.here
  /\ c.kind = "get" => p = "form"
  /\ c.kind \in {"delete", "create"} => p \notin Toggles
  /\ c.kind \in {"set", "create"} /\ c.here /\ Table(p) = "challenges" => p = "form"
  /\ c.reply \in {"ok", "fail"} /\ ~c.here =>
       Table(p) \in {"challenges", "settings"} /\ c.kind \in {"set", "create"}
  /\ c.reply = "found" => c.kind = "set"
  /\ c.kind = "set" => c.value # 0

PageInv ==
  /\ \A f \in Fetches : Fits(ui.page, calls[f])
  /\ ui.target # Nothing => ui.page \in {"users", "categories", "challenges"}
  /\ ui.page \in Toggles => \A r \in Rows : stored[r] # Gone
  /\ ui.page = "users" => \A r \in Rows : stored[r] # Unborn

PasswordInv ==
  /\ PasswordIsOfTarget
  /\ ui.page = "users" => ui.target = Nothing \/ ui.typed \in {Nothing, ui.target}

\* While it is known what was last asked of a row, its one request asks that.
RowInv(r) ==
  LET ours == {f \in Fetches : calls[f].kind = "set"}
  IN /\ asked[r] # 0 => ui.page \in Toggles
     /\ \A f \in ours : asked[r] # 0 /\ calls[f].row = r =>
          /\ calls[f].here /\ calls[f].value = asked[r] /\ ui.slot = r
          /\ ours = {f}
     /\ asked[r] # 0 /\ (\A f \in ours : calls[f].row = r => calls[f].reply = "ok")
        => stored[r] = asked[r]

AskedInv == \A r \in Rows : RowInv(r)

\* A change made whose answer is on its way to the page it was made on; a
\* change of a page that was left, and not made yet; a saved setting.
Made(c) == c.kind \in {"set", "create", "delete"} /\ c.here /\ c.reply = "ok"
Away(c) == c.kind \in Changes /\ ~c.here /\ c.reply \in {"pending", "found"}
Saved(c) == c.kind = "set" /\ c.reply = "ok"

Loaded(kind) == \A f \in Fetches : calls[f].kind # kind

\* What the page would be sent now.
Current == IF ui.no = 1 THEN Shown(stored) ELSE Empty

Watched == ui.page # "form" /\ "table" \notin stale

\* One load at a time, of the page that is open, after all changes of others.
LoadInv ==
  Watched => \A f \in Fetches :
    /\ ~Away(calls[f])
    /\ calls[f].kind = "list" =>
         /\ ui.loading /\ calls[f].no = ui.no /\ calls[f].reply # "fail"
         /\ \A g \in Fetches : calls[g].kind = "list" => g = f

\* What is shown, or answered to a load, is current, or will be loaded again.
TableInv ==
  Watched /\ ui.page # "settings" =>
    \/ \E f \in Fetches : Made(calls[f])
    \/ /\ \A f \in Fetches :
            calls[f].kind = "list" /\ calls[f].reply = "ok" => calls[f].snap = Current
       /\ Loaded("list") => ui.table = Current

\* A change of a setting that the page waits for.
OnPage(c) == c.kind = "set" /\ c.here

\* Settings are not loaded again but changed on the page, one request a row.
SettingInv ==
  Watched /\ ui.page = "settings" =>
    /\ ui.no = 1
    /\ \A f \in Fetches :
         /\ calls[f].kind = "list" /\ calls[f].reply = "ok" => calls[f].snap = Shown(stored)
         /\ OnPage(calls[f]) =>
              /\ Loaded("list")
              /\ \A g \in Fetches : OnPage(calls[g]) /\ calls[g].row = calls[f].row => g = f
         /\ Made(calls[f]) => \A r \in Rows : calls[f].row = r => calls[f].value = stored[r]
    /\ Loaded("list") => \A r \in Rows :
         \/ ui.table[r] = Shown(stored)[r]
         \/ \E f \in Fetches : Made(calls[f]) /\ calls[f].row = r

SidebarInv ==
  ui.page = "settings" /\ "sidebar" \notin stale =>
    /\ \A f \in Fetches : calls[f].kind = "public" =>
         /\ calls[f].here /\ calls[f].no = 1 /\ calls[f].reply # "fail"
         /\ \A g \in Fetches : calls[g].kind = "public" => g = f
    /\ \/ \E f \in Fetches : Saved(calls[f])
       \/ /\ \A f \in Fetches :
               calls[f].kind = "public" /\ calls[f].reply = "ok" => calls[f].snap = Shown(stored)
          /\ Loaded("public") => sidebar = Shown(stored)

=============================================================================
