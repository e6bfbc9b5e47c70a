--------------------------- MODULE AdminPages_proofs ---------------------------
(***************************************************************************)
(* Proofs about AdminPages, for any rows and any number of requests on the *)
(* way.                                                                    *)
(***************************************************************************)
EXTENDS AdminPages, TLAPS

USE ConstantsAssumption

-----------------------------------------------------------------------------
(* Types.                                                                  *)

LEMMA LiveCall ==
  ASSUME TypeOK, NEW f \in Fetches,
         calls[f].kind # "none" \/ calls[f].reply # "none"
  PROVE  calls[f] \in Call
BY DEF TypeOK, NoCall

LEMMA EmptyTyped == Empty \in Tables /\ Default \in Tables
BY DEF Empty, Default, Tables, Values

LEMMA ShownTyped ==
  ASSUME NEW t, NEW r \in Rows
  PROVE  Shown(t) \in Tables /\ Shown(t)[r] = IF t[r] \in Values THEN t[r] ELSE 0
BY DEF Shown, Tables

LEMMA RequestTyped ==
  ASSUME TypeOK, NEW kind \in Changes, NEW r \in Optional, NEW v \in {0} \cup Values,
         NEW from \in Optional
  PROVE  LET c == Request(kind, r, v, from)
         IN /\ c \in Call
            /\ c.kind = kind /\ c.row = r /\ c.value = v /\ c.from = from
            /\ c.here /\ c.reply = "pending" /\ c.no = ui.no
BY EmptyTyped DEF TypeOK, Ui, Request, Call, NoCall

\* What the forms send.
LEMMA SubmitTyped ==
  ASSUME TypeOK, NEW kind \in {"create", "set"}
  PROVE  LET c == Request(kind, ui.editing, Edited, Nothing)
         IN c \in Call /\ c.kind = kind /\ c.here /\ c.reply = "pending" /\ c.value # 0
<1>1. kind \in Changes /\ ui.editing \in Optional /\ Nothing \in Optional
  BY DEF TypeOK, Ui, Changes, Optional
<1>2. Edited \in {0} \cup Values /\ Edited # 0
  BY DEF Edited, Values
<1>3. QED BY <1>1, <1>2, RequestTyped

LEMMA ReadTyped ==
  /\ \A n \in 1 .. 2 :
       /\ List(n) \in Call
       /\ List(n).kind = "list" /\ List(n).here /\ List(n).reply = "pending" /\ List(n).no = n
       /\ List(n).row = Nothing
  /\ \A r \in Rows :
       /\ Get(r) \in Call
       /\ Get(r).kind = "get" /\ Get(r).here /\ Get(r).reply = "pending" /\ Get(r).row = r
  /\ Public \in Call /\ Public.kind = "public" /\ Public.here /\ Public.reply = "pending"
<1>1. ASSUME NEW n \in 1 .. 2
      PROVE  /\ List(n) \in Call
             /\ List(n).kind = "list" /\ List(n).here /\ List(n).reply = "pending"
             /\ List(n).no = n /\ List(n).row = Nothing
  BY EmptyTyped DEF List, Call, NoCall, Optional
<1>2. PICK one \in 1 .. 2 :
        NoCall = [kind |-> "none", row |-> Nothing, value |-> 0, from |-> Nothing, no |-> one,
                  here |-> FALSE, snap |-> Empty, reply |-> "none"]
  BY DEF NoCall
<1>3. ASSUME NEW r \in Rows
      PROVE  /\ Get(r) \in Call
             /\ Get(r).kind = "get" /\ Get(r).here /\ Get(r).reply = "pending"
             /\ Get(r).row = r
  BY <1>2, EmptyTyped DEF Get, Call, Optional
<1>4. Public \in Call /\ Public.kind = "public" /\ Public.here /\ Public.reply = "pending"
  BY <1>2, EmptyTyped DEF Public, Call, Optional
<1>5. QED BY <1>1, <1>3, <1>4

LEMMA FreshTyped ==
  ASSUME NEW p \in Pages, NEW r \in Optional, NEW e \in SUBSET Activities
  PROVE  Fresh(p, r, e) \in Ui
BY EmptyTyped DEF Fresh, Ui, Optional

LEMMA FirstTyped ==
  ASSUME NEW p \in Pages, NEW r \in Optional
  PROVE  /\ First(p, r) \in Call \cup {NoCall}
         /\ First(p, r).kind \in {"none", "list", "get"}
         /\ First(p, r).reply \in {"none", "pending"}
         /\ First(p, r).kind # "none" => First(p, r).here
         /\ First(p, r).kind = "get" => p = "form" /\ First(p, r).row = r
         /\ First(p, r).kind = "none" => First(p, r) = NoCall /\ p = "form" /\ r = Nothing
<1>1. CASE p # "form"
  BY <1>1, ReadTyped DEF First
<1>2. CASE p = "form" /\ r = Nothing
  BY <1>2 DEF First, NoCall
<1>3. CASE p = "form" /\ r # Nothing
  BY <1>3, ReadTyped DEF First, Optional
<1>4. QED BY <1>1, <1>2, <1>3

\* What becomes of a request when its page is left.
LEMMA LeftTyped ==
  ASSUME TypeOK, NEW f \in Fetches
  PROVE  /\ Left(calls[f]) \in Call \cup {NoCall}
         /\ \/ Left(calls[f]) = NoCall
            \/ /\ calls[f] \in Call /\ calls[f].kind \in Changes \cup {"public"}
               /\ Left(calls[f]).kind = calls[f].kind /\ Left(calls[f]).row = calls[f].row
               /\ Left(calls[f]).value = calls[f].value
               /\ Left(calls[f]).reply = calls[f].reply /\ Left(calls[f]).from = calls[f].from
               /\ Left(calls[f]).here <=> calls[f].kind = "public"
               /\ \/ calls[f].kind = "public" \/ calls[f].reply \in {"pending", "found"}
                  \/ Lasting(calls[f])
<1>1. CASE \/ calls[f].kind = "public"
           \/ /\ calls[f].kind \in Changes
              /\ calls[f].reply \in {"pending", "found"} \/ Lasting(calls[f])
  <2>1. calls[f] \in Call
    BY <1>1, LiveCall DEF Changes
  <2>2. Left(calls[f]) = [calls[f] EXCEPT !.here = (calls[f].kind = "public")]
    BY <1>1 DEF Left
  <2>3. QED BY <1>1, <2>1, <2>2 DEF Call
<1>2. CASE ~ \/ calls[f].kind = "public"
             \/ /\ calls[f].kind \in Changes
                /\ calls[f].reply \in {"pending", "found"} \/ Lasting(calls[f])
  BY <1>2 DEF Left
<1>3. QED BY <1>1, <1>2

LEMMA MountTyped ==
  ASSUME TypeOK, NEW f \in Fetches, NEW p \in Pages, NEW r \in Optional, Mount(p, r, f)
  PROVE  /\ ui' \in Ui /\ calls' \in [Fetches -> Call \cup {NoCall}]
         /\ asked' \in Tables /\ stale' \subseteq {"table", "sidebar"}
<1>1. ui.errand \in SUBSET Activities
  BY DEF TypeOK, Ui
<1>2. ui' \in Ui
  BY <1>1, FreshTyped DEF Mount
<1>3. \A g \in Fetches : calls'[g] \in Call \cup {NoCall}
  BY FirstTyped, LeftTyped DEF Mount
<1>4. QED BY <1>2, <1>3, EmptyTyped DEF Mount, TypeOK

\* What an answer makes of its request.
LEMMA AnsweredTyped ==
  ASSUME TypeOK, NEW f \in Fetches, calls[f].kind # "none",
         NEW r \in {"ok", "fail"}, NEW s \in Tables,
         \/ Answered(f, [calls[f] EXCEPT !.reply = r])
         \/ Answered(f, [calls[f] EXCEPT !.reply = r, !.snap = s])
  PROVE  /\ calls' \in [Fetches -> Call \cup {NoCall}]
         /\ \A g \in Fetches \ {f} : calls'[g] = calls[g]
         /\ \/ ~calls[f].here /\ ~Lasting(calls[f]) /\ calls'[f] = NoCall
            \/ /\ calls[f].here \/ Lasting(calls[f])
               /\ calls'[f].kind = calls[f].kind /\ calls'[f].row = calls[f].row
               /\ calls'[f].value = calls[f].value /\ calls'[f].from = calls[f].from
               /\ calls'[f].here = calls[f].here /\ calls'[f].reply = r
               /\ calls'[f].no = calls[f].no
<1>1. calls[f] \in Call
  BY LiveCall
<1>2. CASE calls[f].here \/ Lasting(calls[f])
  <2>1. PICK c : /\ calls' = [calls EXCEPT ![f] = c]
                 /\ \/ c = [calls[f] EXCEPT !.reply = r]
                    \/ c = [calls[f] EXCEPT !.reply = r, !.snap = s]
    BY <1>2 DEF Answered
  <2>2. /\ c \in Call /\ c.reply = r
        /\ c.kind = calls[f].kind /\ c.row = calls[f].row /\ c.value = calls[f].value
        /\ c.from = calls[f].from /\ c.here = calls[f].here /\ c.no = calls[f].no
    BY <1>1, <2>1 DEF Call
  <2>3. calls'[f] = c /\ \A g \in Fetches \ {f} : calls'[g] = calls[g]
    BY <2>1 DEF TypeOK
  <2>4. calls' \in [Fetches -> Call \cup {NoCall}]
    BY <2>1, <2>2 DEF TypeOK
  <2>5. QED BY <1>2, <2>2, <2>3, <2>4
<1>3. CASE ~calls[f].here /\ ~Lasting(calls[f])
  <2>1. calls' = [calls EXCEPT ![f] = NoCall]
    BY <1>3 DEF Answered
  <2>2. QED BY <1>3, <2>1 DEF TypeOK
<1>4. QED BY <1>2, <1>3

LEMMA MakeTyped ==
  ASSUME TypeOK, NEW f \in Fetches, calls[f].kind # "none", NEW t, MadeTo(f, t)
  PROVE  /\ calls' \in [Fetches -> Call \cup {NoCall}]
         /\ stored' = t /\ UNCHANGED <<ui, sidebar>> /\ stale' \subseteq {"table", "sidebar"}
         /\ \A g \in Fetches \ {f} : calls'[g] = calls[g]
         /\ \/ ~calls[f].here /\ ~Lasting(calls[f]) /\ calls'[f] = NoCall
            \/ /\ calls[f].here \/ Lasting(calls[f])
               /\ calls'[f].kind = calls[f].kind /\ calls'[f].row = calls[f].row
               /\ calls'[f].value = calls[f].value /\ calls'[f].from = calls[f].from
               /\ calls'[f].here = calls[f].here /\ calls'[f].reply \in {"ok", "fail"}
               /\ calls'[f].no = calls[f].no
<1>1. PICK r \in {"ok", "fail"} : Answered(f, [calls[f] EXCEPT !.reply = r])
  BY DEF MadeTo, Reply
<1>2. QED BY <1>1, AnsweredTyped, EmptyTyped DEF MadeTo, TypeOK

LEMMA SendTyped ==
  ASSUME TypeOK, NEW f \in Fetches, NEW c \in Call, Send(f, c)
  PROVE  /\ calls' \in [Fetches -> Call \cup {NoCall}] /\ calls'[f] = c /\ calls[f] = NoCall
         /\ \A g \in Fetches \ {f} : calls'[g] = calls[g]
BY DEF Send, TypeOK

LEMMA DoneTyped ==
  ASSUME TypeOK, NEW f \in Fetches, Done(f)
  PROVE  /\ calls' \in [Fetches -> Call \cup {NoCall}] /\ calls'[f] = NoCall
         /\ \A g \in Fetches \ {f} : calls'[g] = calls[g]
BY DEF Done, TypeOK

LEMMA TypeInit == Init => TypeOK
<1>1. SUFFICES ASSUME Init PROVE TypeOK
  OBVIOUS
<1>2. PICK p \in Toggles \cup {"categories", "challenges"}, errand \in Errands :
        /\ ui = Fresh(p, Nothing, errand)
        /\ stored \in StoredOn(p)
        /\ sidebar = IF p = "settings" THEN Default ELSE Empty
        /\ \E f, g \in Fetches :
             /\ f # g
             /\ calls = [h \in Fetches |-> CASE h = f -> List(1)
                                             [] h = g /\ p = "settings" -> Public
                                             [] OTHER -> NoCall]
        /\ asked = Empty
        /\ stale = {}
  BY <1>1 DEF Init
<1>3. ui \in Ui
  BY <1>2, FreshTyped DEF Toggles, Pages, Optional
<1>4. calls \in [Fetches -> Call \cup {NoCall}]
  BY <1>2, ReadTyped
<1>5. stored \in [Rows -> {Unborn, Gone} \cup Values]
  BY <1>2 DEF StoredOn, Values, Unborn, Gone
<1>6. QED BY <1>2, <1>3, <1>4, <1>5, EmptyTyped DEF TypeOK

LEMMA VisitTyped ==
  ASSUME TypeOK, NEW f \in Fetches, NEW p \in Pages, NEW r \in Optional, Visit(f, p, r)
  PROVE  TypeOK'
BY MountTyped DEF Visit, TypeOK

LEMMA JumpTyped ==
  ASSUME TypeOK, NEW f \in Fetches, NEW r \in Optional, Jump(f, r)
  PROVE  TypeOK'
<1>1. First("form", r) \in Call \cup {NoCall}
  BY FirstTyped DEF Pages
<1>2. ui' \in Ui
  BY DEF Jump, TypeOK, Ui
<1>3. QED BY <1>1, <1>2 DEF Jump, TypeOK

LEMMA AskedTyped ==
  ASSUME TypeOK, NEW r \in Rows, NEW v \in {0} \cup Values
  PROVE  Asks(r, v) \in Tables
BY EmptyTyped DEF Asks, TypeOK, Tables

LEMMA ClicksTyped ==
  ASSUME TypeOK, NEW f \in Fetches
  PROVE  /\ \A r \in Rows : Toggle(f, r) \/ PremiumToggle(f, r) => TypeOK'
         /\ \A n \in 1 .. 2 : SetPage(f, n) => TypeOK'
         /\ Confirm(f) \/ Submit(f) => TypeOK'
<1>1. ASSUME NEW r \in Rows, Toggle(f, r) PROVE TypeOK'
  <2>1. 3 - ui.table[r] \in Values
    BY <1>1 DEF Toggle, MayToggle, InTable, Values
  <2>2. Request("set", r, 3 - ui.table[r], Nothing) \in Call
    <3>1. "set" \in Changes /\ r \in Optional /\ Nothing \in Optional
      BY DEF Optional, Changes
    <3>2. QED BY <2>1, <3>1, RequestTyped
  <2>3. calls' \in [Fetches -> Call \cup {NoCall}]
    BY <1>1, <2>2, SendTyped DEF Toggle
  <2>4. ui' \in Ui
    BY <1>1 DEF Toggle, Step, TypeOK, Ui, Optional
  <2>5. asked' \in Tables
    BY <1>1, <2>1, AskedTyped DEF Toggle
  <2>6. stale' \subseteq {"table", "sidebar"}
    BY <1>1 DEF Toggle, Crossing, TypeOK
  <2>7. QED BY <1>1, <2>3, <2>4, <2>5, <2>6 DEF Toggle, Step, TypeOK
<1>2. ASSUME NEW r \in Rows, PremiumToggle(f, r) PROVE TypeOK'
  <2>1. Request("premium", r, 0, Nothing) \in Call
    BY RequestTyped DEF Optional, Changes
  <2>2. calls' \in [Fetches -> Call \cup {NoCall}]
    BY <1>2, <2>1, SendTyped DEF PremiumToggle
  <2>3. ui' \in Ui
    BY <1>2 DEF PremiumToggle, Step, TypeOK, Ui, Optional
  <2>4. QED BY <1>2, <2>2, <2>3 DEF PremiumToggle, Step, TypeOK
<1>3. ASSUME NEW n \in 1 .. 2, SetPage(f, n) PROVE TypeOK'
  <2>1. calls' \in [Fetches -> Call \cup {NoCall}]
    BY <1>3, ReadTyped, SendTyped DEF SetPage
  <2>2. ui' \in Ui
    BY <1>3 DEF SetPage, Step, TypeOK, Ui
  <2>3. stale' \subseteq {"table", "sidebar"}
    BY <1>3 DEF SetPage, TypeOK
  <2>4. QED BY <1>3, <2>1, <2>2, <2>3 DEF SetPage, Step, TypeOK
<1>4. ui.target \in Optional /\ ui.typed \in Optional /\ ui.editing \in Optional
  BY DEF TypeOK, Ui
<1>5. ASSUME Confirm(f) PROVE TypeOK'
  <2>1. Request(IF ui.page = "users" THEN "password" ELSE "delete", ui.target, 0, ui.typed) \in Call
    BY <1>4, RequestTyped DEF Changes
  <2>2. calls' \in [Fetches -> Call \cup {NoCall}]
    BY <1>5, <2>1, SendTyped DEF Confirm
  <2>3. ui' \in Ui
    BY <1>5 DEF Confirm, Step, TypeOK, Ui
  <2>4. QED BY <1>5, <2>2, <2>3 DEF Confirm, Step, TypeOK
<1>6. ASSUME Submit(f) PROVE TypeOK'
  <2>1. Request(IF ui.editing = Nothing THEN "create" ELSE "set", ui.editing, Edited, Nothing) \in Call
    BY SubmitTyped
  <2>2. calls' \in [Fetches -> Call \cup {NoCall}]
    BY <1>6, <2>1, SendTyped DEF Submit
  <2>3. ui' \in Ui
    BY <1>6 DEF Submit, Step, TypeOK, Ui
  <2>4. QED BY <1>6, <2>2, <2>3 DEF Submit, Step, TypeOK
<1>7. QED BY <1>1, <1>2, <1>3, <1>5, <1>6

LEMMA ModalsTyped ==
  ASSUME TypeOK
  PROVE  /\ TypePassword \/ CloseModal => TypeOK'
         /\ \A r \in Rows : OpenModal(r) \/ Elsewhere(r) => TypeOK'
         /\ \A r \in Optional : OpenForm(r) => TypeOK'
<1>1. ASSUME TypePassword \/ CloseModal PROVE TypeOK'
  <2>1. CASE TypePassword
    BY <2>1, SMTT(30) DEF TypePassword, Step, TypeOK, Ui, Optional
  <2>2. CASE CloseModal
    <3>1. ui' \in Ui
      <4>1. ui \in Ui /\ ui' \in {[ui EXCEPT !.target = Nothing], [ui EXCEPT !.open = FALSE]}
        BY <2>2 DEF CloseModal, Step, TypeOK
      <4>2. [ui EXCEPT !.target = Nothing] \in Ui /\ [ui EXCEPT !.open = FALSE] \in Ui
        BY <4>1 DEF Ui, Optional
      <4>3. QED BY <4>1, <4>2
    <3>2. QED BY <2>2, <3>1 DEF CloseModal, Step, TypeOK
  <2>3. QED BY <1>1, <2>1, <2>2
<1>2. ASSUME NEW r \in Rows, OpenModal(r) PROVE TypeOK'
  BY <1>2 DEF OpenModal, Opened, Step, TypeOK, Ui, Optional
<1>3. ASSUME NEW r \in Rows, Elsewhere(r) PROVE TypeOK'
  BY <1>3 DEF Elsewhere, TypeOK, Tables
<1>4. ASSUME NEW r \in Optional, OpenForm(r) PROVE TypeOK'
  BY <1>4 DEF OpenForm, Step, TypeOK, Ui
<1>5. QED BY <1>1, <1>2, <1>3, <1>4

LEMMA ServeTyped ==
  ASSUME TypeOK, NEW f \in Fetches, Serve(f)
  PROVE  TypeOK'
<1>1. calls[f].kind # "none"
  BY DEF Serve, Refuse, ServeRead, Find, Save, SaveEmpty, Create, Delete, Hidden, Asked, Changes,
         TypeOK, NoCall, Call
<1>2. calls[f] \in Call
  BY <1>1, LiveCall
<1>3. CASE Refuse(f)
  <2>1. calls' \in [Fetches -> Call \cup {NoCall}]
    BY <1>1, <1>3, AnsweredTyped, EmptyTyped DEF Refuse, Reply
  <2>2. QED BY <1>3, <2>1 DEF Refuse, TypeOK
<1>4. CASE ServeRead(f)
  <2>1. Read(calls[f]) \in Tables
    BY EmptyTyped DEF Read, Shown, Tables
  <2>2. calls' \in [Fetches -> Call \cup {NoCall}]
    BY <1>1, <1>4, <2>1, AnsweredTyped DEF ServeRead
  <2>3. QED BY <1>4, <2>2 DEF ServeRead, TypeOK
<1>5. CASE Find(f)
  <2>1. [calls[f] EXCEPT !.reply = "found"] \in Call
    BY <1>2 DEF Call
  <2>2. QED BY <1>5, <2>1 DEF Find, TypeOK
<1>6. ASSUME NEW t \in [Rows -> {Unborn, Gone} \cup Values], MadeTo(f, t),
             asked' \in Tables
      PROVE  TypeOK'
  BY <1>1, <1>6, MakeTyped DEF TypeOK
<1>7. CASE Save(f)
  <2>1. calls[f].value \in {0} \cup Values
    BY <1>2 DEF Call
  <2>2. [stored EXCEPT ![calls[f].row] = calls[f].value] \in [Rows -> {Unborn, Gone} \cup Values]
    BY <2>1 DEF TypeOK, Unborn
  <2>3. QED BY <1>6, <1>7, <2>2 DEF Save, Make, TypeOK
<1>8. CASE SaveEmpty(f) \/ Create(f)
  <2>1. calls[f].value \in {0} \cup Values
    BY <1>2 DEF Call
  <2>2. WithNewRow(calls[f].value) \subseteq [Rows -> {Unborn, Gone} \cup Values]
    BY <2>1 DEF WithNewRow, TypeOK, Unborn
  <2>3. asked' \in Tables
    BY <1>8 DEF SaveEmpty, Create, Make, TypeOK, Tables
  <2>4. QED BY <1>6, <1>8, <2>2, <2>3 DEF SaveEmpty, Create, Make
<1>9. CASE Delete(f)
  <2>1. [stored EXCEPT ![calls[f].row] = Gone] \in [Rows -> {Unborn, Gone} \cup Values]
    BY DEF TypeOK
  <2>2. QED BY <1>6, <1>9, <2>1 DEF Delete, Make, TypeOK
<1>10. CASE Hidden(f)
  BY <1>6, <1>10 DEF Hidden, Make, TypeOK
<1>11. QED BY <1>3, <1>4, <1>5, <1>7, <1>8, <1>9, <1>10 DEF Serve

\* The flags and modals an answer clears.
LEMMA ClearedTyped ==
  ASSUME NEW u \in Ui, NEW c \in Call
  PROVE  Cleared(u, c) \in Ui /\ Cleared(Closed(u, c), c) \in Ui
<1>1. Closed(u, c) \in Ui
  BY DEF Closed, Ui, Optional
<1>2. ASSUME NEW w \in Ui PROVE Cleared(w, c) \in Ui
  BY DEF Cleared, Ui, Optional
<1>3. QED BY <1>1, <1>2

LEMMA DeliverTyped ==
  ASSUME TypeOK, NEW f \in Fetches, Deliver(f)
  PROVE  TypeOK'
<1>1. calls[f] \in Call
  BY LiveCall DEF Deliver, Listed, ListFailed, FormLoaded, SidebarLoaded, Changed,
                  PasswordSet, SettingSaved, FormSaved, Failed, Got, Changes
<1>2. ui \in Ui /\ calls[f].snap \in Tables /\ calls[f].row \in Optional
         /\ calls[f].value \in {0} \cup Values /\ calls[f].no \in 1 .. 2
  BY <1>1 DEF TypeOK, Call
<1>3. CASE Listed(f)
  <2>1. ui' \in Ui
    BY <1>2, <1>3 DEF Listed, Step, Ui
  <2>2. QED BY <1>3, <2>1, DoneTyped DEF Listed, Step, TypeOK
<1>4. CASE ListFailed(f)
  <2>1. AfterFailure(ui) \in Ui
    BY <1>2, EmptyTyped DEF AfterFailure, Ui
  <2>2. QED BY <1>4, <2>1, DoneTyped DEF ListFailed, Step, TypeOK
<1>5. CASE FormLoaded(f)
  <2>1. ui' \in Ui
    BY <1>2, <1>5 DEF FormLoaded, Step, Ui
  <2>2. QED BY <1>5, <2>1, DoneTyped DEF FormLoaded, Step, TypeOK
<1>6. CASE SidebarLoaded(f)
  BY <1>2, <1>6, DoneTyped, EmptyTyped DEF SidebarLoaded, TypeOK
<1>7. CASE Changed(f)
  <2>1. [Cleared(Closed(ui, calls[f]), calls[f]) EXCEPT !.loading = TRUE] \in Ui
    <3>1. Cleared(Closed(ui, calls[f]), calls[f]) \in Ui
      BY <1>1, <1>2, ClearedTyped
    <3>2. QED BY <3>1 DEF Ui
  <2>2. List(calls[f].no) \in Call
    BY <1>2, ReadTyped
  <2>3. QED BY <1>7, <2>1, <2>2 DEF Changed, Reload, Step, TypeOK
<1>8. CASE PasswordSet(f)
  BY <1>1, <1>2, <1>8, ClearedTyped, DoneTyped DEF PasswordSet, Step, TypeOK
<1>9. CASE SettingSaved(f)
  <2>1. Cleared(ui, calls[f]) \in Ui
    BY <1>1, <1>2, ClearedTyped
  <2>2. [Cleared(ui, calls[f]) EXCEPT !.table[calls[f].row] = calls[f].value] \in Ui
    BY <1>2, <2>1 DEF Ui, Tables
  <2>3. calls' \in [Fetches -> Call \cup {NoCall}]
    BY <1>9, ReadTyped DEF SettingSaved, ReloadSidebar, TypeOK
  <2>4. stale' \subseteq {"table", "sidebar"}
    BY <1>9 DEF SettingSaved, TypeOK
  <2>5. QED BY <1>2, <1>9, <2>2, <2>3, <2>4 DEF SettingSaved, Step, TypeOK
<1>10. CASE FormSaved(f)
  <2>1. CASE ui.page = "form"
    BY <1>10, <2>1, MountTyped DEF FormSaved, TypeOK, Pages, Optional
  <2>2. CASE ui.page # "form"
    BY <1>10, <2>2, DoneTyped DEF FormSaved, TypeOK
  <2>3. QED BY <2>1, <2>2
<1>11. CASE Failed(f)
  <2>1. ui' \in Ui
    BY <1>1, <1>2, <1>11, ClearedTyped DEF Failed, Step
  <2>2. asked' \in Tables
    BY <1>11 DEF Failed, TypeOK, Tables
  <2>3. UNCHANGED <<stored, sidebar, stale>>
    BY <1>11 DEF Failed, Step
  <2>4. QED BY <1>11, <2>1, <2>2, <2>3, DoneTyped DEF Failed, TypeOK
<1>12. QED BY <1>3, <1>4, <1>5, <1>6, <1>7, <1>8, <1>9, <1>10, <1>11 DEF Deliver

LEMMA TypeStep == TypeOK /\ [Next]_vars => TypeOK'
<1>1. SUFFICES ASSUME TypeOK, [Next]_vars PROVE TypeOK'
  OBVIOUS
<1>2. CASE UNCHANGED vars
  BY <1>1, <1>2 DEF vars, TypeOK
<1>3. QED BY <1>1, <1>2, VisitTyped, JumpTyped, ClicksTyped, ModalsTyped, ServeTyped, DeliverTyped
          DEF Next

\* Every variable has its type: what pages, requests and the server hold.
THEOREM TypeCorrect == Spec => []TypeOK
BY TypeInit, TypeStep, PTL DEF Spec

-----------------------------------------------------------------------------
(* Pages and what can be on the way on them.                               *)

LEMMA NothingFits == ASSUME NEW p PROVE Fits(p, NoCall)
BY DEF Fits, NoCall

LEMMA FitsKept ==
  ASSUME NEW p, NEW c, NEW d, Fits(p, c), d.kind = c.kind, d.here = c.here,
         d.reply = "found" => c.reply = "found" \/ c.kind = "set",
         d.kind = "set" => d.value = c.value,
         \/ d.reply = c.reply \/ d.reply \in {"pending", "found"} \/ c.here
         \/ Table(p) \in {"challenges", "settings"} /\ c.kind \in {"set", "create"}
  PROVE  Fits(p, d)
BY DEF Fits

\* The page stays, and its requests fit it.
LEMMA PageKept ==
  ASSUME PageInv, ui'.page = ui.page, ui'.target \in {Nothing, ui.target},
         ui.page \in Toggles => \A r \in Rows : stored'[r] # Gone,
         ui.page = "users" => \A r \in Rows : stored'[r] # Unborn,
         \A g \in Fetches : Fits(ui.page, calls'[g])
  PROVE  PageInv'
BY DEF PageInv

\* A page is mounted in place of another of its table.
LEMMA MountFits ==
  ASSUME TypeOK, PageInv, NEW f \in Fetches, NEW p \in Pages, NEW r \in Optional,
         Mount(p, r, f), Table(p) = Table(ui.page), UNCHANGED stored
  PROVE  PageInv'
<1>1. ui.page \in Pages
  BY DEF TypeOK, Ui
<1>2. ui'.page = p /\ ui'.target = Nothing
  BY DEF Mount, Fresh
<1>3. p \in Toggles <=> ui.page \in Toggles
  BY <1>1 DEF Table, Toggles, Pages
<1>4. ASSUME NEW g \in Fetches PROVE Fits(p, calls'[g])
  <2>1. CASE g = f
    <3>1. calls'[g] = First(p, r)
      BY <2>1 DEF Mount
    <3>2. QED BY <3>1, FirstTyped DEF Fits
  <2>2. CASE g # f
    <3>1. calls'[g] = Left(calls[g])
      BY <2>2 DEF Mount
    <3>2. Fits(ui.page, calls[g])
      BY DEF PageInv
    <3>3. CASE Left(calls[g]) = NoCall
      BY <3>1, <3>3, NothingFits
    <3>4. CASE Left(calls[g]) # NoCall
      <4>1. /\ calls'[g].kind = calls[g].kind /\ calls'[g].kind \in Changes \cup {"public"}
            /\ calls'[g].reply = calls[g].reply
            /\ calls'[g].here <=> calls[g].kind = "public"
            /\ \/ calls[g].kind = "public" \/ calls[g].reply \in {"pending", "found"}
               \/ Lasting(calls[g])
        BY <3>1, <3>4, LeftTyped
      <4>2. calls'[g].value = calls[g].value
        BY <3>1, <3>4, LeftTyped
      <4>3. QED BY <1>3, <3>2, <4>1, <4>2 DEF Fits, Lasting, Changes
    <3>5. QED BY <3>3, <3>4
  <2>3. QED BY <2>1, <2>2
<1>5. p = "users" => ui.page = "users"
  BY <1>1 DEF Table, Pages
<1>6. QED BY <1>2, <1>3, <1>4, <1>5 DEF PageInv

LEMMA PageInit == Init => PageInv
<1>1. SUFFICES ASSUME Init PROVE PageInv
  OBVIOUS
<1>2. PICK p \in Toggles \cup {"categories", "challenges"}, errand \in Errands :
        /\ ui = Fresh(p, Nothing, errand)
        /\ stored \in StoredOn(p)
        /\ \E f, g \in Fetches :
             calls = [h \in Fetches |-> CASE h = f -> List(1)
                                          [] h = g /\ p = "settings" -> Public
                                          [] OTHER -> NoCall]
  BY <1>1 DEF Init
<1>3. ui.page = p /\ ui.target = Nothing
  BY <1>2 DEF Fresh
<1>4. \A h \in Fetches : calls[h] = List(1) \/ calls[h] = Public \/ calls[h] = NoCall
  BY <1>2
<1>5. \A h \in Fetches : Fits(p, calls[h])
  <2>1. Fits(p, List(1)) /\ Fits(p, Public)
    BY ReadTyped DEF Fits
  <2>2. QED BY <1>4, <2>1, NothingFits
<1>6. p \in Toggles => \A r \in Rows : stored[r] # Gone
  <2>1. CASE p = "users"
    BY <1>2, <2>1 DEF StoredOn, Values, Gone
  <2>2. CASE p = "settings"
    <3>1. stored \in StoredOn("settings")
      BY <1>2, <2>2
    <3>2. stored \in [Rows -> {Unborn} \cup Values]
      BY <3>1 DEF StoredOn
    <3>3. QED BY <3>2 DEF Values, Unborn, Gone
  <2>3. QED BY <2>1, <2>2 DEF Toggles
<1>7. p = "users" => \A r \in Rows : stored[r] # Unborn
  BY <1>2 DEF StoredOn, Values, Unborn
<1>8. QED BY <1>3, <1>5, <1>6, <1>7 DEF PageInv

LEMMA PageServe ==
  ASSUME TypeOK, PageInv, NEW f \in Fetches, Serve(f)
  PROVE  PageInv'
<1>1. calls[f].kind # "none"
  BY DEF Serve, Refuse, ServeRead, Find, Save, SaveEmpty, Create, Delete, Hidden, Asked, Changes,
         TypeOK, NoCall, Call
<1>2. calls[f] \in Call /\ \A g \in Fetches : Fits(ui.page, calls[g])
  BY <1>1, LiveCall DEF PageInv
\* An answer that is heard, or none.
<1>3. ASSUME \A g \in Fetches \ {f} : calls'[g] = calls[g],
             \/ calls'[f] = NoCall
             \/ /\ \/ calls'[f].reply \in {"ok", "fail"} /\ (calls[f].here \/ Lasting(calls[f]))
                   \/ calls'[f].reply = "found" /\ calls[f].kind = "set"
                /\ calls'[f].kind = calls[f].kind /\ calls'[f].here = calls[f].here
                /\ calls'[f].value = calls[f].value,
             UNCHANGED ui,
             ui.page \in Toggles => \A r \in Rows : stored'[r] # Gone,
             ui.page = "users" => \A r \in Rows : stored'[r] # Unborn
      PROVE  PageInv'
  <2>1. ASSUME NEW g \in Fetches PROVE Fits(ui.page, calls'[g])
    BY <1>2, <1>3, NothingFits, FitsKept DEF Lasting
  <2>2. QED BY <1>3, <2>1, PageKept
<1>5. CASE Refuse(f)
  BY <1>1, <1>3, <1>5, AnsweredTyped, EmptyTyped DEF Refuse, Reply, PageInv
<1>6. CASE ServeRead(f)
  <2>1. Read(calls[f]) \in Tables
    BY EmptyTyped DEF Read, Shown, Tables
  <2>2. QED BY <1>1, <1>3, <1>6, <2>1, AnsweredTyped DEF ServeRead, PageInv
<1>7. CASE Find(f)
  BY <1>2, <1>3, <1>7 DEF Find, Asked, PageInv, TypeOK, Call
<1>8. ASSUME NEW t, MadeTo(f, t),
             ui.page \in Toggles => \A r \in Rows : t[r] # Gone,
             ui.page = "users" => \A r \in Rows : t[r] # Unborn
      PROVE  PageInv'
  BY <1>1, <1>3, <1>8, MakeTyped
<1>9. calls[f].kind = "set" => calls[f].value \in Values
  BY <1>2 DEF Fits, Call
<1>10. CASE Save(f)
  <2>1. calls[f].kind = "set"
    BY <1>2, <1>10 DEF Save, Asked, Fits
  <2>2. \A r \in Rows : stored[r] # Gone =>
          [stored EXCEPT ![calls[f].row] = calls[f].value][r] # Gone
    BY <1>9, <2>1 DEF TypeOK, Values, Gone
  <2>3. \A r \in Rows : stored[r] # Unborn =>
          [stored EXCEPT ![calls[f].row] = calls[f].value][r] # Unborn
    BY <1>9, <2>1 DEF TypeOK, Values, Unborn
  <2>4. QED BY <1>8, <1>10, <2>2, <2>3 DEF Save, Make, PageInv
<1>11. CASE SaveEmpty(f)
  <2>1. ASSUME NEW t \in WithNewRow(calls[f].value), NEW r \in Rows
        PROVE  /\ stored[r] # Gone => t[r] # Gone
               /\ stored[r] # Unborn => t[r] # Unborn
    BY <1>9, <1>11, <2>1 DEF SaveEmpty, Asked, WithNewRow, TypeOK, Values, Gone, Unborn
  <2>2. PICK t \in WithNewRow(calls[f].value) : MadeTo(f, t)
    BY <1>11 DEF SaveEmpty
  <2>3. QED BY <1>8, <2>1, <2>2 DEF PageInv
<1>12. CASE Create(f)
  <2>1. PICK t : MadeTo(f, t)
    BY <1>12 DEF Create, Make
  <2>2. ui.page \notin Toggles
    BY <1>2, <1>12 DEF Create, Asked, Fits
  <2>3. QED BY <1>8, <2>1, <2>2 DEF Toggles
<1>13. CASE Delete(f)
  <2>1. ui.page \notin Toggles
    BY <1>2, <1>13 DEF Delete, Asked, Fits
  <2>2. QED BY <1>8, <1>13, <2>1 DEF Delete, Make, Toggles
<1>14. CASE Hidden(f)
  BY <1>8, <1>14 DEF Hidden, Make, PageInv
<1>15. QED BY <1>5, <1>6, <1>7, <1>10, <1>11, <1>12, <1>13, <1>14 DEF Serve

LEMMA PageDeliver ==
  ASSUME TypeOK, PageInv, NEW f \in Fetches, Deliver(f)
  PROVE  PageInv'
<1>1. \A g \in Fetches : Fits(ui.page, calls[g])
  BY DEF PageInv
<1>2. ui \in Ui
  BY DEF TypeOK
<1>3. ASSUME ui'.page = ui.page, ui'.target \in {Nothing, ui.target}, UNCHANGED stored,
             \A g \in Fetches \ {f} : calls'[g] = calls[g],
             Fits(ui.page, calls'[f])
      PROVE  PageInv'
  <2>1. \A g \in Fetches : Fits(ui.page, calls'[g])
    BY <1>1, <1>3
  <2>2. QED BY <1>3, <2>1, PageKept DEF PageInv
<1>4. ASSUME ui'.page = ui.page, ui'.target \in {Nothing, ui.target}, UNCHANGED stored, Done(f)
      PROVE  PageInv'
  BY <1>3, <1>4, DoneTyped, NothingFits
<1>5. \A c : /\ Cleared(ui, c).page = ui.page /\ Cleared(ui, c).target = ui.target
             /\ Cleared(Closed(ui, c), c).page = ui.page
             /\ Cleared(Closed(ui, c), c).target \in {Nothing, ui.target}
  BY <1>2 DEF Cleared, Closed, Ui
<1>6. CASE Listed(f) \/ ListFailed(f) \/ FormLoaded(f) \/ SidebarLoaded(f)
  <2>1. ui'.page = ui.page /\ ui'.target = ui.target /\ UNCHANGED stored
    BY <1>2, <1>6 DEF Listed, ListFailed, AfterFailure, FormLoaded, SidebarLoaded, Step, Ui
  <2>2. QED BY <1>4, <1>6, <2>1 DEF Listed, ListFailed, FormLoaded, SidebarLoaded
<1>7. CASE Changed(f)
  <2>1. calls[f].no \in 1 .. 2
    BY <1>7, LiveCall DEF Changed, Got, Changes, Call
  <2>2. Fits(ui.page, List(calls[f].no))
    BY <2>1, ReadTyped DEF Fits
  <2>3. ui' = [Cleared(Closed(ui, calls[f]), calls[f]) EXCEPT !.loading = TRUE]
    BY <1>7 DEF Changed, Reload, Step
  <2>4. ui'.page = ui.page /\ ui'.target \in {Nothing, ui.target}
    <3>1. Cleared(Closed(ui, calls[f]), calls[f]) \in Ui
      BY <1>2, <1>7, LiveCall, ClearedTyped DEF Changed, Got, Changes
    <3>2. QED BY <1>5, <2>3, <3>1 DEF Ui
  <2>5. QED BY <1>3, <1>7, <2>2, <2>4 DEF Changed, Reload, Step, TypeOK
<1>8. CASE PasswordSet(f)
  BY <1>4, <1>5, <1>8 DEF PasswordSet, Step
<1>9. CASE SettingSaved(f)
  <2>1. Fits(ui.page, ReloadSidebar)
    BY ReadTyped DEF Fits, ReloadSidebar
  <2>2. ui'.page = ui.page /\ ui'.target = ui.target
    <3>1. Cleared(ui, calls[f]) \in Ui
      BY <1>2, <1>9, LiveCall, ClearedTyped DEF SettingSaved, Got
    <3>2. QED BY <1>5, <1>9, <3>1 DEF SettingSaved, Step, Ui
  <2>3. QED BY <1>3, <1>9, <2>1, <2>2 DEF SettingSaved, Step, TypeOK
<1>10. CASE FormSaved(f)
  <2>1. CASE ui.page = "form"
    <3>1. Mount("challenges", Nothing, f) /\ UNCHANGED stored
      BY <1>10, <2>1 DEF FormSaved
    <3>2. Table("challenges") = Table(ui.page)
      BY <2>1 DEF Table
    <3>3. QED BY <3>1, <3>2, MountFits DEF Pages, Optional
  <2>2. CASE ui.page # "form"
    BY <1>4, <1>10, <2>2 DEF FormSaved
  <2>3. QED BY <2>1, <2>2
<1>11. CASE Failed(f)
  BY <1>4, <1>5, <1>11 DEF Failed, Step
<1>12. QED BY <1>6, <1>7, <1>8, <1>9, <1>10, <1>11 DEF Deliver

LEMMA PageStep == TypeOK /\ PageInv /\ [Next]_vars => PageInv'
<1>1. SUFFICES ASSUME TypeOK, PageInv, [Next]_vars PROVE PageInv'
  OBVIOUS
<1>2. (\A g \in Fetches : Fits(ui.page, calls[g])) /\ ui \in Ui
  BY <1>1 DEF PageInv, TypeOK
\* A request is sent from the page.
<1>3. ASSUME NEW f \in Fetches, NEW c \in Call, Send(f, c), Fits(ui.page, c),
             ui'.page = ui.page, ui'.target \in {Nothing, ui.target}, UNCHANGED stored
      PROVE  PageInv'
  <2>1. \A g \in Fetches : Fits(ui.page, calls'[g])
    BY <1>1, <1>2, <1>3, SendTyped
  <2>2. QED BY <1>1, <1>3, <2>1, PageKept DEF PageInv
<1>4. CASE UNCHANGED vars
  BY <1>1, <1>4 DEF vars, PageInv
<1>5. CASE TypePassword \/ CloseModal
  BY <1>1, <1>2, <1>5, PageKept DEF TypePassword, CloseModal, Step, Ui, PageInv
<1>6. ASSUME NEW r \in Rows, OpenModal(r) PROVE PageInv'
  BY <1>1, <1>2, <1>6 DEF OpenModal, Opened, Step, Ui, PageInv
<1>7. ASSUME NEW r \in Rows, Elsewhere(r) PROVE PageInv'
  BY <1>1, <1>2, <1>7 DEF Elsewhere, PageInv, TypeOK, Toggles, Values, Gone, Unborn
<1>8. ASSUME NEW r \in Optional, OpenForm(r) PROVE PageInv'
  BY <1>1, <1>2, <1>8, PageKept DEF OpenForm, Step, Ui, PageInv
<1>9. ASSUME NEW f \in Fetches, NEW p \in Pages, NEW r \in Optional, Visit(f, p, r) PROVE PageInv'
  BY <1>1, <1>9, MountFits DEF Visit
<1>10. ASSUME NEW f \in Fetches, NEW r \in Optional, Jump(f, r) PROVE PageInv'
  <2>1. ui.page = "form" /\ ui'.page = "form" /\ ui'.target = ui.target
    BY <1>2, <1>10 DEF Jump, Ui
  <2>2. Fits("form", First("form", r))
    BY FirstTyped DEF Fits, Pages
  <2>3. \A g \in Fetches : Fits(ui.page, calls'[g])
    BY <1>1, <1>2, <1>10, <2>1, <2>2 DEF Jump, TypeOK
  <2>4. QED BY <1>1, <1>10, <2>1, <2>3, PageKept DEF Jump, PageInv
<1>11. ASSUME NEW f \in Fetches, NEW r \in Rows, Toggle(f, r) PROVE PageInv'
  <2>1. ui.page \in Toggles /\ 3 - ui.table[r] \in Values
    BY <1>11 DEF Toggle, MayToggle, InTable, Values
  <2>2. Fits(ui.page, Request("set", r, 3 - ui.table[r], Nothing))
    BY <1>1, <2>1, RequestTyped DEF Fits, Toggles, Table, Changes, Optional, Values
  <2>3. QED BY <1>1, <1>2, <1>3, <1>11, <2>1, <2>2, RequestTyped
            DEF Toggle, Step, Ui, Changes, Optional
<1>12. ASSUME NEW f \in Fetches, NEW r \in Rows, PremiumToggle(f, r) PROVE PageInv'
  <2>1. Fits(ui.page, Request("premium", r, 0, Nothing))
    BY <1>1, RequestTyped DEF Fits, Changes, Optional
  <2>2. QED BY <1>1, <1>2, <1>3, <1>12, <2>1, RequestTyped
            DEF PremiumToggle, Step, Ui, Changes, Optional
<1>13. ASSUME NEW f \in Fetches, NEW n \in 1 .. 2, SetPage(f, n) PROVE PageInv'
  <2>1. Fits(ui.page, List(n))
    BY ReadTyped DEF Fits
  <2>2. QED BY <1>2, <1>3, <1>13, <2>1, ReadTyped DEF SetPage, Step, Ui
<1>14. ui.target \in Optional /\ ui.typed \in Optional /\ ui.editing \in Optional
  BY <1>2 DEF Ui
<1>15. ASSUME NEW f \in Fetches, Confirm(f) PROVE PageInv'
  <2> DEFINE kind == IF ui.page = "users" THEN "password" ELSE "delete"
             c == Request(kind, ui.target, 0, ui.typed)
  <2>0. kind \in Changes
    BY DEF Changes
  <2> HIDE DEF kind
  <2>1. c \in Call /\ c.here /\ c.reply = "pending" /\ c.kind = kind
    BY <1>1, <1>14, <2>0, RequestTyped
  <2>2. ui.page \in {"users", "categories", "challenges"}
    BY <1>1, <1>15 DEF Confirm, MayConfirm, PageInv
  <2>3. Fits(ui.page, c)
    BY <2>1, <2>2 DEF Fits, Toggles, kind
  <2>4. QED BY <1>2, <1>3, <1>15, <2>1, <2>3 DEF Confirm, Step, Ui, kind
<1>16. ASSUME NEW f \in Fetches, Submit(f) PROVE PageInv'
  <2> DEFINE c == Request(IF ui.editing = Nothing THEN "create" ELSE "set",
                          ui.editing, Edited, Nothing)
  <2>1. /\ c \in Call /\ c.here /\ c.reply = "pending" /\ c.kind \in {"create", "set"}
        /\ c.value # 0
    BY <1>1, SubmitTyped
  <2>2. ui.page \in {"categories", "form"}
    BY <1>16 DEF Submit
  <2>3. Fits(ui.page, c)
    BY <2>1, <2>2 DEF Fits, Toggles, Table
  <2>4. QED BY <1>2, <1>3, <1>16, <2>1, <2>3 DEF Submit, Step, Ui
<1>17. QED BY <1>1, <1>4, <1>5, <1>6, <1>7, <1>8, <1>9, <1>10, <1>11, <1>12, <1>13, <1>15, <1>16,
              PageServe, PageDeliver DEF Next

-----------------------------------------------------------------------------
(* A change keeps what it was sent with.                                   *)

Same(c, d) ==
  d.kind = c.kind /\ d.row = c.row /\ d.value = c.value /\ d.from = c.from

LEMMA MountSame ==
  ASSUME TypeOK, NEW f \in Fetches, NEW p \in Pages, NEW r \in Optional, Mount(p, r, f),
         NEW g \in Fetches, calls'[g].kind \in Changes
  PROVE  Same(calls[g], calls'[g]) /\ ~calls'[g].here
<1>1. CASE g = f
  BY <1>1, FirstTyped DEF Mount, Changes
<1>2. CASE g # f
  BY <1>2, LeftTyped DEF Mount, Changes, Same, NoCall
<1>3. QED BY <1>1, <1>2

LEMMA ServeSame ==
  ASSUME TypeOK, NEW f \in Fetches, Serve(f), NEW g \in Fetches, calls'[g].kind # "none"
  PROVE  Same(calls[g], calls'[g]) /\ calls'[g].here = calls[g].here
<1>1. calls[f].kind # "none"
  BY DEF Serve, Refuse, ServeRead, Find, Save, SaveEmpty, Create, Delete, Hidden, Asked, Changes,
         TypeOK, NoCall, Call
<1>2. CASE Refuse(f)
  <2>1. Answered(f, [calls[f] EXCEPT !.reply = "fail"])
    BY <1>2 DEF Refuse, Reply
  <2>2. /\ g # f => calls'[g] = calls[g]
        /\ \/ calls'[f] = NoCall
           \/ Same(calls[f], calls'[f]) /\ calls'[f].here = calls[f].here
    BY <1>1, <2>1, AnsweredTyped, EmptyTyped DEF Same
  <2>3. QED BY <2>2 DEF Same, NoCall
<1>3. CASE ServeRead(f)
  <2>1. Read(calls[f]) \in Tables
    BY EmptyTyped DEF Read, Shown, Tables
  <2>2. Answered(f, [calls[f] EXCEPT !.reply = "ok", !.snap = Read(calls[f])])
    BY <1>3 DEF ServeRead
  <2>3. /\ g # f => calls'[g] = calls[g]
        /\ \/ calls'[f] = NoCall
           \/ Same(calls[f], calls'[f]) /\ calls'[f].here = calls[f].here
    BY <1>1, <2>1, <2>2, AnsweredTyped DEF Same
  <2>4. QED BY <2>3 DEF Same, NoCall
<1>4. CASE Find(f)
  BY <1>1, <1>4, LiveCall DEF Find, Same, TypeOK, Call
<1>5. ASSUME NEW t, MadeTo(f, t) PROVE Same(calls[g], calls'[g]) /\ calls'[g].here = calls[g].here
  BY <1>1, <1>5, MakeTyped DEF Same, NoCall
<1>6. CASE Save(f) \/ SaveEmpty(f) \/ Create(f) \/ Delete(f) \/ Hidden(f)
  BY <1>5, <1>6 DEF Save, SaveEmpty, Create, Delete, Hidden, Make
<1>7. QED BY <1>2, <1>3, <1>4, <1>6 DEF Serve

LEMMA DeliverSame ==
  ASSUME TypeOK, NEW f \in Fetches, Deliver(f), NEW g \in Fetches, calls'[g].kind \in Changes
  PROVE  Same(calls[g], calls'[g]) /\ (calls'[g].here => calls[g].here)
<1>1. CASE Done(f)
  BY <1>1, DoneTyped DEF Same, NoCall, Changes
<1>2. CASE Changed(f)
  <2>1. calls[f].no \in 1 .. 2
    BY <1>2, LiveCall DEF Changed, Got, Changes, Call
  <2>2. QED BY <1>2, <2>1, ReadTyped DEF Changed, Reload, Same, Changes, TypeOK
<1>3. CASE SettingSaved(f)
  BY <1>3, ReadTyped DEF SettingSaved, ReloadSidebar, Same, Changes, TypeOK
<1>4. CASE FormSaved(f) /\ ui.page = "form"
  BY <1>4, MountSame DEF FormSaved, Pages, Optional
<1>5. QED BY <1>1, <1>2, <1>3, <1>4 DEF Deliver, Listed, ListFailed, FormLoaded, SidebarLoaded,
             PasswordSet, FormSaved, Failed

LEMMA ChangeSame ==
  ASSUME TypeOK, [Next]_vars, NEW g \in Fetches, calls'[g].kind \in Changes
  PROVE  \/ Same(calls[g], calls'[g]) /\ (calls'[g].here => calls[g].here)
         \/ \E r \in Rows : Toggle(g, r) \/ PremiumToggle(g, r)
         \/ Confirm(g) \/ Submit(g)
<1>1. CASE UNCHANGED calls
  BY <1>1 DEF Same
<1>2. ASSUME NEW f \in Fetches, NEW p \in Pages, NEW r \in Optional, Visit(f, p, r) \/ Jump(f, r)
      PROVE  Same(calls[g], calls'[g]) /\ (calls'[g].here => calls[g].here)
  <2>1. CASE Visit(f, p, r)
    BY <2>1, MountSame DEF Visit
  <2>2. CASE Jump(f, r)
    BY <2>2, FirstTyped DEF Jump, Same, TypeOK, Pages, Changes
  <2>3. QED BY <1>2, <2>1, <2>2
<1>3. ASSUME NEW f \in Fetches, f # g, NEW c, Send(f, c)
      PROVE  Same(calls[g], calls'[g]) /\ (calls'[g].here => calls[g].here)
  BY <1>3 DEF Send, TypeOK, Same
<1>4. ASSUME NEW f \in Fetches, NEW n \in 1 .. 2, SetPage(f, n)
      PROVE  Same(calls[g], calls'[g]) /\ (calls'[g].here => calls[g].here)
  BY <1>4, ReadTyped DEF SetPage, Send, TypeOK, Same, Changes
<1>5. ASSUME NEW f \in Fetches, NEW r \in Rows,
             Toggle(f, r) \/ PremiumToggle(f, r) \/ Confirm(f) \/ Submit(f)
      PROVE  f = g \/ (Same(calls[g], calls'[g]) /\ (calls'[g].here => calls[g].here))
  BY <1>3, <1>5 DEF Toggle, PremiumToggle, Confirm, Submit
<1>6. ASSUME NEW f \in Fetches, Confirm(f) \/ Submit(f)
      PROVE  f = g \/ (Same(calls[g], calls'[g]) /\ (calls'[g].here => calls[g].here))
  BY <1>3, <1>6 DEF Confirm, Submit
<1>7. TypePassword \/ CloseModal
        \/ (\E r \in Rows : OpenModal(r) \/ Elsewhere(r))
        \/ (\E r \in Optional : OpenForm(r)) \/ UNCHANGED vars
      => UNCHANGED calls
  BY DEF TypePassword, CloseModal, OpenModal, Elsewhere, OpenForm, vars
<1>8. ASSUME NEW f \in Fetches, Serve(f) \/ Deliver(f)
      PROVE  Same(calls[g], calls'[g]) /\ (calls'[g].here => calls[g].here)
  <2>1. calls'[g].kind # "none"
    BY DEF Changes
  <2>2. QED BY <1>8, <2>1, ServeSame, DeliverSame
<1>9. QED BY <1>1, <1>2, <1>4, <1>5, <1>6, <1>7, <1>8 DEF Next, Pages, Optional

-----------------------------------------------------------------------------
(* Deleted rows.                                                           *)

\* A request is sent unanswered, and its answer is not "found".
LEMMA FoundStep ==
  ASSUME TypeOK, [Next]_vars, NEW g \in Fetches, calls'[g].reply = "found"
  PROVE  \/ calls[g].reply = "found" /\ calls'[g].row = calls[g].row
         \/ Find(g)
<1>1. ASSUME NEW f \in Fetches, NEW c \in Call, c.reply = "pending", Send(f, c)
      PROVE  calls'[g] = calls[g]
  BY <1>1, SendTyped
<1>2. ASSUME NEW f \in Fetches, NEW p \in Pages, NEW r \in Optional, Mount(p, r, f)
      PROVE  calls[g].reply = "found" /\ calls'[g].row = calls[g].row
  <2>1. CASE g = f
    BY <1>2, <2>1, FirstTyped DEF Mount
  <2>2. CASE g # f
    BY <1>2, <2>2, LeftTyped DEF Mount, NoCall
  <2>3. QED BY <2>1, <2>2
<1>3. TypePassword \/ CloseModal
        \/ (\E r \in Rows : OpenModal(r) \/ Elsewhere(r))
        \/ (\E r \in Optional : OpenForm(r)) \/ UNCHANGED vars
      => UNCHANGED calls
  BY DEF TypePassword, CloseModal, OpenModal, Elsewhere, OpenForm, vars
<1>4. ASSUME NEW f \in Fetches, NEW p \in Pages, NEW r \in Optional, Visit(f, p, r) \/ Jump(f, r)
      PROVE  calls[g].reply = "found" /\ calls'[g].row = calls[g].row
  <2>1. CASE Visit(f, p, r)
    BY <1>2, <2>1 DEF Visit
  <2>2. CASE Jump(f, r)
    BY <2>2, FirstTyped DEF Jump, TypeOK, Pages
  <2>3. QED BY <1>4, <2>1, <2>2
<1>5. ui.target \in Optional /\ ui.typed \in Optional /\ ui.editing \in Optional
  BY DEF TypeOK, Ui
<1>6. ASSUME NEW f \in Fetches, NEW r \in Rows, Toggle(f, r) PROVE calls'[g] = calls[g]
  <2>1. 3 - ui.table[r] \in {0} \cup Values
    BY <1>6 DEF Toggle, MayToggle, InTable, Values
  <2>2. QED BY <1>1, <1>6, <2>1, RequestTyped DEF Toggle, Changes, Optional
<1>7. ASSUME NEW f \in Fetches, NEW r \in Rows, PremiumToggle(f, r) PROVE calls'[g] = calls[g]
  BY <1>1, <1>7, RequestTyped DEF PremiumToggle, Changes, Optional
<1>8. ASSUME NEW f \in Fetches, NEW n \in 1 .. 2, SetPage(f, n) PROVE calls'[g] = calls[g]
  BY <1>1, <1>8, ReadTyped DEF SetPage
<1>9. ASSUME NEW f \in Fetches, Confirm(f) PROVE calls'[g] = calls[g]
  <2>1. PICK kind \in Changes : Send(f, Request(kind, ui.target, 0, ui.typed))
    BY <1>9 DEF Confirm, Changes
  <2>2. QED BY <1>1, <1>5, <2>1, RequestTyped
<1>10. ASSUME NEW f \in Fetches, Submit(f) PROVE calls'[g] = calls[g]
  BY <1>1, <1>5, <1>10, RequestTyped DEF Submit, Changes, Edited, Values, Optional
<1>11. ASSUME NEW f \in Fetches, Serve(f)
       PROVE  Find(g) \/ (calls[g].reply = "found" /\ calls'[g].row = calls[g].row)
  <2>1. calls[f].kind # "none"
    BY <1>11 DEF Serve, Refuse, ServeRead, Find, Save, SaveEmpty, Create, Delete, Hidden, Asked,
         Changes,
             TypeOK, NoCall, Call
  <2>2. CASE Refuse(f)
    <3>1. Answered(f, [calls[f] EXCEPT !.reply = "fail"])
      BY <2>2 DEF Refuse, Reply
    <3>2. /\ g # f => calls'[g] = calls[g]
          /\ calls'[f] = NoCall \/ calls'[f].reply = "fail"
      BY <2>1, <3>1, AnsweredTyped, EmptyTyped
    <3>3. QED BY <3>2 DEF NoCall
  <2>3. CASE ServeRead(f)
    <3>1. Read(calls[f]) \in Tables
      BY EmptyTyped DEF Read, Shown, Tables
    <3>2. Answered(f, [calls[f] EXCEPT !.reply = "ok", !.snap = Read(calls[f])])
      BY <2>3 DEF ServeRead
    <3>3. /\ g # f => calls'[g] = calls[g]
          /\ calls'[f] = NoCall \/ calls'[f].reply = "ok"
      BY <2>1, <3>1, <3>2, AnsweredTyped
    <3>4. QED BY <3>3 DEF NoCall
  <2>4. CASE Find(f)
    BY <2>4 DEF Find, TypeOK
  <2>5. ASSUME NEW t, MadeTo(f, t) PROVE calls[g].reply = "found" /\ calls'[g].row = calls[g].row
    BY <2>1, <2>5, MakeTyped DEF NoCall
  <2>6. CASE Save(f) \/ SaveEmpty(f) \/ Create(f) \/ Delete(f) \/ Hidden(f)
    BY <2>5, <2>6 DEF Save, SaveEmpty, Create, Delete, Hidden, Make
  <2>7. QED BY <1>11, <2>2, <2>3, <2>4, <2>6 DEF Serve
<1>12. ASSUME NEW f \in Fetches, Deliver(f)
       PROVE  calls[g].reply = "found" /\ calls'[g].row = calls[g].row
  <2>1. CASE Done(f)
    BY <2>1, DoneTyped DEF NoCall
  <2>2. CASE Changed(f)
    <3>1. calls[f].no \in 1 .. 2
      BY <2>2, LiveCall DEF Changed, Got, Changes, Call
    <3>2. QED BY <2>2, <3>1, ReadTyped DEF Changed, Reload, TypeOK
  <2>3. CASE SettingSaved(f)
    BY <2>3, ReadTyped DEF SettingSaved, ReloadSidebar, TypeOK
  <2>4. CASE FormSaved(f) /\ ui.page = "form"
    BY <1>2, <2>4 DEF FormSaved, Pages, Optional
  <2>5. QED BY <1>12, <2>1, <2>2, <2>3, <2>4 DEF Deliver, Listed, ListFailed, FormLoaded,
               SidebarLoaded, PasswordSet, FormSaved, Failed
<1>13. QED BY <1>3, <1>4, <1>6, <1>7, <1>8, <1>9, <1>10, <1>11, <1>12 DEF Next, Pages, Optional

\* What was deleted comes back only by an update that had found it before.
LEMMA GoneStep ==
  ASSUME TypeOK, PageInv, [Next]_vars, NEW r \in Rows, Buried(r)
  PROVE  Buried(r)'
<1>1. stored[r] = Gone /\ stored[r] \notin Values /\ stored[r] # Unborn
  BY DEF Buried, Gone, Values, Unborn
<1>2. ASSUME NEW g \in Fetches, calls'[g].reply = "found" PROVE calls'[g].row # r
  <2>1. CASE Find(g)
    BY <1>1, <2>1 DEF Find, Found, TypeOK
  <2>2. QED BY <1>2, <2>1, FoundStep DEF Buried
<1>3. stored'[r] = Gone
  <2>1. ASSUME NEW f \in Fetches, Serve(f) PROVE stored'[r] = Gone
    <3>1. CASE Refuse(f) \/ ServeRead(f) \/ Find(f) \/ Hidden(f)
      BY <1>1, <3>1 DEF Refuse, ServeRead, Find, Hidden, Make, MadeTo
    <3>2. CASE Save(f)
      <4>1. calls[f].row # r
        BY <1>1, <3>2 DEF Save, Buried, PageInv, Toggles
      <4>2. QED BY <1>1, <3>2, <4>1 DEF Save, Make, MadeTo, TypeOK
    <3>3. CASE SaveEmpty(f) \/ Create(f)
      BY <1>1, <3>3 DEF SaveEmpty, Create, Make, MadeTo, WithNewRow, TypeOK
    <3>4. CASE Delete(f)
      BY <1>1, <3>4 DEF Delete, Make, MadeTo, TypeOK
    <3>5. QED BY <2>1, <3>1, <3>2, <3>3, <3>4 DEF Serve
  <2>2. ASSUME NEW f \in Fetches, Deliver(f) PROVE stored'[r] = Gone
    BY <1>1, <2>2 DEF Deliver, Listed, ListFailed, FormLoaded, SidebarLoaded, Changed, Reload,
       PasswordSet, SettingSaved, FormSaved, Failed, Step
  <2>3. ASSUME NEW s \in Rows, Elsewhere(s) PROVE stored'[r] = Gone
    BY <1>1, <2>3 DEF Elsewhere, TypeOK
  <2>4. UNCHANGED stored => stored'[r] = Gone
    BY <1>1
  <2>5. QED BY <1>1, <2>1, <2>2, <2>3, <2>4
        DEF Next, vars, TypePassword, CloseModal, OpenModal, OpenForm, Visit, Jump, Toggle,
            PremiumToggle, SetPage, Confirm, Submit, Step
<1>4. QED BY <1>2, <1>3 DEF Buried

\* What was deleted stays so, unless an update of handlers/challenge.go or
\* category.go had found it before: gorm's Save would insert it again.
THEOREM DeletedStayDeleted == Spec => GoneForGood
<1>1. TypeOK /\ PageInv /\ [Next]_vars => \A r \in Rows : Buried(r) => Buried(r)'
  BY GoneStep
<1>2. TypeOK /\ PageInv /\ [Next]_vars => TypeOK' /\ PageInv'
  BY TypeStep, PageStep
<1>3. TypeOK /\ PageInv /\ [Next]_vars => [\A r \in Rows : Buried(r) => Buried(r)']_vars
  BY <1>1
<1>4. QED BY TypeInit, PageInit, <1>2, <1>3, PTL DEF Spec, GoneForGood

-----------------------------------------------------------------------------
(* Modals stay with their row.                                             *)

LEMMA PasswordStep ==
  ASSUME TypeOK, PageInv, PasswordInv, [Next]_vars
  PROVE  PasswordInv'
<1>1. ui \in Ui
  BY DEF TypeOK
<1>2. PasswordIsOfTarget'
  <2>1. SUFFICES ASSUME NEW g \in Fetches, calls'[g].kind = "password"
                 PROVE  calls'[g].from = calls'[g].row
    BY DEF PasswordIsOfTarget
  <2>2. CASE Same(calls[g], calls'[g])
    BY <2>1, <2>2 DEF Same, PasswordInv, PasswordIsOfTarget
  <2>3. CASE Confirm(g)
    <3>1. CASE ui.page = "users"
      <4>1. ui.typed = ui.target
        BY <2>3, <3>1 DEF Confirm, MayConfirm, PasswordInv
      <4>2. Request("password", ui.target, 0, ui.typed) \in Call
        BY <1>1, RequestTyped DEF Changes, Ui
      <4>3. calls'[g] = Request("password", ui.target, 0, ui.typed)
        BY <2>3, <3>1, <4>2, SendTyped DEF Confirm
      <4>4. QED BY <1>1, <4>1, <4>3, RequestTyped DEF Changes, Ui
    <3>2. CASE ui.page # "users"
      <4>1. Request("delete", ui.target, 0, ui.typed) \in Call
                /\ Request("delete", ui.target, 0, ui.typed).kind = "delete"
        BY <1>1, RequestTyped DEF Changes, Ui
      <4>2. QED BY <2>1, <2>3, <3>2, <4>1, SendTyped DEF Confirm
    <3>3. QED BY <3>1, <3>2
  <2>4. CASE Submit(g)
    <3>1. PICK kind \in {"create", "set"} :
            Send(g, Request(kind, ui.editing, Edited, Nothing))
      BY <2>4 DEF Submit
    <3>2. QED BY <2>1, <3>1, SubmitTyped, SendTyped
  <2>5. ASSUME NEW r \in Rows, Toggle(g, r) PROVE FALSE
    <3>1. 3 - ui.table[r] \in {0} \cup Values
      BY <2>5 DEF Toggle, MayToggle, InTable, Values
    <3>2. QED BY <2>1, <2>5, <3>1, RequestTyped, SendTyped DEF Toggle, Changes, Optional
  <2>6. ASSUME NEW r \in Rows, PremiumToggle(g, r) PROVE FALSE
    BY <2>1, <2>6, RequestTyped, SendTyped DEF PremiumToggle, Changes, Optional
  <2>7. QED BY <2>1, <2>2, <2>3, <2>4, <2>5, <2>6, ChangeSame DEF Changes
<1>3. ui'.page = "users" => ui'.target = Nothing \/ ui'.typed \in {Nothing, ui'.target}
  <2>1. ASSUME ui'.page = ui.page,
               ui'.target = Nothing \/ (ui'.target = ui.target /\ ui'.typed = ui.typed)
        PROVE  ui'.page = "users" => ui'.target = Nothing \/ ui'.typed \in {Nothing, ui'.target}
    BY <2>1 DEF PasswordInv
  <2>2. ASSUME NEW f \in Fetches, NEW p \in Pages, NEW r \in Optional, Mount(p, r, f)
        PROVE  ui'.target = Nothing
    BY <2>2 DEF Mount, Fresh
  <2>3. CASE TypePassword \/ CloseModal \/ UNCHANGED vars
    BY <1>1, <2>1, <2>3 DEF TypePassword, CloseModal, Step, Ui, vars
  <2>4. ASSUME NEW r \in Rows, OpenModal(r) PROVE ui'.typed = Nothing
    BY <1>1, <2>4 DEF OpenModal, Opened, Step, Ui
  <2>5. ASSUME NEW r \in Rows, Elsewhere(r) PROVE ui' = ui
    BY <2>5 DEF Elsewhere
  <2>6. ASSUME NEW f \in Fetches, Serve(f) PROVE ui' = ui
    BY <2>6 DEF Serve, Refuse, ServeRead, Find, Save, SaveEmpty, Create, Delete, Hidden, Make,
         MadeTo
  <2>7. ASSUME NEW r \in Optional, OpenForm(r)
        PROVE  ui'.page = ui.page /\ ui'.target = ui.target /\ ui'.typed = ui.typed
    BY <1>1, <2>7 DEF OpenForm, Step, Ui
  <2>8. ASSUME NEW f \in Fetches,
               \/ \E r \in Rows : Toggle(f, r) \/ PremiumToggle(f, r)
               \/ \E n \in 1 .. 2 : SetPage(f, n)
               \/ \E r \in Optional : Jump(f, r)
               \/ Confirm(f) \/ Submit(f)
        PROVE  ui'.page = ui.page /\ ui'.target = ui.target /\ ui'.typed = ui.typed
    <3>1. ASSUME NEW r \in Rows, Toggle(f, r) \/ PremiumToggle(f, r)
          PROVE  ui'.page = ui.page /\ ui'.target = ui.target /\ ui'.typed = ui.typed
      BY <1>1, <3>1 DEF Toggle, PremiumToggle, Step, Ui
    <3>2. ASSUME NEW n \in 1 .. 2, SetPage(f, n)
          PROVE  ui'.page = ui.page /\ ui'.target = ui.target /\ ui'.typed = ui.typed
      BY <1>1, <3>2 DEF SetPage, Step, Ui
    <3>3. ASSUME NEW r \in Optional, Jump(f, r)
          PROVE  ui'.page = ui.page /\ ui'.target = ui.target /\ ui'.typed = ui.typed
      BY <1>1, <3>3 DEF Jump, Ui
    <3>4. CASE Confirm(f) \/ Submit(f)
      BY <1>1, <3>4 DEF Confirm, Submit, Step, Ui
    <3>5. QED BY <2>8, <3>1, <3>2, <3>3, <3>4
  <2>9. ASSUME NEW f \in Fetches, Deliver(f)
        PROVE  ui'.page = "users" => ui'.target = Nothing \/ ui'.typed \in {Nothing, ui'.target}
    <3>1. \A c \in Call :
            /\ Cleared(ui, c).page = ui.page /\ Cleared(ui, c).target = ui.target
            /\ Cleared(ui, c).typed = ui.typed
            /\ Cleared(Closed(ui, c), c).page = ui.page
            /\ Cleared(Closed(ui, c), c).target \in {Nothing, ui.target}
            /\ Cleared(Closed(ui, c), c).typed = ui.typed
            /\ Cleared(ui, c) \in Ui /\ Cleared(Closed(ui, c), c) \in Ui
      <4>1. SUFFICES ASSUME NEW c \in Call
              PROVE  /\ Cleared(ui, c).page = ui.page /\ Cleared(ui, c).target = ui.target
                     /\ Cleared(ui, c).typed = ui.typed
                     /\ Cleared(Closed(ui, c), c).page = ui.page
                     /\ Cleared(Closed(ui, c), c).target \in {Nothing, ui.target}
                     /\ Cleared(Closed(ui, c), c).typed = ui.typed
        BY <1>1, ClearedTyped
      <4>2. QED BY <1>1 DEF Cleared, Closed, Ui
    <3>2. CASE Listed(f) \/ ListFailed(f) \/ SidebarLoaded(f)
      BY <1>1, <2>1, <3>2 DEF Listed, ListFailed, AfterFailure, SidebarLoaded, Step, Ui
    <3>3. CASE FormLoaded(f)
      <4>1. ui.page = "form"
        BY <3>3 DEF FormLoaded, PageInv, Fits
      <4>2. QED BY <1>1, <3>3, <4>1 DEF FormLoaded, Step, Ui
    <3>4. CASE Changed(f)
      <4>1. calls[f] \in Call
        BY <3>4, LiveCall DEF Changed, Got, Changes
      <4>2. ui' = [Cleared(Closed(ui, calls[f]), calls[f]) EXCEPT !.loading = TRUE]
        BY <3>4 DEF Changed, Reload, Step
      <4>3. /\ ui'.page = ui.page /\ ui'.typed = ui.typed /\ ui'.target \in {Nothing, ui.target}
        BY <3>1, <4>1, <4>2 DEF Ui
      <4>4. QED BY <2>1, <4>3
    <3>5. CASE PasswordSet(f)
      BY <2>1, <3>1, <3>5, LiveCall DEF PasswordSet, Got, Step
    <3>6. CASE SettingSaved(f)
      <4>1. calls[f] \in Call
        BY <3>6, LiveCall DEF SettingSaved, Got
      <4>2. ui'.page = ui.page /\ ui'.typed = ui.typed /\ ui'.target = ui.target
        BY <3>1, <3>6, <4>1 DEF SettingSaved, Step, Ui
      <4>3. QED BY <2>1, <4>2
    <3>7. CASE FormSaved(f)
      BY <2>1, <2>2, <3>7 DEF FormSaved, Pages, Optional
    <3>8. CASE Failed(f)
      BY <2>1, <3>1, <3>8, LiveCall DEF Failed, Got, Changes, Step
    <3>9. QED BY <2>9, <3>2, <3>3, <3>4, <3>5, <3>6, <3>7, <3>8 DEF Deliver
  <2>10. QED BY <2>1, <2>2, <2>3, <2>4, <2>5, <2>6, <2>7, <2>8, <2>9 DEF Next, Visit
<1>4. QED BY <1>2, <1>3 DEF PasswordInv

\* A password is set for the user it was typed for (handlePwReset).
THEOREM PasswordsOfTheirTarget == Spec => []PasswordIsOfTarget
<1>1. Init => PasswordInv
  <2>1. SUFFICES ASSUME Init PROVE PasswordInv
    OBVIOUS
  <2>2. ui.target = Nothing
    BY <2>1 DEF Init, Fresh
  <2>3. \A f \in Fetches : calls[f].kind \in {"list", "public", "none"}
    BY <2>1, ReadTyped DEF Init, NoCall
  <2>4. QED BY <2>2, <2>3 DEF PasswordInv, PasswordIsOfTarget
<1>2. TypeOK /\ PageInv /\ PasswordInv /\ [Next]_vars => TypeOK' /\ PageInv' /\ PasswordInv'
  BY TypeStep, PageStep, PasswordStep
<1>3. PasswordInv => PasswordIsOfTarget
  BY DEF PasswordInv
<1>4. QED BY TypeInit, PageInit, <1>1, <1>2, <1>3, PTL DEF Spec

-----------------------------------------------------------------------------
(* Flags and the requests behind them.                                     *)

LEMMA LoadingStep ==
  ASSUME TypeOK, PageInv, LoadingIsBacked, [Next]_vars
  PROVE  LoadingIsBacked'
<1>1. ui \in Ui /\ \A g \in Fetches : Fits(ui.page, calls[g])
  BY DEF TypeOK, PageInv
<1> DEFINE Backs(c) == c.kind \in {"list", "get"} /\ c.here
<1>2. ASSUME NEW g \in Fetches, Backs(calls'[g]) PROVE LoadingIsBacked'
  BY <1>2 DEF LoadingIsBacked
<1>3. ASSUME ~ui'.loading PROVE LoadingIsBacked'
  BY <1>3 DEF LoadingIsBacked
<1>4. ASSUME ui'.loading => ui.loading,
             \A g \in Fetches : Backs(calls[g]) => Backs(calls'[g])
      PROVE  LoadingIsBacked'
  BY <1>4 DEF LoadingIsBacked
<1>5. ~Backs(NoCall)
  BY DEF NoCall
<1>6. ASSUME NEW f \in Fetches, NEW c, Send(f, c)
      PROVE  \A g \in Fetches : Backs(calls[g]) => Backs(calls'[g])
  BY <1>5, <1>6 DEF Send, TypeOK
<1>7. ASSUME NEW f \in Fetches, NEW p \in Pages, NEW r \in Optional, Mount(p, r, f)
      PROVE  LoadingIsBacked'
  <2>1. CASE p = "form" /\ r = Nothing
    BY <1>3, <1>7, <2>1 DEF Mount, Fresh
  <2>2. CASE ~(p = "form" /\ r = Nothing)
    <3>1. calls'[f] = First(p, r)
      BY <1>7 DEF Mount
    <3>2. First(p, r).kind # "none"
      BY <2>2, FirstTyped
    <3>3. QED BY <1>2, <3>1, <3>2, FirstTyped
  <2>3. QED BY <2>1, <2>2
<1>8. ASSUME NEW f \in Fetches, NEW r \in Optional, Jump(f, r) PROVE LoadingIsBacked'
  <2>1. \A g \in Fetches : Backs(calls[g]) => Backs(calls'[g])
    BY <1>5, <1>8 DEF Jump, TypeOK
  <2>2. ui'.loading = ui.loading
    BY <1>1, <1>8 DEF Jump, Ui
  <2>3. QED BY <1>4, <2>1, <2>2
<1>9. ASSUME NEW f \in Fetches, NEW n \in 1 .. 2, SetPage(f, n) PROVE LoadingIsBacked'
  BY <1>2, <1>9, ReadTyped, SendTyped DEF SetPage
<1>10. ASSUME NEW f \in Fetches,
              (\E r \in Rows : Toggle(f, r) \/ PremiumToggle(f, r)) \/ Confirm(f) \/ Submit(f)
       PROVE  LoadingIsBacked'
  <2>1. \A g \in Fetches : Backs(calls[g]) => Backs(calls'[g])
    BY <1>6, <1>10 DEF Toggle, PremiumToggle, Confirm, Submit
  <2>2. ui'.loading = ui.loading
    BY <1>1, <1>10 DEF Toggle, PremiumToggle, Confirm, Submit, Step, Ui
  <2>3. QED BY <1>4, <2>1, <2>2
<1>11. ASSUME \/ TypePassword \/ CloseModal \/ UNCHANGED vars
              \/ \E r \in Rows : OpenModal(r) \/ Elsewhere(r)
              \/ \E r \in Optional : OpenForm(r)
       PROVE  LoadingIsBacked'
  <2>1. UNCHANGED calls /\ ui'.loading = ui.loading
    BY <1>1, <1>11 DEF TypePassword, CloseModal, OpenModal, Opened, Elsewhere, OpenForm, Step,
                       Ui, vars
  <2>2. QED BY <1>4, <2>1
<1>12. ASSUME NEW f \in Fetches, Serve(f) PROVE LoadingIsBacked'
  <2>1. ui' = ui
    BY <1>12 DEF Serve, Refuse, ServeRead, Find, Save, SaveEmpty, Create, Delete, Hidden, Make,
         MadeTo
  <2>2. ASSUME NEW g \in Fetches, Backs(calls[g]) PROVE Backs(calls'[g])
    <3>1. calls[f].kind # "none"
      BY <1>12 DEF Serve, Refuse, ServeRead, Find, Save, SaveEmpty, Create, Delete, Hidden, Asked,
           Changes,
               TypeOK, NoCall, Call
    <3>2. CASE Refuse(f)
      <4>1. Answered(f, [calls[f] EXCEPT !.reply = "fail"])
        BY <3>2 DEF Refuse, Reply
      <4>2. /\ g # f => calls'[g] = calls[g]
            /\ calls[f].here => calls'[f].kind = calls[f].kind /\ calls'[f].here = calls[f].here
        BY <3>1, <4>1, AnsweredTyped, EmptyTyped
      <4>3. QED BY <2>2, <4>2
    <3>3. CASE ServeRead(f)
      <4>1. Read(calls[f]) \in Tables
        BY EmptyTyped DEF Read, Shown, Tables
      <4>2. Answered(f, [calls[f] EXCEPT !.reply = "ok", !.snap = Read(calls[f])])
        BY <3>3 DEF ServeRead
      <4>3. /\ g # f => calls'[g] = calls[g]
            /\ calls[f].here => calls'[f].kind = calls[f].kind /\ calls'[f].here = calls[f].here
        BY <3>1, <4>1, <4>2, AnsweredTyped
      <4>4. QED BY <2>2, <4>3
    <3>4. CASE Find(f)
      BY <2>2, <3>1, <3>4, LiveCall DEF Find, TypeOK, Call
    <3>5. ASSUME NEW t, MadeTo(f, t) PROVE Backs(calls'[g])
      <4>1. /\ g # f => calls'[g] = calls[g]
            /\ calls[f].here => calls'[f].kind = calls[f].kind /\ calls'[f].here = calls[f].here
        BY <3>1, <3>5, MakeTyped
      <4>2. QED BY <2>2, <4>1
    <3>6. QED BY <1>12, <3>2, <3>3, <3>4, <3>5 DEF Serve, Save, SaveEmpty, Create, Delete, Hidden,
         Make
  <2>3. QED BY <1>4, <2>1, <2>2
<1>13. ASSUME NEW f \in Fetches, Deliver(f) PROVE LoadingIsBacked'
  <2>1. CASE Listed(f) \/ ListFailed(f) \/ FormLoaded(f)
    <3>1. ~ui'.loading
      BY <1>1, <2>1 DEF Listed, ListFailed, AfterFailure, FormLoaded, Step, Ui
    <3>2. QED BY <1>3, <3>1
  <2>2. CASE Changed(f)
    <3>1. calls[f].no \in 1 .. 2
      BY <2>2, LiveCall DEF Changed, Got, Changes, Call
    <3>2. calls'[f] = List(calls[f].no)
      BY <2>2 DEF Changed, Reload, TypeOK
    <3>3. QED BY <1>2, <3>1, <3>2, ReadTyped
  <2>3. ASSUME calls[f].kind \notin {"list", "get"},
               \A g \in Fetches \ {f} : calls'[g] = calls[g], ui'.loading = ui.loading
        PROVE  LoadingIsBacked'
    BY <1>4, <2>3
  <2>4. \A c \in Call :
          /\ Cleared(ui, c).loading = ui.loading /\ Cleared(ui, c) \in Ui
          /\ Cleared(Closed(ui, c), c).loading = ui.loading
    <3>1. SUFFICES ASSUME NEW c \in Call
                   PROVE  /\ Cleared(ui, c).loading = ui.loading
                          /\ Cleared(Closed(ui, c), c).loading = ui.loading
      BY <1>1, ClearedTyped
    <3>2. QED BY <1>1 DEF Cleared, Closed, Ui
  <2>5. CASE SidebarLoaded(f)
    BY <2>3, <2>5, DoneTyped DEF SidebarLoaded
  <2>6. CASE PasswordSet(f)
    <3>1. ui'.loading = ui.loading
      BY <2>4, <2>6, LiveCall DEF PasswordSet, Got, Step
    <3>2. QED BY <2>3, <2>6, <3>1, DoneTyped DEF PasswordSet, Got
  <2>7. CASE SettingSaved(f)
    <3>1. ui'.loading = ui.loading
      BY <2>4, <2>7, LiveCall DEF SettingSaved, Got, Step, Ui
    <3>2. QED BY <2>3, <2>7, <3>1 DEF SettingSaved, Got, TypeOK
  <2>8. CASE FormSaved(f)
    BY <1>7, <2>3, <2>8, DoneTyped DEF FormSaved, Got, Pages, Optional
  <2>9. CASE Failed(f)
    <3>1. ui'.loading = ui.loading
      BY <2>4, <2>9, LiveCall DEF Failed, Got, Changes, Step
    <3>2. QED BY <2>3, <2>9, <3>1, DoneTyped DEF Failed, Got, Changes
  <2>10. QED BY <1>13, <2>1, <2>2, <2>5, <2>6, <2>7, <2>8, <2>9 DEF Deliver
<1>14. QED BY <1>7, <1>8, <1>9, <1>10, <1>11, <1>12, <1>13 DEF Next, Visit

\* The request a flag is set for.
Holds(k, c) ==
  c.here /\ c.kind \in IF k = "modal" THEN {"delete", "password"} ELSE {"set", "create"}

Counted(k) == k = "modal" \/ ui.page \notin Toggles

BusyInv ==
  \A k \in {"modal", "form"} : Counted(k) =>
    /\ k \in ui.busy <=> \E f \in Fetches : Holds(k, calls[f])
    /\ \A f, g \in Fetches : Holds(k, calls[f]) /\ Holds(k, calls[g]) => f = g

LEMMA BusyInvIsOneRequest == BusyInv <=> OneRequestPerModal
BY DEF BusyInv, Counted, Holds, OneRequestPerModal

\* The page stays: nothing is sent or answered that holds a flag ...
LEMMA BusyKept ==
  ASSUME BusyInv, ui'.page = ui.page,
         NEW k \in {"modal", "form"}, k \in ui'.busy <=> k \in ui.busy,
         \A g \in Fetches : Holds(k, calls'[g]) <=> Holds(k, calls[g])
  PROVE  Counted(k)' =>
           /\ k \in ui'.busy <=> \E f \in Fetches : Holds(k, calls'[f])
           /\ \A f, g \in Fetches : Holds(k, calls'[f]) /\ Holds(k, calls'[g]) => f = g
BY DEF BusyInv, Counted

\* ... the one that does is answered ...
LEMMA BusyReleased ==
  ASSUME BusyInv, ui'.page = ui.page, NEW k \in {"modal", "form"}, k \notin ui'.busy,
         NEW f \in Fetches, Holds(k, calls[f]), ~Holds(k, calls'[f]),
         \A g \in Fetches \ {f} : calls'[g] = calls[g]
  PROVE  Counted(k)' =>
           /\ k \in ui'.busy <=> \E g \in Fetches : Holds(k, calls'[g])
           /\ \A g, h \in Fetches : Holds(k, calls'[g]) /\ Holds(k, calls'[h]) => g = h
BY DEF BusyInv, Counted

\* ... or one is sent.
LEMMA BusyTaken ==
  ASSUME BusyInv, ui'.page = ui.page, NEW k \in {"modal", "form"}, Counted(k),
         k \notin ui.busy, k \in ui'.busy, NEW f \in Fetches, Holds(k, calls'[f]),
         \A g \in Fetches \ {f} : calls'[g] = calls[g]
  PROVE  /\ k \in ui'.busy <=> \E g \in Fetches : Holds(k, calls'[g])
         /\ \A g, h \in Fetches : Holds(k, calls'[g]) /\ Holds(k, calls'[h]) => g = h
BY DEF BusyInv

LEMMA BusyStep ==
  ASSUME TypeOK, PageInv, BusyInv, [Next]_vars
  PROVE  BusyInv'
<1>1. ui \in Ui /\ \A g \in Fetches : Fits(ui.page, calls[g])
  BY DEF TypeOK, PageInv
<1>2. \A k : ~Holds(k, NoCall)
  BY DEF Holds, NoCall
<1>3. ASSUME ui'.page = ui.page, ui'.busy = ui.busy,
             \A k \in {"modal", "form"}, g \in Fetches : Holds(k, calls'[g]) <=> Holds(k, calls[g])
      PROVE  BusyInv'
  BY <1>3, BusyKept DEF BusyInv
<1>4. ASSUME NEW f \in Fetches, NEW p \in Pages, NEW r \in Optional, Mount(p, r, f)
      PROVE  BusyInv'
  <2>1. ui'.busy = {}
    BY <1>4 DEF Mount, Fresh
  <2>2. ASSUME NEW k \in {"modal", "form"}, NEW g \in Fetches PROVE ~Holds(k, calls'[g])
    <3>1. CASE g = f
      BY <1>4, <3>1, FirstTyped DEF Mount, Holds
    <3>2. CASE g # f
      BY <1>2, <1>4, <3>2, LeftTyped DEF Mount, Holds
    <3>3. QED BY <3>1, <3>2
  <2>3. QED BY <2>1, <2>2 DEF BusyInv
<1>5. ASSUME NEW f \in Fetches, NEW r \in Optional, Jump(f, r) PROVE BusyInv'
  <2>1. ui'.page = ui.page /\ ui'.busy = ui.busy
    BY <1>1, <1>5 DEF Jump, Ui
  <2>2. \A k \in {"modal", "form"} : ~Holds(k, First("form", r))
    BY FirstTyped DEF Holds, Pages
  <2>3. QED BY <1>2, <1>3, <1>5, <2>1, <2>2 DEF Jump, TypeOK
<1>6. ASSUME NEW f \in Fetches, NEW c \in Call, Send(f, c), ui'.page = ui.page, ui'.busy = ui.busy,
             c.kind \in {"list", "premium"} \/ (c.kind = "set" /\ ui.page \in Toggles)
      PROVE  BusyInv'
  <2>1. ASSUME NEW k \in {"modal", "form"}, Counted(k), NEW g \in Fetches
        PROVE  Holds(k, calls'[g]) <=> Holds(k, calls[g])
    BY <1>2, <1>6, <2>1, SendTyped DEF Holds, Counted
  <2>2. QED BY <1>6, <2>1 DEF BusyInv, Counted
<1>7. ASSUME NEW f \in Fetches, NEW r \in Rows, Toggle(f, r) PROVE BusyInv'
  <2>1. 3 - ui.table[r] \in {0} \cup Values /\ ui.page \in Toggles
    BY <1>7 DEF Toggle, MayToggle, InTable, Values
  <2>2. ui'.page = ui.page /\ ui'.busy = ui.busy
    BY <1>1, <1>7 DEF Toggle, Step, Ui
  <2>3. QED BY <1>6, <1>7, <2>1, <2>2, RequestTyped DEF Toggle, Changes, Optional
<1>8. ASSUME NEW f \in Fetches, NEW r \in Rows, PremiumToggle(f, r) PROVE BusyInv'
  <2>1. ui'.page = ui.page /\ ui'.busy = ui.busy
    BY <1>1, <1>8 DEF PremiumToggle, Step, Ui
  <2>2. QED BY <1>6, <1>8, <2>1, RequestTyped DEF PremiumToggle, Changes, Optional
<1>9. ASSUME NEW f \in Fetches, NEW n \in 1 .. 2, SetPage(f, n) PROVE BusyInv'
  <2>1. ui'.page = ui.page /\ ui'.busy = ui.busy
    BY <1>1, <1>9 DEF SetPage, Step, Ui
  <2>2. QED BY <1>6, <1>9, <2>1, ReadTyped DEF SetPage
\* A modal or a form sends its request.
<1>10. ASSUME NEW f \in Fetches, NEW c \in Call, Send(f, c), NEW k \in {"modal", "form"},
              Counted(k), k \notin ui.busy, ui' = [ui EXCEPT !.busy = @ \cup {k}], c.here,
              c.kind \in IF k = "modal" THEN {"delete", "password"} ELSE {"set", "create"}
       PROVE  BusyInv'
  <2>1. ui'.page = ui.page /\ ui'.busy = ui.busy \cup {k}
    BY <1>1, <1>10 DEF Ui
  <2>2. /\ Holds(k, calls'[f]) /\ \A g \in Fetches \ {f} : calls'[g] = calls[g]
        /\ \A j \in {"modal", "form"} \ {k} : ~Holds(j, calls'[f]) /\ ~Holds(j, calls[f])
    BY <1>2, <1>10, SendTyped DEF Holds
  <2>3. ASSUME NEW j \in {"modal", "form"} \ {k}, NEW g \in Fetches
        PROVE  Holds(j, calls'[g]) <=> Holds(j, calls[g])
    BY <2>2, <2>3
  <2>4. QED BY <1>10, <2>1, <2>2, <2>3, BusyKept, BusyTaken DEF BusyInv
<1>11. ASSUME NEW f \in Fetches, Confirm(f) PROVE BusyInv'
  <2>1. PICK kind \in {"password", "delete"} : Send(f, Request(kind, ui.target, 0, ui.typed))
    BY <1>11 DEF Confirm
  <2>2. /\ Request(kind, ui.target, 0, ui.typed) \in Call
        /\ Request(kind, ui.target, 0, ui.typed).kind = kind
        /\ Request(kind, ui.target, 0, ui.typed).here
    BY <1>1, RequestTyped DEF Changes, Ui
  <2>3. QED BY <1>10, <1>11, <2>1, <2>2 DEF Confirm, MayConfirm, Counted, Step
<1>12. ASSUME NEW f \in Fetches, Submit(f) PROVE BusyInv'
  <2>1. PICK kind \in {"create", "set"} : Send(f, Request(kind, ui.editing, Edited, Nothing))
    BY <1>12 DEF Submit
  <2>2. /\ Request(kind, ui.editing, Edited, Nothing) \in Call
        /\ Request(kind, ui.editing, Edited, Nothing).kind = kind
        /\ Request(kind, ui.editing, Edited, Nothing).here
    BY <1>1, SubmitTyped
  <2>3. Counted("form")
    BY <1>12 DEF Submit, Counted, Toggles
  <2>4. QED BY <1>10, <1>12, <2>1, <2>2, <2>3 DEF Submit, Step
<1>13. ASSUME \/ TypePassword \/ CloseModal \/ UNCHANGED vars
              \/ \E r \in Rows : OpenModal(r) \/ Elsewhere(r)
              \/ \E r \in Optional : OpenForm(r)
       PROVE  BusyInv'
  <2>1. UNCHANGED calls /\ ui'.page = ui.page /\ ui'.busy = ui.busy
    BY <1>1, <1>13 DEF TypePassword, CloseModal, OpenModal, Opened, Elsewhere, OpenForm, Step,
                       Ui, vars
  <2>2. QED BY <1>3, <2>1
<1>14. ASSUME NEW f \in Fetches, Serve(f) PROVE BusyInv'
  <2>1. ui' = ui
    BY <1>14 DEF Serve, Refuse, ServeRead, Find, Save, SaveEmpty, Create, Delete, Hidden, Make,
         MadeTo
  <2>2. calls[f].kind # "none"
    BY <1>14 DEF Serve, Refuse, ServeRead, Find, Save, SaveEmpty, Create, Delete, Hidden, Asked,
         Changes,
             TypeOK, NoCall, Call
  <2>3. ASSUME \A g \in Fetches \ {f} : calls'[g] = calls[g],
               \/ calls'[f] = NoCall /\ ~calls[f].here
               \/ calls'[f].kind = calls[f].kind /\ calls'[f].here = calls[f].here
        PROVE  BusyInv'
    <3>1. \A k \in {"modal", "form"}, g \in Fetches : Holds(k, calls'[g]) <=> Holds(k, calls[g])
      BY <1>2, <2>3 DEF Holds
    <3>2. QED BY <1>3, <2>1, <3>1
  <2>4. CASE Refuse(f)
    <3>1. Answered(f, [calls[f] EXCEPT !.reply = "fail"])
      BY <2>4 DEF Refuse, Reply
    <3>2. /\ \A g \in Fetches \ {f} : calls'[g] = calls[g]
          /\ \/ calls'[f] = NoCall /\ ~calls[f].here
             \/ calls'[f].kind = calls[f].kind /\ calls'[f].here = calls[f].here
      BY <2>2, <3>1, AnsweredTyped, EmptyTyped
    <3>3. QED BY <2>3, <3>2
  <2>5. CASE ServeRead(f)
    <3>1. Read(calls[f]) \in Tables
      BY EmptyTyped DEF Read, Shown, Tables
    <3>2. Answered(f, [calls[f] EXCEPT !.reply = "ok", !.snap = Read(calls[f])])
      BY <2>5 DEF ServeRead
    <3>3. /\ \A g \in Fetches \ {f} : calls'[g] = calls[g]
          /\ \/ calls'[f] = NoCall /\ ~calls[f].here
             \/ calls'[f].kind = calls[f].kind /\ calls'[f].here = calls[f].here
      BY <2>2, <3>1, <3>2, AnsweredTyped
    <3>4. QED BY <2>3, <3>3
  <2>6. CASE Find(f)
    BY <2>2, <2>3, <2>6, LiveCall DEF Find, TypeOK, Call
  <2>7. ASSUME NEW t, MadeTo(f, t) PROVE BusyInv'
    <3>1. /\ \A g \in Fetches \ {f} : calls'[g] = calls[g]
          /\ \/ calls'[f] = NoCall /\ ~calls[f].here
             \/ calls'[f].kind = calls[f].kind /\ calls'[f].here = calls[f].here
      BY <2>2, <2>7, MakeTyped
    <3>2. QED BY <2>3, <3>1
  <2>8. QED BY <1>14, <2>4, <2>5, <2>6, <2>7 DEF Serve, Save, SaveEmpty, Create, Delete, Hidden,
       Make
<1>15. ASSUME NEW f \in Fetches, Deliver(f) PROVE BusyInv'
  <2>1. ASSUME ui'.page = ui.page, ui'.busy = ui.busy,
               \A g \in Fetches \ {f} : calls'[g] = calls[g],
               \A k \in {"modal", "form"} : Counted(k) =>
                 ~Holds(k, calls[f]) /\ ~Holds(k, calls'[f])
        PROVE  BusyInv'
    <3>1. ASSUME NEW k \in {"modal", "form"}, Counted(k), NEW g \in Fetches
          PROVE  Holds(k, calls'[g]) <=> Holds(k, calls[g])
      BY <2>1, <3>1
    <3>2. QED BY <2>1, <3>1 DEF BusyInv, Counted
  \* finally: the flag of the request is cleared.
  <2>2. ASSUME calls[f] \in Call, calls[f].kind \in Changes, calls[f].here,
               ui'.page = ui.page, ui'.busy = Cleared(ui, calls[f]).busy,
               \A g \in Fetches \ {f} : calls'[g] = calls[g],
               \A k \in {"modal", "form"} : ~Holds(k, calls'[f])
        PROVE  BusyInv'
    <3>1. CASE calls[f].kind = "premium" \/ (calls[f].kind = "set" /\ ui.page \in Toggles)
      <4>1. ui'.busy = ui.busy
        BY <1>1, <2>2, <3>1 DEF Cleared, Ui
      <4>2. \A k \in {"modal", "form"} : Counted(k) => ~Holds(k, calls[f])
        BY <3>1 DEF Holds, Counted
      <4>3. QED BY <2>1, <2>2, <4>1, <4>2
    <3>2. CASE calls[f].kind \in {"delete", "password"}
      <4>1. ui'.busy = ui.busy \ {"modal"}
        BY <1>1, <2>2, <3>2 DEF Cleared, Ui
      <4>2. Holds("modal", calls[f]) /\ ~Holds("form", calls[f])
        BY <2>2, <3>2 DEF Holds
      <4>3. \A g \in Fetches : Holds("form", calls'[g]) <=> Holds("form", calls[g])
        BY <2>2, <4>2
      <4>4. QED BY <2>2, <4>1, <4>2, <4>3, BusyKept, BusyReleased DEF BusyInv
    <3>3. CASE calls[f].kind \in {"set", "create"} /\ ~(calls[f].kind = "set" /\ ui.page \in Toggles)
      <4>1. ui'.busy = ui.busy \ {"form"}
        BY <1>1, <2>2, <3>3 DEF Cleared, Ui
      <4>2. Holds("form", calls[f]) /\ ~Holds("modal", calls[f])
        BY <2>2, <3>3 DEF Holds
      <4>3. \A g \in Fetches : Holds("modal", calls'[g]) <=> Holds("modal", calls[g])
        BY <2>2, <4>2
      <4>4. QED BY <2>2, <4>1, <4>2, <4>3, BusyKept, BusyReleased DEF BusyInv
    <3>4. QED BY <2>2, <3>1, <3>2, <3>3 DEF Changes
  <2>3. \A c \in Call :
          /\ Cleared(ui, c).page = ui.page /\ Cleared(ui, c) \in Ui
          /\ Cleared(Closed(ui, c), c).page = ui.page /\ Cleared(Closed(ui, c), c) \in Ui
          /\ Cleared(Closed(ui, c), c).busy = Cleared(ui, c).busy
    <3>1. SUFFICES ASSUME NEW c \in Call
                   PROVE  /\ Cleared(ui, c).page = ui.page
                          /\ Cleared(Closed(ui, c), c).page = ui.page
                          /\ Cleared(Closed(ui, c), c).busy = Cleared(ui, c).busy
      BY <1>1, ClearedTyped
    <3>2. QED BY <1>1 DEF Cleared, Closed, Ui
  <2>4. CASE Listed(f) \/ ListFailed(f) \/ FormLoaded(f) \/ SidebarLoaded(f)
    <3>1. ui'.page = ui.page /\ ui'.busy = ui.busy
      BY <1>1, <2>4 DEF Listed, ListFailed, AfterFailure, FormLoaded, SidebarLoaded, Step, Ui
    <3>2. calls[f].kind \in {"list", "get", "public"} /\ Done(f)
      BY <2>4 DEF Listed, ListFailed, FormLoaded, SidebarLoaded, Got
    <3>3. \A k \in {"modal", "form"} : ~Holds(k, calls[f])
      BY <3>2 DEF Holds
    <3>4. QED BY <1>2, <2>1, <3>1, <3>2, <3>3, DoneTyped
  <2>5. CASE Changed(f)
    <3>1. calls[f] \in Call /\ calls[f].kind \in Changes /\ calls[f].no \in 1 .. 2
      BY <2>5, LiveCall DEF Changed, Got, Changes, Call
    <3>2. calls[f].here
      BY <1>1, <2>5 DEF Changed, Got, Changes, Fits, Table
    <3>3. ui' = [Cleared(Closed(ui, calls[f]), calls[f]) EXCEPT !.loading = TRUE]
      BY <2>5 DEF Changed, Reload, Step
    <3>4. ui'.page = ui.page /\ ui'.busy = Cleared(ui, calls[f]).busy
      BY <2>3, <3>1, <3>3 DEF Ui
    <3>5. /\ calls'[f] = List(calls[f].no)
          /\ \A g \in Fetches \ {f} : calls'[g] = calls[g]
      BY <2>5 DEF Changed, Reload, TypeOK
    <3>6. \A k \in {"modal", "form"} : ~Holds(k, calls'[f])
      BY <3>1, <3>5, ReadTyped DEF Holds
    <3>7. QED BY <2>2, <3>1, <3>2, <3>4, <3>5, <3>6
  <2>6. CASE PasswordSet(f)
    <3>1. calls[f] \in Call /\ calls[f].kind \in Changes
      BY <2>6, LiveCall DEF PasswordSet, Got, Changes
    <3>2. calls[f].here
      BY <1>1, <2>6 DEF PasswordSet, Got, Fits
    <3>3. ui'.page = ui.page /\ ui'.busy = Cleared(ui, calls[f]).busy
      BY <2>3, <2>6, <3>1 DEF PasswordSet, Step
    <3>4. QED BY <1>2, <2>2, <2>6, <3>1, <3>2, <3>3, DoneTyped DEF PasswordSet
  <2>7. CASE SettingSaved(f)
    <3>1. calls[f] \in Call /\ calls[f].kind = "set" /\ ui.page = "settings"
      BY <2>7, LiveCall DEF SettingSaved, Got
    <3>2. ui'.page = ui.page /\ ui'.busy = ui.busy
      <4>1. Cleared(ui, calls[f]).busy = ui.busy
        BY <1>1, <3>1 DEF Cleared, Toggles, Ui
      <4>2. QED BY <2>3, <2>7, <3>1, <4>1 DEF SettingSaved, Step, Ui
    <3>3. /\ calls'[f] = ReloadSidebar
          /\ \A g \in Fetches \ {f} : calls'[g] = calls[g]
      BY <2>7 DEF SettingSaved, TypeOK
    <3>4. \A k \in {"modal", "form"} : Counted(k) => ~Holds(k, calls[f]) /\ ~Holds(k, calls'[f])
      BY <3>1, <3>3, ReadTyped DEF Holds, Counted, ReloadSidebar, Toggles
    <3>5. QED BY <2>1, <3>2, <3>3, <3>4
  <2>8. CASE FormSaved(f)
    <3>1. CASE ui.page = "form"
      BY <1>4, <2>8, <3>1 DEF FormSaved, Pages, Optional
    <3>2. CASE ui.page # "form"
      <4>1. ~calls[f].here
        BY <1>1, <2>8, <3>2 DEF FormSaved, Got, Fits
      <4>2. \A k \in {"modal", "form"} : ~Holds(k, calls[f])
        BY <4>1 DEF Holds
      <4>3. QED BY <1>2, <2>1, <2>8, <3>2, <4>2, DoneTyped DEF FormSaved
    <3>3. QED BY <3>1, <3>2
  <2>9. CASE Failed(f)
    <3>1. calls[f] \in Call /\ calls[f].kind \in Changes
      BY <2>9, LiveCall DEF Failed, Got, Changes
    <3>2. CASE calls[f].here
      <4>1. ui'.page = ui.page /\ ui'.busy = Cleared(ui, calls[f]).busy
        BY <2>3, <2>9, <3>1, <3>2 DEF Failed, Step
      <4>2. QED BY <1>2, <2>2, <2>9, <3>1, <3>2, <4>1, DoneTyped DEF Failed
    <3>3. CASE ~calls[f].here
      <4>1. \A k \in {"modal", "form"} : ~Holds(k, calls[f])
        BY <3>3 DEF Holds
      <4>2. QED BY <1>2, <2>1, <2>9, <3>3, <4>1, DoneTyped DEF Failed, Step
    <3>4. QED BY <3>2, <3>3
  <2>10. QED BY <1>15, <2>4, <2>5, <2>6, <2>7, <2>8, <2>9 DEF Deliver
<1>16. QED BY <1>4, <1>5, <1>7, <1>8, <1>9, <1>11, <1>12, <1>13, <1>14, <1>15 DEF Next, Visit

\* What a page shows as under way is its one request or its one load: buttons
\* of modals and forms are disabled just while their request is unanswered.
THEOREM FlagsBacked == Spec => []BusyIsBacked
<1>1. Init => LoadingIsBacked /\ BusyInv
  <2>1. SUFFICES ASSUME Init PROVE LoadingIsBacked /\ BusyInv
    OBVIOUS
  <2>2. PICK p \in Toggles \cup {"categories", "challenges"}, f \in Fetches, g \in Fetches :
          /\ f # g
          /\ calls = [h \in Fetches |-> CASE h = f -> List(1)
                                          [] h = g /\ p = "settings" -> Public
                                          [] OTHER -> NoCall]
    BY <2>1 DEF Init
  <2>3. calls[f].kind = "list" /\ calls[f].here
    BY <2>2, ReadTyped
  <2>4. \A h \in Fetches : calls[h].kind \in {"list", "public", "none"}
    BY <2>2, ReadTyped DEF NoCall
  <2>5. ui.busy = {}
    BY <2>1 DEF Init, Fresh
  <2>6. LoadingIsBacked
    BY <2>3 DEF LoadingIsBacked
  <2>7. \A k \in {"modal", "form"}, h \in Fetches : ~Holds(k, calls[h])
    BY <2>4 DEF Holds
  <2>8. QED BY <2>5, <2>6, <2>7 DEF BusyInv
<1>2. TypeOK /\ PageInv /\ LoadingIsBacked /\ BusyInv /\ [Next]_vars
        => TypeOK' /\ PageInv' /\ LoadingIsBacked' /\ BusyInv'
  BY TypeStep, PageStep, LoadingStep, BusyStep
<1>3. LoadingIsBacked /\ BusyInv => BusyIsBacked
  BY BusyInvIsOneRequest DEF BusyIsBacked
<1>4. QED BY TypeInit, PageInit, <1>1, <1>2, <1>3, PTL DEF Spec

-----------------------------------------------------------------------------
(* What was asked of a row.                                                *)

SetsOf(r) == {g \in Fetches : calls[g].kind = "set" /\ calls[g].row = r}

LEMMA RowParts ==
  ASSUME NEW r \in Rows, RowInv(r), asked[r] # 0
  PROVE  /\ ui.page \in Toggles
         /\ \A g \in SetsOf(r) :
              /\ calls[g].here /\ calls[g].value = asked[r] /\ ui.slot = r
              /\ \A h \in Fetches : calls[h].kind = "set" => h = g
         /\ (\A g \in SetsOf(r) : calls[g].reply = "ok") => stored[r] = asked[r]
BY DEF RowInv, SetsOf

\* Nothing is on the way for the row, which has what was asked for.
LEMMA RowSettled ==
  ASSUME NEW r \in Rows, asked'[r] # 0 => ui'.page \in Toggles /\ stored'[r] = asked'[r],
         asked'[r] # 0 => \A g \in Fetches : calls'[g].kind = "set" => calls'[g].row # r
  PROVE  RowInv(r)'
BY DEF RowInv

\* One request is on the way that asks for it.
LEMMA RowAsking ==
  ASSUME NEW r \in Rows, ui'.page \in Toggles, ui'.slot = r, NEW f \in Fetches,
         calls'[f].kind = "set", calls'[f].row = r, calls'[f].here, calls'[f].value = asked'[r],
         calls'[f].reply = "ok" => stored'[r] = asked'[r],
         \A g \in Fetches \ {f} : calls'[g].kind # "set"
  PROVE  RowInv(r)'
BY DEF RowInv

\* A look-up fails: its own row is forgotten, the others stay as they are.
LEMMA RowServeEmpty ==
  ASSUME TypeOK, PageInv, NEW f \in Fetches, SaveEmpty(f), NEW r \in Rows, RowInv(r),
         asked[r] # 0
  PROVE  RowInv(r)'
<1>1. calls[f].kind = "set" /\ ui' = ui
  BY DEF SaveEmpty, Asked, MadeTo
<1>2. asked' = [asked EXCEPT ![calls[f].row] = 0]
  BY DEF SaveEmpty
<1>3. CASE calls[f].row = r
  <2>1. asked'[r] = 0
    BY <1>2, <1>3 DEF TypeOK, Tables
  <2>2. QED BY <2>1 DEF RowInv
<1>4. CASE calls[f].row # r
  <2>1. ui.page \in Toggles /\ asked'[r] = asked[r]
    BY <1>2, <1>4, RowParts DEF TypeOK, Tables
  <2>2. SetsOf(r) = {}
    BY <1>1, <1>4, RowParts DEF SetsOf
  <2>3. stored[r] = asked[r] /\ stored[r] # Unborn
    BY <2>1, <2>2, RowParts DEF PageInv, SaveEmpty, Toggles
  <2>4. stored'[r] = stored[r]
    BY <2>3 DEF SaveEmpty, MadeTo, WithNewRow, TypeOK
  <2>5. \A g \in Fetches : calls'[g].kind = "set" => calls'[g].row # r
    <3>1. Serve(f)
      BY DEF Serve
    <3>2. QED BY <2>2, <3>1, ServeSame DEF SetsOf, Same
  <2>6. QED BY <1>1, <2>1, <2>3, <2>4, <2>5, RowSettled
<1>5. QED BY <1>3, <1>4

\* The server takes a request.
LEMMA RowServe ==
  ASSUME TypeOK, PageInv, NEW f \in Fetches, Serve(f), NEW r \in Rows, RowInv(r),
         asked[r] # 0
  PROVE  RowInv(r)'
<1>0. SUFFICES ASSUME ~SaveEmpty(f) PROVE RowInv(r)'
  BY RowServeEmpty
<1>1. calls[f].kind # "none"
  BY DEF Serve, Refuse, ServeRead, Find, Save, SaveEmpty, Create, Delete, Hidden, Asked, Changes,
         TypeOK, NoCall, Call
<1>2. calls[f] \in Call /\ Fits(ui.page, calls[f]) /\ ui.page \in Toggles
  BY <1>1, LiveCall, RowParts DEF PageInv
<1>3. ui' = ui /\ asked' = asked
  BY <1>0 DEF Serve, Refuse, ServeRead, Find, Save, Create, Delete, Hidden, Make, MadeTo
\* A row changes by an update of it alone.
<1>4. IF Save(f) /\ f \in SetsOf(r) THEN stored'[r] = calls[f].value ELSE stored'[r] = stored[r]
  <2>1. CASE Save(f)
    <3>1. calls[f].kind = "set"
      BY <1>2, <2>1 DEF Save, Asked, Fits
    <3>2. stored' = [stored EXCEPT ![calls[f].row] = calls[f].value]
      BY <2>1 DEF Save, Make, MadeTo
    <3>3. QED BY <2>1, <3>1, <3>2 DEF TypeOK, SetsOf
  <2>2. CASE ~Save(f)
    <3>1. ~Create(f) /\ ~Delete(f)
      BY <1>2 DEF Create, Delete, Asked, Fits
    <3>2. QED BY <1>0, <2>2, <3>1 DEF Serve, Refuse, ServeRead, Find, Hidden, Make, MadeTo
  <2>3. QED BY <2>1, <2>2
<1>5. /\ \A g \in Fetches \ {f} : calls'[g] = calls[g]
      /\ \/ calls'[f] = NoCall /\ ~calls[f].here
         \/ /\ Same(calls[f], calls'[f]) /\ calls'[f].here = calls[f].here
            /\ calls'[f].reply = "ok" => Save(f) \/ calls[f].kind # "set"
  <2>1. CASE Refuse(f)
    <3>1. Answered(f, [calls[f] EXCEPT !.reply = "fail"])
      BY <2>1 DEF Refuse, Reply
    <3>2. QED BY <1>1, <3>1, AnsweredTyped, EmptyTyped DEF Same
  <2>2. CASE ServeRead(f)
    <3>1. Read(calls[f]) \in Tables
      BY EmptyTyped DEF Read, Shown, Tables
    <3>2. Answered(f, [calls[f] EXCEPT !.reply = "ok", !.snap = Read(calls[f])])
      BY <2>2 DEF ServeRead
    <3>3. calls[f].kind # "set"
      BY <2>2 DEF ServeRead, Asked
    <3>4. QED BY <1>1, <3>1, <3>2, <3>3, AnsweredTyped DEF Same
  <2>3. CASE Find(f)
    BY <1>2, <2>3 DEF Find, Same, TypeOK, Call
  <2>4. ASSUME NEW t, MadeTo(f, t), Save(f) \/ calls[f].kind # "set"
        PROVE  /\ \A g \in Fetches \ {f} : calls'[g] = calls[g]
               /\ \/ calls'[f] = NoCall /\ ~calls[f].here
                  \/ Same(calls[f], calls'[f]) /\ calls'[f].here = calls[f].here
    BY <1>1, <2>4, MakeTyped DEF Same
  <2>5. CASE Save(f)
    BY <2>4, <2>5 DEF Save, Make
  <2>6. CASE Create(f) \/ Delete(f) \/ Hidden(f)
    <3>1. calls[f].kind # "set"
      BY <2>6 DEF Create, Delete, Hidden, Asked
    <3>2. QED BY <2>4, <2>6, <3>1 DEF Create, Delete, Hidden, Make
  <2>7. QED BY <1>0, <2>1, <2>2, <2>3, <2>5, <2>6 DEF Serve
<1>6. CASE SetsOf(r) = {}
  <2>1. stored[r] = asked[r]
    BY <1>6, RowParts
  <2>2. \A g \in Fetches : calls'[g].kind = "set" => calls'[g].row # r
    BY <1>5, <1>6 DEF SetsOf, Same, NoCall
  <2>3. stored'[r] = stored[r]
    BY <1>4, <1>6
  <2>4. QED BY <1>2, <1>3, <2>1, <2>2, <2>3, RowSettled
<1>7. ASSUME NEW g \in SetsOf(r) PROVE RowInv(r)'
  <2>1. /\ calls[g].here /\ calls[g].value = asked[r] /\ ui.slot = r
        /\ \A h \in Fetches : calls[h].kind = "set" => h = g
        /\ g \in Fetches /\ calls[g].kind = "set" /\ calls[g].row = r
    BY <1>7, RowParts DEF SetsOf
  <2>2. \A h \in Fetches \ {g} : calls'[h].kind # "set"
    BY <1>5, <2>1 DEF Same, NoCall
  <2>3. /\ calls'[g].kind = "set" /\ calls'[g].row = r /\ calls'[g].here
        /\ calls'[g].value = asked'[r]
    BY <1>3, <1>5, <2>1 DEF Same
  <2>4. calls'[g].reply = "ok" => stored'[r] = asked'[r]
    <3>1. CASE f = g
      BY <1>3, <1>4, <1>5, <1>7, <2>1, <3>1, <2>3 DEF NoCall
    <3>2. CASE f # g
      <4>1. \A h \in SetsOf(r) : h = g
        BY <2>1 DEF SetsOf
      <4>2. calls'[g] = calls[g] /\ stored'[r] = stored[r]
        BY <1>4, <1>5, <2>1, <3>2, <4>1
      <4>3. QED BY <1>3, <4>1, <4>2, RowParts
    <3>3. QED BY <3>1, <3>2
  <2>5. QED BY <1>2, <1>3, <2>1, <2>2, <2>3, <2>4, RowAsking
<1>8. QED BY <1>6, <1>7

\* An answer comes.
LEMMA RowDeliver ==
  ASSUME TypeOK, PageInv, NEW f \in Fetches, Deliver(f), NEW r \in Rows, RowInv(r),
         asked[r] # 0
  PROVE  RowInv(r)'
<1>1. calls[f] \in Call
  BY LiveCall DEF Deliver, Listed, ListFailed, FormLoaded, SidebarLoaded, Changed,
                  PasswordSet, SettingSaved, FormSaved, Failed, Got, Changes
<1>2. ui \in Ui /\ ui.page \in Toggles /\ ~FormSaved(f)
  BY RowParts DEF TypeOK, FormSaved, Toggles, Table
<1>3. UNCHANGED stored
  BY <1>2 DEF Deliver, Listed, ListFailed, FormLoaded, SidebarLoaded, Changed, Reload, PasswordSet,
     SettingSaved, Failed, Step
<1>4. /\ \A g \in Fetches \ {f} : calls'[g] = calls[g]
      /\ calls'[f].kind # "set"
  <2>1. CASE Changed(f)
    BY <1>1, <2>1, ReadTyped DEF Changed, Reload, TypeOK, Call
  <2>2. CASE SettingSaved(f)
    BY <2>2, ReadTyped DEF SettingSaved, ReloadSidebar, TypeOK
  <2>3. CASE Done(f)
    BY <2>3, DoneTyped DEF NoCall
  <2>4. QED BY <1>2, <2>1, <2>2, <2>3 DEF Deliver, Listed, ListFailed, FormLoaded, SidebarLoaded,
               PasswordSet, Failed
<1>5. ui'.page = ui.page /\ (calls[f].kind # "set" => ui'.slot = ui.slot)
  <2>1. /\ Cleared(ui, calls[f]).page = ui.page /\ Cleared(ui, calls[f]) \in Ui
        /\ Cleared(Closed(ui, calls[f]), calls[f]).page = ui.page
        /\ Cleared(Closed(ui, calls[f]), calls[f]) \in Ui
        /\ calls[f].kind # "set" =>
             /\ Cleared(ui, calls[f]).slot = ui.slot
             /\ Cleared(Closed(ui, calls[f]), calls[f]).slot = ui.slot
    <3>1. Cleared(ui, calls[f]) \in Ui /\ Cleared(Closed(ui, calls[f]), calls[f]) \in Ui
      BY <1>1, <1>2, ClearedTyped
    <3>2. QED BY <1>1, <1>2, <3>1 DEF Cleared, Closed, Ui
  <2>2. CASE Listed(f) \/ ListFailed(f) \/ FormLoaded(f) \/ SidebarLoaded(f)
    BY <1>2, <2>2 DEF Listed, ListFailed, AfterFailure, FormLoaded, SidebarLoaded, Step, Ui
  <2>3. CASE Changed(f)
    <3>1. ui' = [Cleared(Closed(ui, calls[f]), calls[f]) EXCEPT !.loading = TRUE]
      BY <2>3 DEF Changed, Reload, Step
    <3>2. QED BY <2>1, <3>1 DEF Ui
  <2>4. CASE SettingSaved(f)
    BY <2>1, <2>4 DEF SettingSaved, Got, Step, Ui
  <2>5. CASE PasswordSet(f) \/ Failed(f)
    BY <2>1, <2>5 DEF PasswordSet, Failed, Step
  <2>6. QED BY <1>2, <2>2, <2>3, <2>4, <2>5 DEF Deliver
<1>6. /\ \A s \in Rows : asked'[s] \in {0, asked[s]}
      /\ calls[f].kind # "set" \/ ~Failed(f) => asked' = asked
      /\ Failed(f) /\ calls[f].kind = "set" /\ calls[f].row = r => asked'[r] = 0
  BY <1>2 DEF Deliver, Listed, ListFailed, FormLoaded, SidebarLoaded, Changed, Reload, PasswordSet,
     SettingSaved, Failed, TypeOK, Tables
<1>7. CASE SetsOf(r) = {}
  <2>1. stored[r] = asked[r]
    BY <1>7, RowParts
  <2>2. \A g \in Fetches : calls'[g].kind = "set" => calls'[g].row # r
    BY <1>4, <1>7 DEF SetsOf
  <2>3. QED BY <1>2, <1>3, <1>5, <1>6, <2>1, <2>2, RowSettled
<1>8. ASSUME NEW g \in SetsOf(r) PROVE RowInv(r)'
  <2>1. /\ calls[g].here /\ calls[g].value = asked[r] /\ ui.slot = r
        /\ \A h \in Fetches : calls[h].kind = "set" => h = g
        /\ g \in Fetches /\ calls[g].kind = "set" /\ calls[g].row = r
    BY <1>8, RowParts DEF SetsOf
  <2>2. \A h \in SetsOf(r) : h = g
    BY <2>1 DEF SetsOf
  <2>3. CASE f = g
    <3>1. \A h \in Fetches : calls'[h].kind # "set"
      BY <1>4, <2>1, <2>3
    <3>2. CASE Failed(f)
      BY <1>6, <2>1, <2>3, <3>1, <3>2, RowSettled
    <3>3. CASE ~Failed(f)
      <4>1. calls[g].reply = "ok"
        BY <1>2, <2>1, <2>3, <3>3 DEF Deliver, Listed, ListFailed, FormLoaded, SidebarLoaded,
           Changed, PasswordSet, SettingSaved, Got
      <4>2. stored[r] = asked[r]
        BY <2>2, <4>1, RowParts
      <4>3. QED BY <1>2, <1>3, <1>5, <1>6, <3>1, <3>3, <4>2, RowSettled
    <3>4. QED BY <3>2, <3>3
  <2>4. CASE f # g
    <3>1. calls[f].kind # "set" /\ calls'[g] = calls[g]
      BY <1>4, <2>1, <2>4
    <3>2. \A h \in Fetches \ {g} : calls'[h].kind # "set"
      BY <1>4, <2>1, <3>1
    <3>3. calls[g].reply = "ok" => stored[r] = asked[r]
      BY <2>2, RowParts
    <3>4. QED BY <1>2, <1>3, <1>5, <1>6, <2>1, <3>1, <3>2, <3>3, RowAsking
  <2>5. QED BY <2>3, <2>4
<1>9. QED BY <1>7, <1>8

\* A toggle asks for something, of its row.
LEMMA RowToggle ==
  ASSUME TypeOK, AskedInv, NEW f \in Fetches, NEW s \in Rows, Toggle(f, s), NEW r \in Rows
  PROVE  RowInv(r)'
<1> DEFINE v == 3 - ui.table[s]
           c == Request("set", s, v, Nothing)
<1>1. v \in Values /\ ui.page \in Toggles /\ ui.slot # s
  BY DEF Toggle, MayToggle, InTable, Values
<1>2. /\ c \in Call /\ c.kind = "set" /\ c.row = s /\ c.value = v /\ c.here /\ c.reply = "pending"
  BY <1>1, RequestTyped DEF Changes, Optional
<1>3. /\ calls'[f] = c /\ \A g \in Fetches \ {f} : calls'[g] = calls[g]
      /\ calls[f] = NoCall
  BY <1>2, SendTyped DEF Toggle
<1>4. ui'.page = ui.page /\ ui'.slot = s /\ UNCHANGED stored
  BY DEF Toggle, Step, TypeOK, Ui
<1>5. asked' = Asks(s, v)
  BY DEF Toggle
<1>6. CASE asked' = Empty
  BY <1>6, RowSettled DEF Empty
<1>7. CASE asked' # Empty
  <2>1. /\ \A g \in Fetches : calls[g].kind = "set" => calls[g].row = s /\ asked[s] # 0
        /\ asked' = [asked EXCEPT ![s] = v]
    BY <1>5, <1>7 DEF Asks
  <2>2. \A g \in Fetches : calls[g].kind # "set"
    <3>1. SUFFICES ASSUME NEW g \in Fetches, calls[g].kind = "set" PROVE FALSE
      OBVIOUS
    <3>2. g \in SetsOf(s) /\ asked[s] # 0
      BY <2>1, <3>1 DEF SetsOf
    <3>3. QED BY <1>1, <3>2, RowParts DEF AskedInv
  <2>3. \A g \in Fetches \ {f} : calls'[g].kind # "set"
    BY <1>3, <2>2
  <2>4. CASE r = s
    <3>1. asked'[r] = v
      BY <2>1, <2>4 DEF TypeOK, Tables
    <3>2. QED BY <1>1, <1>2, <1>3, <1>4, <2>3, <2>4, <3>1, RowAsking
  <2>5. CASE r # s
    <3>1. asked'[r] = asked[r]
      BY <2>1, <2>5 DEF TypeOK, Tables
    <3>2. asked[r] # 0 => stored[r] = asked[r]
      BY <2>2, RowParts DEF AskedInv, SetsOf
    <3>3. \A g \in Fetches : calls'[g].kind = "set" => calls'[g].row # r
      BY <1>2, <1>3, <2>3, <2>5
    <3>4. QED BY <1>1, <1>4, <3>1, <3>2, <3>3, RowSettled
  <2>6. QED BY <2>4, <2>5
<1>8. QED BY <1>6, <1>7

LEMMA AskedStep ==
  ASSUME TypeOK, PageInv, AskedInv, [Next]_vars
  PROVE  AskedInv'
<1>1. SUFFICES ASSUME NEW r \in Rows PROVE RowInv(r)'
  BY DEF AskedInv
<1>2. RowInv(r) /\ ui \in Ui
  BY DEF AskedInv, TypeOK
<1>3. ASSUME asked'[r] = 0 PROVE RowInv(r)'
  BY <1>3, RowSettled
\* Nothing that concerns the row.
<1>4. ASSUME ui'.page = ui.page, ui'.slot = ui.slot, asked'[r] = asked[r], stored'[r] = stored[r],
             \A g \in Fetches : IF calls[g].kind = "set" THEN calls'[g] = calls[g]
                                ELSE calls'[g].kind # "set"
      PROVE  RowInv(r)'
  <2>1. CASE asked[r] = 0
    BY <1>3, <1>4, <2>1
  <2>2. CASE asked[r] # 0 /\ SetsOf(r) = {}
    <3>1. \A g \in Fetches : calls'[g].kind = "set" => calls'[g].row # r
      BY <1>4, <2>2 DEF SetsOf
    <3>2. stored[r] = asked[r] /\ ui.page \in Toggles
      BY <1>2, <2>2, RowParts
    <3>3. QED BY <1>4, <3>1, <3>2, RowSettled
  <2>3. ASSUME asked[r] # 0, NEW g \in SetsOf(r) PROVE RowInv(r)'
    <3>1. /\ calls[g].here /\ calls[g].value = asked[r] /\ ui.slot = r /\ ui.page \in Toggles
          /\ \A h \in Fetches : calls[h].kind = "set" => h = g
          /\ g \in Fetches /\ calls[g].kind = "set" /\ calls[g].row = r
      BY <1>2, <2>3, RowParts DEF SetsOf
    <3>2. \A h \in SetsOf(r) : h = g
      BY <3>1 DEF SetsOf
    <3>3. calls[g].reply = "ok" => stored[r] = asked[r]
      BY <1>2, <2>3, <3>2, RowParts
    <3>4. calls'[g] = calls[g] /\ \A h \in Fetches \ {g} : calls'[h].kind # "set"
      BY <1>4, <3>1
    <3>5. QED BY <1>4, <3>1, <3>3, <3>4, RowAsking
  <2>4. QED BY <2>1, <2>2, <2>3
<1>5. ASSUME UNCHANGED <<calls, asked, stored>>, ui'.page = ui.page, ui'.slot = ui.slot
      PROVE  RowInv(r)'
  BY <1>4, <1>5
<1>6. CASE TypePassword \/ CloseModal \/ UNCHANGED vars
  BY <1>2, <1>5, <1>6 DEF TypePassword, CloseModal, Step, Ui, vars
<1>7. ASSUME NEW s \in Rows, OpenModal(s) PROVE RowInv(r)'
  BY <1>2, <1>5, <1>7 DEF OpenModal, Opened, Step, Ui
<1>8. ASSUME NEW s \in Optional, OpenForm(s) PROVE RowInv(r)'
  BY <1>2, <1>5, <1>8 DEF OpenForm, Step, Ui
<1>9. ASSUME NEW s \in Rows, Elsewhere(s) PROVE RowInv(r)'
  <2>1. CASE r = s
    BY <1>3, <1>9, <2>1 DEF Elsewhere, TypeOK, Tables
  <2>2. CASE r # s
    BY <1>4, <1>9, <2>2 DEF Elsewhere, TypeOK, Tables
  <2>3. QED BY <2>1, <2>2
<1>10. ASSUME NEW f \in Fetches, NEW p \in Pages, NEW s \in Optional, Visit(f, p, s)
       PROVE  RowInv(r)'
  BY <1>3, <1>10 DEF Visit, Mount, Empty
\* Off the pages with toggles nothing has been asked.
<1>11. ASSUME asked' = asked, ui.page \notin Toggles PROVE RowInv(r)'
  BY <1>2, <1>3, <1>11 DEF RowInv
<1>12. ASSUME NEW f \in Fetches, NEW s \in Optional, Jump(f, s) PROVE RowInv(r)'
  BY <1>11, <1>12 DEF Jump, Toggles
<1>13. ASSUME NEW f \in Fetches, Submit(f) PROVE RowInv(r)'
  BY <1>11, <1>13 DEF Submit, Toggles
\* A request is sent that is no toggle.
<1>14. ASSUME NEW f \in Fetches, NEW c \in Call, Send(f, c), c.kind # "set",
              UNCHANGED <<asked, stored>>, ui'.page = ui.page, ui'.slot = ui.slot
       PROVE  RowInv(r)'
  BY <1>4, <1>14, SendTyped DEF NoCall
<1>15. ASSUME NEW f \in Fetches, NEW s \in Rows, PremiumToggle(f, s) PROVE RowInv(r)'
  <2>1. ui'.page = ui.page /\ ui'.slot = ui.slot /\ UNCHANGED <<asked, stored>>
    BY <1>2, <1>15 DEF PremiumToggle, Step, Ui
  <2>2. QED BY <1>14, <1>15, <2>1, RequestTyped DEF PremiumToggle, Changes, Optional
<1>16. ASSUME NEW f \in Fetches, NEW n \in 1 .. 2, SetPage(f, n) PROVE RowInv(r)'
  <2>1. ui'.page = ui.page /\ ui'.slot = ui.slot /\ UNCHANGED <<asked, stored>>
    BY <1>2, <1>16 DEF SetPage, Step, Ui
  <2>2. QED BY <1>14, <1>16, <2>1, ReadTyped DEF SetPage
<1>17. ASSUME NEW f \in Fetches, Confirm(f) PROVE RowInv(r)'
  <2>1. ui'.page = ui.page /\ ui'.slot = ui.slot /\ UNCHANGED <<asked, stored>>
    BY <1>2, <1>17 DEF Confirm, Step, Ui
  <2>2. PICK kind \in {"password", "delete"} : Send(f, Request(kind, ui.target, 0, ui.typed))
    BY <1>17 DEF Confirm
  <2>3. QED BY <1>2, <1>14, <2>1, <2>2, RequestTyped DEF Changes, Ui
<1>18. ASSUME NEW f \in Fetches, Serve(f) PROVE RowInv(r)'
  <2>1. asked[r] = 0 => asked'[r] = 0
    BY <1>18 DEF Serve, Refuse, ServeRead, Find, Save, SaveEmpty, Create, Delete, Hidden, Make,
       TypeOK, Tables
  <2>2. QED BY <1>2, <1>3, <1>18, <2>1, RowServe
<1>19. ASSUME NEW f \in Fetches, Deliver(f) PROVE RowInv(r)'
  <2>1. asked[r] = 0 => asked'[r] = 0
    BY <1>19 DEF Deliver, Listed, ListFailed, FormLoaded, SidebarLoaded, Changed, Reload,
       PasswordSet, SettingSaved, FormSaved, Mount, Empty, Failed, TypeOK, Tables
  <2>2. QED BY <1>2, <1>3, <1>19, <2>1, RowDeliver
<1>20. QED BY <1>6, <1>7, <1>8, <1>9, <1>10, <1>12, <1>13, <1>15, <1>16, <1>17, <1>18, <1>19,
              RowToggle DEF Next

\* When the toggles of a row have been answered, the server has what the last
\* of them asked for, unless another row was toggled meanwhile or a look-up of
\* the row failed (handleRoleToggle, and the toggle of a setting).
THEOREM AskedAreStored == Spec => []AskedIsStored
<1>1. Init => AskedInv
  <2>1. SUFFICES ASSUME Init PROVE AskedInv
    OBVIOUS
  <2>2. asked = Empty
    BY <2>1 DEF Init
  <2>3. QED BY <2>2 DEF AskedInv, RowInv, Empty
<1>2. TypeOK /\ PageInv /\ AskedInv /\ [Next]_vars => TypeOK' /\ PageInv' /\ AskedInv'
  BY TypeStep, PageStep, AskedStep
<1>3. AskedInv => AskedIsStored
  BY DEF AskedInv, RowInv, AskedIsStored
<1>4. QED BY TypeInit, PageInit, <1>1, <1>2, <1>3, PTL DEF Spec

-----------------------------------------------------------------------------
(* What an undisturbed page shows.                                         *)

\* A request that is of no account for the table.
Quietly(c, d) ==
  \/ d = c
  \/ /\ c.kind # "list" /\ d.kind # "list" /\ ~Made(c) /\ ~Made(d)
     /\ Away(d) => Away(c)
     /\ ui.page = "settings" /\ OnPage(d) => OnPage(c) /\ c.row = d.row

\* A step that leaves the table, on the server and on the page.
Still ==
  /\ ui'.page = ui.page /\ ui'.no = ui.no /\ ui'.loading = ui.loading /\ ui'.table = ui.table
  /\ stored' = stored /\ stale \subseteq stale'
  /\ \A g \in Fetches : Quietly(calls[g], calls'[g])

LEMMA StillSend ==
  ASSUME TypeOK, NEW f \in Fetches, NEW c \in Call, Send(f, c), c.kind # "list",
         c.here, c.reply = "pending", ui.page = "settings" => c.kind # "set"
  PROVE  \A g \in Fetches : Quietly(calls[g], calls'[g])
BY SendTyped DEF Quietly, Made, Away, OnPage, NoCall

LEMMA StillDone ==
  ASSUME TypeOK, NEW f \in Fetches, Done(f), calls[f].kind # "list", ~Made(calls[f])
  PROVE  \A g \in Fetches : Quietly(calls[g], calls'[g])
BY DoneTyped DEF Quietly, Made, Away, OnPage, NoCall, Changes

\* An answer changes nothing, when it is not of a change made or of a load.
LEMMA StillAnswered ==
  ASSUME TypeOK, NEW f \in Fetches, calls[f].kind \notin {"none", "list"},
         calls[f].reply \in {"pending", "found"},
         NEW r \in {"ok", "fail"}, r = "fail" \/ calls[f].kind \notin {"set", "create", "delete"},
         NEW s \in Tables,
         \/ Answered(f, [calls[f] EXCEPT !.reply = r])
         \/ Answered(f, [calls[f] EXCEPT !.reply = r, !.snap = s])
  PROVE  \A g \in Fetches : Quietly(calls[g], calls'[g])
<1>1. \A g \in Fetches \ {f} : calls'[g] = calls[g]
  BY AnsweredTyped
<1>2. CASE calls'[f] = NoCall
  BY <1>1, <1>2 DEF Quietly, Made, Away, OnPage, NoCall, Changes
<1>3. CASE /\ calls'[f].kind = calls[f].kind /\ calls'[f].row = calls[f].row
           /\ calls'[f].here = calls[f].here /\ calls'[f].reply = r
  <2>1. ~Made(calls[f]) /\ ~Made(calls'[f]) /\ ~Away(calls'[f])
    BY <1>3 DEF Made, Away
  <2>2. OnPage(calls'[f]) => OnPage(calls[f]) /\ calls[f].row = calls'[f].row
    BY <1>3 DEF OnPage
  <2>3. QED BY <1>1, <1>3, <2>1, <2>2 DEF Quietly
<1>4. QED BY <1>2, <1>3, AnsweredTyped

LEMMA StillClicks ==
  ASSUME TypeOK, PageInv,
         \/ UNCHANGED vars \/ TypePassword \/ CloseModal
         \/ \E r \in Rows : OpenModal(r)
         \/ \E r \in Optional : OpenForm(r)
         \/ \E f \in Fetches : (\E r \in Rows : PremiumToggle(f, r)) \/ Confirm(f) \/ Submit(f)
  PROVE  Still
<1>1. ui \in Ui
  BY DEF TypeOK
<1>2. ASSUME UNCHANGED calls PROVE \A g \in Fetches : Quietly(calls[g], calls'[g])
  BY <1>2 DEF Quietly
<1>3. CASE UNCHANGED vars
  BY <1>2, <1>3 DEF vars, Still
<1>4. CASE TypePassword \/ CloseModal
  BY <1>1, <1>2, <1>4 DEF TypePassword, CloseModal, Step, Ui, Still
<1>5. ASSUME NEW r \in Rows, OpenModal(r) PROVE Still
  BY <1>1, <1>2, <1>5 DEF OpenModal, Opened, Step, Ui, Still
<1>6. ASSUME NEW r \in Optional, OpenForm(r) PROVE Still
  BY <1>1, <1>2, <1>6 DEF OpenForm, Step, Ui, Still
<1>7. ASSUME NEW f \in Fetches, NEW r \in Rows, PremiumToggle(f, r) PROVE Still
  <2>1. \A g \in Fetches : Quietly(calls[g], calls'[g])
    BY <1>7, StillSend, RequestTyped DEF PremiumToggle, Changes, Optional
  <2>2. QED BY <1>1, <1>7, <2>1 DEF PremiumToggle, Step, Ui, Still
<1>8. ui.target \in Optional /\ ui.typed \in Optional /\ ui.editing \in Optional
  BY <1>1 DEF Ui
<1>9. ASSUME NEW f \in Fetches, Confirm(f) PROVE Still
  <2>1. PICK kind \in {"password", "delete"} : Send(f, Request(kind, ui.target, 0, ui.typed))
    BY <1>9 DEF Confirm
  <2>2. \A g \in Fetches : Quietly(calls[g], calls'[g])
    BY <1>8, <2>1, StillSend, RequestTyped DEF Changes
  <2>3. QED BY <1>1, <1>9, <2>2 DEF Confirm, Step, Ui, Still
<1>10. ASSUME NEW f \in Fetches, Submit(f) PROVE Still
  <2>1. PICK kind \in {"create", "set"} : Send(f, Request(kind, ui.editing, Edited, Nothing))
    BY <1>10 DEF Submit
  <2>2. Edited \in {0} \cup Values /\ ui.page # "settings"
    BY <1>10 DEF Edited, Values, Optional, Submit
  <2>3. \A g \in Fetches : Quietly(calls[g], calls'[g])
    BY <1>8, <2>1, <2>2, StillSend, RequestTyped DEF Changes, Optional
  <2>4. QED BY <1>1, <1>10, <2>3 DEF Submit, Step, Ui, Still
<1>11. QED BY <1>3, <1>4, <1>5, <1>6, <1>7, <1>9, <1>10

LEMMA ServedKind ==
  ASSUME TypeOK, NEW f \in Fetches, Serve(f)
  PROVE  calls[f].kind # "none" /\ calls[f] \in Call /\ calls[f].reply \in {"pending", "found"}
BY LiveCall DEF Serve, Refuse, ServeRead, Find, Save, SaveEmpty, Create, Delete, Hidden, Asked,
     Changes,
     TypeOK, NoCall, Call

\* A change that is made, and whose answer is not lost.
Makes(f) ==
  /\ Serve(f) /\ calls[f].kind \in {"set", "create", "delete"}
  /\ calls[f].reply \in {"pending", "found"}
  /\ Reply(f, "ok") /\ UNCHANGED <<ui, sidebar, stale>>
  /\ Save(f) \/ SaveEmpty(f) \/ Create(f) \/ Delete(f)

Reads(f, kind) ==
  /\ calls[f].kind = kind /\ calls[f].reply = "pending" /\ UNCHANGED <<ui, stored, sidebar, stale>>
  /\ Answered(f, [calls[f] EXCEPT !.reply = "ok", !.snap = Read(calls[f])])

LEMMA StillServe ==
  ASSUME TypeOK, PageInv, NEW f \in Fetches, Serve(f)
  PROVE  Still \/ "table" \in stale' \/ Makes(f) \/ Reads(f, "list")
<1>1. calls[f] \in Call /\ calls[f].kind # "none" /\ calls[f].reply \in {"pending", "found"}
  BY ServedKind
<1>2. CASE Refuse(f) /\ calls[f].kind # "list"
  <2>1. \A g \in Fetches : Quietly(calls[g], calls'[g])
    BY <1>1, <1>2, EmptyTyped, StillAnswered DEF Refuse, Reply
  <2>2. QED BY <1>2, <2>1 DEF Refuse, Still
<1>3. CASE Refuse(f) /\ calls[f].kind = "list"
  BY <1>3 DEF Refuse
<1>4. CASE ServeRead(f) /\ calls[f].kind # "list"
  <2>1. Read(calls[f]) \in Tables
    BY EmptyTyped DEF Read, Shown, Tables
  <2>2. calls[f].kind \in {"get", "public"}
    BY <1>4 DEF ServeRead, Asked
  <2>3. \A g \in Fetches : Quietly(calls[g], calls'[g])
    BY <1>1, <1>4, <2>1, <2>2, StillAnswered DEF ServeRead
  <2>4. QED BY <1>4, <2>3 DEF ServeRead, Still
<1>5. CASE ServeRead(f) /\ calls[f].kind = "list"
  BY <1>5 DEF ServeRead, Asked, Reads
<1>6. CASE Find(f)
  <2>1. calls[f].kind = "set" /\ calls[f].reply = "pending" /\ ui.page # "settings"
    BY <1>6 DEF Find, Asked
  <2>2. /\ calls'[f] = [calls[f] EXCEPT !.reply = "found"]
        /\ \A g \in Fetches \ {f} : calls'[g] = calls[g]
    BY <1>6 DEF Find, TypeOK
  <2>3. calls'[f].kind = "set" /\ calls'[f].reply = "found" /\ calls'[f].here = calls[f].here
    BY <1>1, <2>1, <2>2 DEF Call
  <2>4. Quietly(calls[f], calls'[f])
    BY <2>1, <2>3 DEF Quietly, Made, Away, OnPage, Changes
  <2>5. QED BY <1>6, <2>2, <2>4 DEF Find, Still, Quietly
<1>7. CASE Save(f) \/ SaveEmpty(f) \/ Create(f) \/ Delete(f)
  <2>1. calls[f].kind \in {"set", "create", "delete"}
    BY <1>1, <1>7 DEF Save, SaveEmpty, Create, Delete, Asked, PageInv, Fits
  <2>2. PICK t : MadeTo(f, t)
    BY <1>7 DEF Save, SaveEmpty, Create, Delete, Make
  <2>3. QED BY <1>1, <1>7, <2>1, <2>2 DEF Make, MadeTo, Makes, Serve
<1>8. CASE Hidden(f)
  <2>1. calls[f].kind \in {"premium", "password"} /\ stored' = stored /\ UNCHANGED ui
    BY <1>8 DEF Hidden, Asked, Make, MadeTo
  <2>2. CASE "table" \in stale'
    BY <2>2
  <2>3. CASE Reply(f, "ok") /\ UNCHANGED stale
    <3>1. \A g \in Fetches : Quietly(calls[g], calls'[g])
      BY <1>1, <2>1, <2>3, EmptyTyped, StillAnswered DEF Reply
    <3>2. QED BY <2>1, <2>3, <3>1 DEF Still
  <2>4. QED BY <1>8, <2>2, <2>3 DEF Hidden, Make, MadeTo
<1>9. QED BY <1>2, <1>3, <1>4, <1>5, <1>6, <1>7, <1>8 DEF Serve

LEMMA ClearedTable ==
  ASSUME NEW u \in Ui, NEW c \in Call
  PROVE  /\ Cleared(u, c).page = u.page /\ Cleared(u, c).no = u.no
         /\ Cleared(u, c).loading = u.loading /\ Cleared(u, c).table = u.table
         /\ Cleared(u, c) \in Ui
<1>1. Cleared(u, c) \in Ui
  BY ClearedTyped
<1>2. QED BY <1>1 DEF Cleared, Ui

LEMMA ClosedTable ==
  ASSUME NEW u \in Ui, NEW c \in Call
  PROVE  /\ Closed(u, c).page = u.page /\ Closed(u, c).no = u.no
         /\ Closed(u, c).loading = u.loading /\ Closed(u, c).table = u.table
         /\ Closed(u, c) \in Ui
<1>1. Closed(u, c) \in Ui
  BY DEF Closed, Ui, Optional
<1>2. QED BY <1>1 DEF Closed, Ui

LEMMA StillDeliver ==
  ASSUME TypeOK, PageInv, NEW f \in Fetches, Deliver(f)
  PROVE  \/ Still
         \/ ui'.page = "form" /\ ui.page = "form"
         \/ Listed(f) \/ ListFailed(f) \/ Changed(f)
         \/ SettingSaved(f) /\ calls[f].here
         \/ FormSaved(f) /\ ui.page = "form"
<1>1. calls[f] \in Call
  BY LiveCall DEF Deliver, Listed, ListFailed, FormLoaded, SidebarLoaded, Changed,
                  PasswordSet, SettingSaved, FormSaved, Failed, Got, Changes
<1>2. ui \in Ui /\ Fits(ui.page, calls[f])
  BY DEF TypeOK, PageInv
<1>3. CASE FormLoaded(f)
  <2>1. ui.page = "form"
    BY <1>2, <1>3 DEF FormLoaded, Fits
  <2>2. ui'.page = ui.page
    BY <1>2, <1>3 DEF FormLoaded, Step, Ui
  <2>3. QED BY <2>1, <2>2
<1>4. CASE SidebarLoaded(f)
  <2>1. \A g \in Fetches : Quietly(calls[g], calls'[g])
    BY <1>4, StillDone DEF SidebarLoaded, Made
  <2>2. QED BY <1>4, <2>1 DEF SidebarLoaded, Still
<1>5. CASE PasswordSet(f)
  <2>1. \A g \in Fetches : Quietly(calls[g], calls'[g])
    BY <1>5, StillDone DEF PasswordSet, Got, Made
  <2>2. ui' = Cleared(Closed(ui, calls[f]), calls[f]) /\ UNCHANGED <<stored, stale>>
    BY <1>5 DEF PasswordSet, Step
  <2>3. QED BY <1>1, <1>2, <2>1, <2>2, ClearedTable, ClosedTable DEF Still
<1>6. CASE SettingSaved(f) /\ ~calls[f].here
  <2>1. calls'[f] = Public /\ \A g \in Fetches \ {f} : calls'[g] = calls[g]
    BY <1>6 DEF SettingSaved, ReloadSidebar, TypeOK
  <2>2. Quietly(calls[f], Public)
    BY <1>6, ReadTyped DEF SettingSaved, Got, Quietly, Made, Away, OnPage, Changes
  <2>3. \A g \in Fetches : Quietly(calls[g], calls'[g])
    BY <2>1, <2>2 DEF Quietly
  <2>4. UNCHANGED <<ui, stored>> /\ stale \subseteq stale'
    BY <1>6 DEF SettingSaved, Step
  <2>5. QED BY <2>3, <2>4 DEF Still
<1>7. CASE FormSaved(f) /\ ui.page # "form"
  <2>1. ~calls[f].here
    BY <1>2, <1>7 DEF FormSaved, Got, Fits
  <2>2. \A g \in Fetches : Quietly(calls[g], calls'[g])
    BY <1>7, <2>1, StillDone DEF FormSaved, Got, Made
  <2>3. QED BY <1>7, <2>2 DEF FormSaved, Still
<1>8. CASE Failed(f)
  <2>1. \A g \in Fetches : Quietly(calls[g], calls'[g])
    BY <1>8, StillDone DEF Failed, Got, Made, Changes
  <2>2. ui' \in {ui, Cleared(ui, calls[f])} /\ UNCHANGED <<stored, stale>>
    BY <1>8 DEF Failed, Step
  <2>3. QED BY <1>1, <1>2, <2>1, <2>2, ClearedTable DEF Still
<1>9. QED BY <1>3, <1>4, <1>5, <1>6, <1>7, <1>8 DEF Deliver

\* What a step can be to the table, when it does not make it stale.
Mounts == \E f \in Fetches, p \in Pages, r \in Optional : Mount(p, r, f) /\ UNCHANGED <<stored, sidebar>>

LEMMA TableSteps ==
  ASSUME TypeOK, PageInv, [Next]_vars
  PROVE  \/ Still \/ Mounts \/ "table" \in stale' \/ ui'.page = "form"
         \/ \E f \in Fetches : \/ \E r \in Rows : Toggle(f, r)
                               \/ \E n \in 1 .. 2 : SetPage(f, n)
                               \/ Makes(f) \/ Reads(f, "list")
                               \/ Listed(f) \/ ListFailed(f) \/ Changed(f)
                               \/ SettingSaved(f) /\ calls[f].here
<1>1. ui \in Ui
  BY DEF TypeOK
<1>2. CASE UNCHANGED vars \/ TypePassword \/ CloseModal
  BY <1>2, StillClicks
<1>3. ASSUME NEW r \in Rows, OpenModal(r) \/ Elsewhere(r) PROVE Still \/ "table" \in stale'
  BY <1>3, StillClicks DEF Elsewhere
<1>4. ASSUME NEW r \in Optional, OpenForm(r) PROVE Still
  BY <1>4, StillClicks
<1>5. ASSUME NEW f \in Fetches, NEW p \in Pages, NEW r \in Optional, Visit(f, p, r) PROVE Mounts
  BY <1>5 DEF Visit, Mounts
<1>6. ASSUME NEW f \in Fetches, NEW r \in Optional, Jump(f, r) PROVE ui'.page = "form"
  BY <1>1, <1>6 DEF Jump, Ui
<1>7. ASSUME NEW f \in Fetches, NEW r \in Rows, PremiumToggle(f, r) PROVE Still
  BY <1>7, StillClicks
<1>8. ASSUME NEW f \in Fetches, Confirm(f) \/ Submit(f) PROVE Still
  BY <1>8, StillClicks
<1>9. ASSUME NEW f \in Fetches, FormSaved(f), ui.page = "form" PROVE Mounts
  <2>1. "challenges" \in Pages /\ Nothing \in Optional
    BY DEF Pages, Optional
  <2>2. QED BY <1>9, <2>1 DEF FormSaved, Mounts
<1>10. QED BY <1>2, <1>3, <1>4, <1>5, <1>6, <1>7, <1>8, <1>9, StillServe, StillDeliver DEF Next

-----------------------------------------------------------------------------
(* Loads.                                                                  *)

LEMMA WatchedBefore ==
  ASSUME Watched', ui'.page = ui.page, stale \subseteq stale'
  PROVE  Watched
BY DEF Watched

\* A page that is mounted has sent its load, and nothing waits behind it.
LEMMA MountLoads ==
  ASSUME TypeOK, NEW f \in Fetches, NEW p \in Pages, NEW r \in Optional, Mount(p, r, f), Watched'
  PROVE  /\ calls'[f] = List(1) /\ ui'.no = 1 /\ ui'.loading /\ ui'.page = p
         /\ \A g \in Fetches \ {f} :
              /\ calls'[g].kind # "list" /\ ~Away(calls'[g])
              /\ calls'[g].here => calls'[g].kind = "public"
<1>1. ui' = Fresh(p, r, ui.errand) /\ p # "form"
  BY DEF Mount, Watched, Fresh
<1>2. calls'[f] = List(1) /\ ui'.no = 1 /\ ui'.loading /\ ui'.page = p
  <2>1. calls'[f] = First(p, r)
    BY DEF Mount
  <2>2. First(p, r) = List(1)
    BY <1>1 DEF First
  <2>3. ui'.no = 1 /\ ui'.loading /\ ui'.page = p
    BY <1>1 DEF Fresh
  <2>4. QED BY <2>1, <2>2, <2>3
<1>3. ASSUME NEW g \in Fetches \ {f}
      PROVE  /\ calls'[g].kind # "list" /\ ~Away(calls'[g])
             /\ calls'[g].here => calls'[g].kind = "public"
  <2>1. calls'[g] = Left(calls[g])
    BY DEF Mount
  <2>2. g \notin Changing
    BY DEF Mount, Watched
  <2>3. CASE Left(calls[g]) = NoCall
    BY <2>1, <2>3 DEF NoCall, Away, Changes
  <2>4. CASE Left(calls[g]) # NoCall
    <3>1. /\ calls'[g].kind = calls[g].kind /\ calls'[g].reply = calls[g].reply
          /\ calls[g].kind \in Changes \cup {"public"}
          /\ calls'[g].here <=> calls[g].kind = "public"
      BY <2>1, <2>4, LeftTyped
    <3>2. QED BY <2>2, <3>1 DEF Changing, Away, Changes
  <2>5. QED BY <2>3, <2>4
<1>4. QED BY <1>2, <1>3

LEMMA LoadSole ==
  ASSUME NEW f \in Fetches, NEW n \in 1 .. 2, calls'[f] = List(n), ui'.no = n, ui'.loading,
         \A g \in Fetches \ {f} : calls'[g].kind # "list" /\ ~Away(calls'[g])
  PROVE  LoadInv'
BY ReadTyped DEF LoadInv, Away, Changes

LEMMA LoadKept ==
  ASSUME LoadInv, Watched' => Watched, ui'.no = ui.no,
         \A g \in Fetches : /\ Away(calls'[g]) => Away(calls[g])
                            /\ calls'[g].kind = "list" =>
                                 /\ calls[g].kind = "list" /\ calls'[g].no = calls[g].no
                                 /\ calls'[g].reply # "fail" \/ calls'[g].reply = calls[g].reply
                                 /\ ui'.loading = ui.loading
  PROVE  LoadInv'
BY DEF LoadInv

\* The request of a page that is served.
LEMMA MakesHere ==
  ASSUME TypeOK, LoadInv, Watched, NEW f \in Fetches, Makes(f)
  PROVE  /\ calls[f].here /\ Made(calls'[f])
         /\ calls'[f].kind = calls[f].kind /\ calls'[f].row = calls[f].row
         /\ calls'[f].value = calls[f].value
         /\ calls'[f].here = calls[f].here /\ calls'[f].reply = "ok"
         /\ \A g \in Fetches \ {f} : calls'[g] = calls[g]
<1>1. calls[f].here
  BY DEF LoadInv, Makes, Away, Changes
<1>2. Answered(f, [calls[f] EXCEPT !.reply = "ok"]) /\ calls[f].kind # "none"
  BY DEF Makes, Reply
<1>3. QED BY <1>1, <1>2, EmptyTyped, AnsweredTyped DEF Makes, Made

LEMMA ReadsList ==
  ASSUME TypeOK, PageInv, NEW f \in Fetches, NEW kind \in {"list", "public"}, Reads(f, kind),
         calls[f].here
  PROVE  /\ calls'[f].kind = kind /\ calls'[f].no = calls[f].no /\ calls'[f].reply = "ok"
         /\ calls'[f].snap = IF calls[f].no = 2 THEN Empty ELSE Shown(stored)
         /\ calls'[f].here
         /\ \A g \in Fetches \ {f} : calls'[g] = calls[g]
<1>1. calls[f] \in Call
  BY LiveCall DEF Reads
<1>2. calls' = [calls EXCEPT ![f] = [calls[f] EXCEPT !.reply = "ok", !.snap = Read(calls[f])]]
  BY DEF Reads, Answered
<1>3. /\ calls'[f] = [calls[f] EXCEPT !.reply = "ok", !.snap = Read(calls[f])]
      /\ \A g \in Fetches \ {f} : calls'[g] = calls[g]
  BY <1>2 DEF TypeOK
<1>4. Read(calls[f]) = IF calls[f].no = 2 THEN Empty ELSE Shown(stored)
  BY DEF Reads, Read
<1>5. QED BY <1>1, <1>3, <1>4 DEF Reads, Call

\* The load after a change, when it is the only one.
LEMMA ChangedLoads ==
  ASSUME TypeOK, PageInv, NEW f \in Fetches, Changed(f), "table" \notin stale'
  PROVE  /\ calls'[f] = List(ui.no) /\ ui'.no = ui.no /\ ui'.loading /\ ui'.page = ui.page
         /\ ui.page # "settings"
         /\ \A g \in Fetches \ {f} : calls'[g] = calls[g] /\ calls[g].kind # "list"
         /\ stale' = stale
<1>1. calls[f] \in Call /\ ui \in Ui
  BY LiveCall DEF Changed, Got, Changes, TypeOK
<1>2. Listing = {} /\ calls[f].no = ui.no /\ stale' = stale
  BY DEF Changed, Reload
<1>3. calls'[f] = List(ui.no) /\ \A g \in Fetches \ {f} : calls'[g] = calls[g]
  BY <1>2 DEF Changed, Reload, TypeOK
<1>4. \A g \in Fetches : calls[g].kind # "list"
  BY <1>2 DEF Listing, PageInv, Fits
<1>5. ui' = [Cleared(Closed(ui, calls[f]), calls[f]) EXCEPT !.loading = TRUE]
  BY DEF Changed, Reload, Step
<1>6. ui'.page = ui.page /\ ui'.no = ui.no /\ ui'.loading
  <2>1. /\ Cleared(Closed(ui, calls[f]), calls[f]).page = ui.page
        /\ Cleared(Closed(ui, calls[f]), calls[f]).no = ui.no
        /\ Cleared(Closed(ui, calls[f]), calls[f]) \in Ui
    BY <1>1, ClearedTable, ClosedTable
  <2>2. QED BY <1>5, <2>1 DEF Ui
<1>7. ui.page # "settings"
  BY DEF Changed, Got, PageInv, Fits, Toggles
<1>8. QED BY <1>2, <1>3, <1>4, <1>6, <1>7

LEMMA SettingSavedHere ==
  ASSUME TypeOK, NEW f \in Fetches, SettingSaved(f), calls[f].here
  PROVE  /\ calls[f] \in Call /\ calls[f].kind = "set" /\ calls[f].reply = "ok"
         /\ ui.page = "settings" /\ ui'.page = ui.page /\ ui'.no = ui.no
         /\ ui'.loading = ui.loading
         /\ \A r \in Rows : ui'.table[r] = IF r = calls[f].row THEN calls[f].value ELSE ui.table[r]
         /\ calls'[f] = Public /\ \A g \in Fetches \ {f} : calls'[g] = calls[g]
         /\ UNCHANGED <<stored, sidebar>> /\ stale \subseteq stale'
         /\ "table" \in stale' => "table" \in stale
<1>1. calls[f] \in Call /\ ui \in Ui
  BY LiveCall DEF SettingSaved, Got, TypeOK
<1>2. ui' = [Cleared(ui, calls[f]) EXCEPT !.table[calls[f].row] = calls[f].value]
  BY DEF SettingSaved, Step
<1>3. /\ Cleared(ui, calls[f]).page = ui.page /\ Cleared(ui, calls[f]).no = ui.no
      /\ Cleared(ui, calls[f]).loading = ui.loading /\ Cleared(ui, calls[f]).table = ui.table
      /\ Cleared(ui, calls[f]) \in Ui
  BY <1>1, ClearedTable
<1>4. /\ ui'.page = ui.page /\ ui'.no = ui.no /\ ui'.loading = ui.loading
      /\ \A r \in Rows : ui'.table[r] = IF r = calls[f].row THEN calls[f].value ELSE ui.table[r]
  BY <1>2, <1>3 DEF Ui, Tables
<1>5. calls'[f] = Public /\ \A g \in Fetches \ {f} : calls'[g] = calls[g]
  BY DEF SettingSaved, ReloadSidebar, TypeOK
<1>6. UNCHANGED <<stored, sidebar>> /\ stale \subseteq stale' /\ ("table" \in stale' => "table" \in stale)
  BY DEF SettingSaved, Step
<1>7. QED BY <1>1, <1>4, <1>5, <1>6 DEF SettingSaved, Got

LEMMA NoLoadFails ==
  ASSUME TypeOK, LoadInv, Watched', NEW f \in Fetches, ListFailed(f)
  PROVE  FALSE
<1>1. ui'.page = ui.page /\ stale' = stale
  BY DEF ListFailed, AfterFailure, Step, Ui, TypeOK
<1>2. QED BY <1>1, WatchedBefore DEF LoadInv, ListFailed, Got

LEMMA LoadStep ==
  ASSUME TypeOK, PageInv, LoadInv, [Next]_vars
  PROVE  LoadInv'
<1>1. ui \in Ui /\ \A g \in Fetches : Fits(ui.page, calls[g])
  BY DEF TypeOK, PageInv
<1>2. SUFFICES ASSUME Watched' PROVE LoadInv'
  BY DEF LoadInv
<1>3. CASE Still
  BY <1>3, LoadKept, WatchedBefore DEF Still, Quietly
<1>4. ASSUME NEW f \in Fetches, NEW p \in Pages, NEW r \in Optional, Mount(p, r, f)
      PROVE  LoadInv'
  BY <1>2, <1>4, MountLoads, LoadSole
<1>5. ASSUME NEW f \in Fetches, NEW r \in Rows, Toggle(f, r) PROVE LoadInv'
  <2>1. 3 - ui.table[r] \in Values
    BY <1>5 DEF Toggle, MayToggle, InTable, Values
  <2>2. /\ calls'[f].kind = "set" /\ calls'[f].here
        /\ \A g \in Fetches \ {f} : calls'[g] = calls[g]
    BY <1>5, <2>1, SendTyped, RequestTyped DEF Toggle, Changes, Optional
  <2>3. ui'.page = ui.page /\ ui'.no = ui.no /\ ui'.loading = ui.loading /\ stale \subseteq stale'
    BY <1>1, <1>5 DEF Toggle, Step, Ui
  <2>4. \A g \in Fetches : /\ Away(calls'[g]) => Away(calls[g])
                           /\ calls'[g].kind = "list" => calls'[g] = calls[g]
    BY <2>2 DEF Away
  <2>5. QED BY <1>2, <2>3, <2>4, LoadKept, WatchedBefore
<1>6. ASSUME NEW f \in Fetches, NEW n \in 1 .. 2, SetPage(f, n) PROVE LoadInv'
  <2>1. calls'[f] = List(n) /\ \A g \in Fetches \ {f} : calls'[g] = calls[g]
    BY <1>6, ReadTyped, SendTyped DEF SetPage
  <2>2. ui'.page = ui.page /\ ui'.no = n /\ ui'.loading
    BY <1>1, <1>6 DEF SetPage, Step, Ui
  <2>3. stale \subseteq stale'
    BY <1>6 DEF SetPage
  <2>4. Watched /\ ~ui.loading
    BY <1>2, <1>6, <2>2, <2>3, WatchedBefore DEF SetPage
  <2>5. \A g \in Fetches : calls[g].kind # "list" /\ ~Away(calls[g])
    BY <2>4 DEF LoadInv
  <2>6. QED BY <2>1, <2>2, <2>5, LoadSole
<1>7. ASSUME NEW f \in Fetches, Makes(f) PROVE LoadInv'
  <2>1. Watched /\ UNCHANGED <<ui, stale>>
    BY <1>2, <1>7 DEF Makes, Watched
  <2>2. \A g \in Fetches : /\ Away(calls'[g]) => Away(calls[g])
                           /\ calls'[g].kind = "list" => calls'[g] = calls[g]
    BY <1>7, <2>1, MakesHere DEF Makes, Away
  <2>3. QED BY <2>1, <2>2, LoadKept
<1>8. ASSUME NEW f \in Fetches, Reads(f, "list") PROVE LoadInv'
  <2>1. calls[f].here
    BY <1>1, <1>8 DEF Reads, Fits
  <2>2. /\ calls'[f].kind = "list" /\ calls'[f].no = calls[f].no /\ calls'[f].reply = "ok"
        /\ calls[f].kind = "list"
        /\ \A g \in Fetches \ {f} : calls'[g] = calls[g]
    BY <1>8, <2>1, ReadsList DEF Reads
  <2>3. \A g \in Fetches : /\ Away(calls'[g]) => Away(calls[g])
                           /\ calls'[g].kind = "list" =>
                                /\ calls[g].kind = "list" /\ calls'[g].no = calls[g].no
                                /\ calls'[g].reply # "fail" \/ calls'[g].reply = calls[g].reply
    BY <2>2 DEF Away, Changes
  <2>4. Watched /\ UNCHANGED <<ui, stale>>
    BY <1>2, <1>8 DEF Reads, Watched
  <2>5. QED BY <2>3, <2>4, LoadKept
<1>9. ASSUME NEW f \in Fetches, Listed(f) PROVE LoadInv'
  <2>1. calls'[f] = NoCall /\ calls[f].kind = "list" /\ \A g \in Fetches \ {f} : calls'[g] = calls[g]
    BY <1>9, DoneTyped DEF Listed, Got
  <2>2. ui'.page = ui.page /\ ui'.no = ui.no /\ stale' = stale
    BY <1>1, <1>9 DEF Listed, Step, Ui
  <2>3. Watched
    BY <1>2, <2>2, WatchedBefore
  <2>4. \A g \in Fetches : calls'[g].kind # "list" /\ (Away(calls'[g]) => Away(calls[g]))
    BY <2>1, <2>3 DEF LoadInv, NoCall, Away, Changes
  <2>5. QED BY <2>2, <2>3, <2>4, LoadKept
<1>10. ASSUME NEW f \in Fetches, ListFailed(f) PROVE FALSE
  BY <1>2, <1>10, NoLoadFails
<1>11. ASSUME NEW f \in Fetches, Changed(f) PROVE LoadInv'
  <2>1. "table" \notin stale'
    BY <1>2 DEF Watched
  <2>2. /\ calls'[f] = List(ui.no) /\ ui'.no = ui.no /\ ui'.loading /\ ui'.page = ui.page
        /\ \A g \in Fetches \ {f} : calls'[g] = calls[g] /\ calls[g].kind # "list"
        /\ stale' = stale
    BY <1>11, <2>1, ChangedLoads
  <2>3. \A g \in Fetches : ~Away(calls[g])
    BY <1>2, <2>2, WatchedBefore DEF LoadInv
  <2>4. ui.no \in 1 .. 2
    BY <1>1 DEF Ui
  <2>5. QED BY <2>2, <2>3, <2>4, LoadSole
<1>12. ASSUME NEW f \in Fetches, SettingSaved(f), calls[f].here PROVE LoadInv'
  <2>1. /\ ui'.page = ui.page /\ ui'.no = ui.no /\ ui'.loading = ui.loading
        /\ calls'[f] = Public /\ \A g \in Fetches \ {f} : calls'[g] = calls[g]
        /\ stale \subseteq stale'
    BY <1>12, SettingSavedHere
  <2>2. \A g \in Fetches : /\ Away(calls'[g]) => Away(calls[g])
                           /\ calls'[g].kind = "list" => calls'[g] = calls[g]
    BY <2>1, ReadTyped DEF Away, Changes
  <2>3. QED BY <1>2, <2>1, <2>2, LoadKept, WatchedBefore
<1>13. "table" \notin stale' /\ ui'.page # "form"
  BY <1>2 DEF Watched
<1>14. QED BY <1>3, <1>4, <1>5, <1>6, <1>7, <1>8, <1>9, <1>10, <1>11, <1>12, <1>13, TableSteps
           DEF Mounts

-----------------------------------------------------------------------------
(* The tables of users, categories and challenges.                         *)

\* A change has been answered, and is loaded again.
LEMMA TableMade ==
  ASSUME NEW f \in Fetches, Made(calls'[f])
  PROVE  TableInv'
BY DEF TableInv

LEMMA TableLoading ==
  ASSUME NEW f \in Fetches, calls'[f].kind = "list", calls'[f].reply = "pending",
         \A g \in Fetches : calls'[g].kind = "list" => g = f
  PROVE  TableInv'
BY DEF TableInv, Loaded

LEMMA TableStep ==
  ASSUME TypeOK, PageInv, LoadInv, TableInv, [Next]_vars
  PROVE  TableInv'
<1>1. ui \in Ui /\ \A g \in Fetches : Fits(ui.page, calls[g])
  BY DEF TypeOK, PageInv
<1>2. SUFFICES ASSUME Watched', ui'.page # "settings" PROVE TableInv'
  BY DEF TableInv
<1>3. CASE Still
  <2>1. Watched /\ ui.page # "settings" /\ Current' = Current
    BY <1>2, <1>3, WatchedBefore DEF Still, Current
  <2>2. CASE \E f \in Fetches : Made(calls[f])
    BY <1>3, <2>2, TableMade DEF Still, Quietly
  <2>3. CASE \A f \in Fetches : ~Made(calls[f])
    <3>1. \A f \in Fetches : calls'[f].kind = "list" \/ calls[f].kind = "list" => calls'[f] = calls[f]
      BY <1>3 DEF Still, Quietly
    <3>2. /\ \A f \in Fetches :
               calls[f].kind = "list" /\ calls[f].reply = "ok" => calls[f].snap = Current
          /\ Loaded("list") => ui.table = Current
      BY <2>1, <2>3 DEF TableInv
    <3>3. Loaded("list")' => Loaded("list")
      BY <3>1 DEF Loaded
    <3>4. ui'.table = ui.table
      BY <1>3 DEF Still
    <3>5. QED BY <2>1, <3>1, <3>2, <3>3, <3>4 DEF TableInv
  <2>4. QED BY <2>2, <2>3
<1>4. ASSUME NEW f \in Fetches, NEW p \in Pages, NEW r \in Optional, Mount(p, r, f)
      PROVE  TableInv'
  <2>1. calls'[f] = List(1) /\ \A g \in Fetches \ {f} : calls'[g].kind # "list"
    BY <1>2, <1>4, MountLoads
  <2>2. QED BY <2>1, ReadTyped, TableLoading
<1>5. ASSUME NEW f \in Fetches, NEW r \in Rows, Toggle(f, r) PROVE TableInv'
  <2>1. 3 - ui.table[r] \in Values
    BY <1>5 DEF Toggle, MayToggle, InTable, Values
  <2>2. /\ calls'[f].kind = "set" /\ calls[f] = NoCall
        /\ \A g \in Fetches \ {f} : calls'[g] = calls[g]
    BY <1>5, <2>1, SendTyped, RequestTyped DEF Toggle, Changes, Optional
  <2>3. /\ ui'.page = ui.page /\ ui'.no = ui.no /\ ui'.table = ui.table /\ UNCHANGED stored
        /\ stale \subseteq stale'
    BY <1>1, <1>5 DEF Toggle, Step, Ui
  <2>4. Watched /\ ui.page # "settings" /\ Current' = Current
    BY <1>2, <2>3, WatchedBefore DEF Current
  <2>5. ~Made(calls[f]) /\ calls[f].kind # "list"
    BY <2>2 DEF Made, NoCall
  <2>6. CASE \E g \in Fetches : Made(calls[g])
    BY <2>2, <2>5, <2>6, TableMade
  <2>7. CASE \A g \in Fetches : ~Made(calls[g])
    <3>1. /\ \A g \in Fetches :
               calls[g].kind = "list" /\ calls[g].reply = "ok" => calls[g].snap = Current
          /\ Loaded("list") => ui.table = Current
      BY <2>4, <2>7 DEF TableInv
    <3>2. Loaded("list")' => Loaded("list")
      BY <2>2, <2>5 DEF Loaded
    <3>3. QED BY <2>2, <2>3, <2>4, <3>1, <3>2 DEF TableInv
  <2>8. QED BY <2>6, <2>7
<1>6. ASSUME NEW f \in Fetches, NEW n \in 1 .. 2, SetPage(f, n) PROVE TableInv'
  <2>1. calls'[f] = List(n) /\ \A g \in Fetches \ {f} : calls'[g] = calls[g]
    BY <1>6, ReadTyped, SendTyped DEF SetPage
  <2>2. ui'.page = ui.page /\ stale \subseteq stale' /\ ~ui.loading
    BY <1>1, <1>6 DEF SetPage, Step, Ui
  <2>3. \A g \in Fetches : calls[g].kind # "list"
    BY <1>2, <2>2, WatchedBefore DEF LoadInv
  <2>4. QED BY <2>1, <2>3, ReadTyped, TableLoading
<1>7. ASSUME NEW f \in Fetches, Makes(f) PROVE TableInv'
  <2>1. Watched
    BY <1>2, <1>7 DEF Makes, Watched
  <2>2. QED BY <1>7, <2>1, MakesHere, TableMade
<1>8. ASSUME NEW f \in Fetches, Reads(f, "list") PROVE TableInv'
  <2>1. UNCHANGED <<ui, stored>> /\ Watched /\ calls[f].kind = "list" /\ calls[f].here
    BY <1>1, <1>2, <1>8 DEF Reads, Fits, Watched
  <2>2. /\ calls'[f].kind = "list" /\ calls[f].no = ui.no
        /\ calls'[f].snap = IF ui.no = 2 THEN Empty ELSE Shown(stored)
        /\ \A g \in Fetches \ {f} : calls'[g] = calls[g]
        /\ \A g \in Fetches : calls[g].kind = "list" => g = f
    BY <1>8, <2>1, ReadsList DEF LoadInv
  <2>3. ui.no \in 1 .. 2
    BY <1>1 DEF Ui
  <2>4. calls'[f].snap = Current'
    BY <2>1, <2>2, <2>3 DEF Current
  <2>5. ~Loaded("list")'
    BY <2>2 DEF Loaded
  <2>6. QED BY <2>2, <2>4, <2>5 DEF TableInv
<1>9. ASSUME NEW f \in Fetches, Listed(f) PROVE TableInv'
  <2>1. /\ calls'[f] = NoCall /\ calls[f].kind = "list" /\ calls[f].reply = "ok"
        /\ \A g \in Fetches \ {f} : calls'[g] = calls[g]
    BY <1>9, DoneTyped DEF Listed, Got
  <2>2. /\ ui'.page = ui.page /\ ui'.no = ui.no /\ ui'.table = calls[f].snap
        /\ stale' = stale /\ UNCHANGED stored
    BY <1>1, <1>9 DEF Listed, Step, Ui
  <2>3. Watched /\ ui.page # "settings" /\ Current' = Current
    BY <1>2, <2>2, WatchedBefore DEF Current
  <2>4. \A g \in Fetches : calls'[g].kind # "list"
    BY <2>1, <2>3 DEF LoadInv, NoCall
  <2>5. ~Made(calls[f])
    BY <2>1 DEF Made
  <2>6. CASE \E g \in Fetches : Made(calls[g])
    BY <2>1, <2>5, <2>6, TableMade
  <2>7. CASE \A g \in Fetches : ~Made(calls[g])
    BY <2>1, <2>2, <2>3, <2>4, <2>7 DEF TableInv
  <2>8. QED BY <2>6, <2>7
<1>10. ASSUME NEW f \in Fetches, ListFailed(f) PROVE FALSE
  BY <1>2, <1>10, NoLoadFails
<1>11. ASSUME NEW f \in Fetches, Changed(f) PROVE TableInv'
  <2>1. "table" \notin stale'
    BY <1>2 DEF Watched
  <2>2. ui.no \in 1 .. 2
    BY <1>1 DEF Ui
  <2>3. QED BY <1>11, <2>1, <2>2, ChangedLoads, ReadTyped, TableLoading
<1>12. ASSUME NEW f \in Fetches, SettingSaved(f), calls[f].here PROVE FALSE
  BY <1>2, <1>12, SettingSavedHere
<1>13. "table" \notin stale' /\ ui'.page # "form"
  BY <1>2 DEF Watched
<1>14. QED BY <1>3, <1>4, <1>5, <1>6, <1>7, <1>8, <1>9, <1>10, <1>11, <1>12, <1>13, TableSteps
           DEF Mounts

-----------------------------------------------------------------------------
(* The table of settings.                                                  *)

\* The parts of SettingInv.
ListsCurrent ==
  \A f \in Fetches : calls[f].kind = "list" /\ calls[f].reply = "ok" => calls[f].snap = Shown(stored)
OnePerRow ==
  \A f \in Fetches : OnPage(calls[f]) =>
    /\ Loaded("list")
    /\ \A g \in Fetches : OnPage(calls[g]) /\ calls[g].row = calls[f].row => g = f
MadeAreStored ==
  \A f \in Fetches : Made(calls[f]) => \A r \in Rows : calls[f].row = r => calls[f].value = stored[r]
RowsShown ==
  Loaded("list") => \A r \in Rows :
    \/ ui.table[r] = Shown(stored)[r]
    \/ \E f \in Fetches : Made(calls[f]) /\ calls[f].row = r

LEMMA SettingParts ==
  SettingInv <=> (Watched /\ ui.page = "settings" =>
                    ui.no = 1 /\ ListsCurrent /\ OnePerRow /\ MadeAreStored /\ RowsShown)
BY DEF SettingInv, ListsCurrent, OnePerRow, MadeAreStored, RowsShown

LEMMA SettingNext ==
  ASSUME Watched' /\ ui'.page = "settings" =>
           ui'.no = 1 /\ ListsCurrent' /\ OnePerRow' /\ MadeAreStored' /\ RowsShown'
  PROVE  SettingInv'
BY DEF SettingInv, ListsCurrent, OnePerRow, MadeAreStored, RowsShown

\* Off the page's own requests there is nothing to keep.
LEMMA SettingLoads ==
  ASSUME ui'.no = 1, NEW f \in Fetches, calls'[f] = List(1),
         \A g \in Fetches \ {f} : calls'[g].kind # "list" /\ (calls'[g].here => calls'[g].kind = "public")
  PROVE  SettingInv'
<1>1. calls'[f].kind = "list" /\ calls'[f].reply = "pending"
  BY ReadTyped
<1>2. \A g \in Fetches : ~OnPage(calls'[g]) /\ ~Made(calls'[g])
  BY <1>1 DEF OnPage, Made
<1>3. ~Loaded("list")'
  BY <1>1 DEF Loaded
<1>4. ListsCurrent' /\ OnePerRow' /\ MadeAreStored' /\ RowsShown'
  BY <1>1, <1>2, <1>3 DEF ListsCurrent, OnePerRow, MadeAreStored, RowsShown
<1>5. QED BY <1>4, SettingNext

LEMMA MadeOnPage ==
  ASSUME PageInv, ui.page = "settings", NEW f \in Fetches, Made(calls[f])
  PROVE  OnPage(calls[f])
BY DEF PageInv, Fits, Toggles, Made, OnPage

LEMMA SettingStep ==
  ASSUME TypeOK, PageInv, LoadInv, SettingInv, [Next]_vars
  PROVE  SettingInv'
<1>1. ui \in Ui /\ \A g \in Fetches : Fits(ui.page, calls[g])
  BY DEF TypeOK, PageInv
<1>2. SUFFICES ASSUME Watched', ui'.page = "settings" PROVE SettingInv'
  BY SettingNext
<1>3. ASSUME Watched, ui.page = "settings"
      PROVE  ui.no = 1 /\ ListsCurrent /\ OnePerRow /\ MadeAreStored /\ RowsShown
  BY <1>3, SettingParts
<1>4. CASE Still
  <2>1. /\ Watched /\ ui.page = "settings"
        /\ ui'.no = ui.no /\ ui'.table = ui.table /\ stored' = stored
    BY <1>2, <1>4, WatchedBefore DEF Still
  <2>2. \A f \in Fetches :
          /\ calls'[f].kind = "list" \/ calls[f].kind = "list" \/ Made(calls[f]) \/ Made(calls'[f])
               => calls'[f] = calls[f]
          /\ OnPage(calls'[f]) => OnPage(calls[f]) /\ calls[f].row = calls'[f].row
    BY <1>4, <2>1 DEF Still, Quietly
  <2>3. Loaded("list")' <=> Loaded("list")
    BY <2>2 DEF Loaded
  <2>4. ListsCurrent'
    BY <1>3, <2>1, <2>2 DEF ListsCurrent
  <2>5. OnePerRow'
    BY <1>3, <2>1, <2>2, <2>3 DEF OnePerRow
  <2>6. MadeAreStored'
    BY <1>3, <2>1, <2>2 DEF MadeAreStored
  <2>7. RowsShown'
    BY <1>3, <2>1, <2>2, <2>3 DEF RowsShown, Shown
  <2>8. QED BY <1>3, <2>1, <2>4, <2>5, <2>6, <2>7, SettingNext
<1>5. ASSUME NEW f \in Fetches, NEW p \in Pages, NEW r \in Optional, Mount(p, r, f)
      PROVE  SettingInv'
  BY <1>2, <1>5, MountLoads, SettingLoads
<1>6. ASSUME NEW f \in Fetches, NEW r \in Rows, Toggle(f, r) PROVE SettingInv'
  <2>1. 3 - ui.table[r] \in Values /\ ~ui.loading
    BY <1>6 DEF Toggle, MayToggle, InTable, Values
  <2>2. /\ calls'[f].kind = "set" /\ calls'[f].row = r /\ calls'[f].reply = "pending"
        /\ calls[f] = NoCall
        /\ \A g \in Fetches \ {f} : calls'[g] = calls[g]
    BY <1>6, <2>1, SendTyped, RequestTyped DEF Toggle, Changes, Optional
  <2>3. /\ ui'.page = ui.page /\ ui'.no = ui.no /\ ui'.table = ui.table /\ UNCHANGED stored
        /\ stale' = stale \cup Crossing(r)
    BY <1>1, <1>6 DEF Toggle, Step, Ui
  <2>4. Watched /\ ui.page = "settings"
    BY <1>2, <2>3, WatchedBefore
  <2>5. \A g \in Fetches : calls[g].kind = "set" => calls[g].row # r
    BY <1>2, <2>3, <2>4 DEF Crossing, Watched
  <2>6. \A g \in Fetches : calls[g].kind # "list" /\ calls'[g].kind # "list"
    BY <2>1, <2>2, <2>4 DEF LoadInv
  <2>7. \A g \in Fetches : Made(calls'[g]) <=> Made(calls[g]) /\ g # f
    BY <2>2 DEF Made, NoCall
  <2>8. ListsCurrent' /\ MadeAreStored'
    BY <1>3, <2>2, <2>3, <2>4, <2>6, <2>7 DEF ListsCurrent, MadeAreStored
  <2>9. OnePerRow'
    BY <1>3, <2>2, <2>4, <2>5, <2>6 DEF OnePerRow, OnPage, Loaded
  <2>10. RowsShown'
    <3>1. \A s \in Rows : \/ ui.table[s] = Shown(stored)[s]
                          \/ \E g \in Fetches : Made(calls[g]) /\ calls[g].row = s
      BY <1>3, <2>4, <2>6 DEF RowsShown, Loaded
    <3>2. \A g \in Fetches : Made(calls[g]) => Made(calls'[g]) /\ calls'[g] = calls[g]
      BY <2>2 DEF Made, NoCall
    <3>3. QED BY <2>3, <3>1, <3>2 DEF RowsShown, Shown
  <2>11. QED BY <1>3, <2>3, <2>4, <2>8, <2>9, <2>10, SettingNext
<1>7. ASSUME NEW f \in Fetches, NEW n \in 1 .. 2, SetPage(f, n) PROVE FALSE
  <2>1. ui'.page = ui.page
    BY <1>1, <1>7 DEF SetPage, Step, Ui
  <2>2. QED BY <1>2, <1>7, <2>1 DEF SetPage
<1>8. ASSUME NEW f \in Fetches, Makes(f) PROVE SettingInv'
  <2>1. Watched /\ ui.page = "settings" /\ UNCHANGED ui
    BY <1>2, <1>8 DEF Makes, Watched
  <2>2. /\ calls[f].here /\ Made(calls'[f]) /\ calls[f].kind = "set"
        /\ calls'[f].kind = "set" /\ calls'[f].row = calls[f].row /\ calls'[f].here
        /\ calls'[f].value = calls[f].value
        /\ \A g \in Fetches \ {f} : calls'[g] = calls[g]
    BY <1>1, <1>8, <2>1, MakesHere DEF Makes, Fits, Toggles
  <2>3. stored' = [stored EXCEPT ![calls[f].row] = calls[f].value]
    BY <1>8, <2>1, <2>2 DEF Makes, Save, SaveEmpty, Create, Delete, Asked, Make, MadeTo
  <2>4. /\ \A s \in Rows : stored'[s] = IF s = calls[f].row THEN calls[f].value ELSE stored[s]
        /\ \A s \in Rows : s # calls[f].row => Shown(stored')[s] = Shown(stored)[s]
    BY <2>3 DEF TypeOK, Shown
  <2>5. OnPage(calls[f]) /\ \A g \in Fetches : calls[g].kind # "list" /\ calls'[g].kind # "list"
    BY <1>3, <2>1, <2>2 DEF OnePerRow, OnPage, Loaded
  <2>6. ListsCurrent'
    BY <2>5 DEF ListsCurrent
  <2>7. OnePerRow'
    BY <1>3, <2>1, <2>2, <2>5 DEF OnePerRow, OnPage, Loaded
  <2>8. MadeAreStored'
    <3>1. SUFFICES ASSUME NEW g \in Fetches, Made(calls'[g]), NEW s \in Rows, calls'[g].row = s
                   PROVE  calls'[g].value = stored'[s]
      BY DEF MadeAreStored
    <3>2. CASE g = f
      BY <2>2, <2>4, <3>1, <3>2
    <3>3. CASE g # f
      <4>1. Made(calls[g]) /\ calls'[g] = calls[g]
        BY <2>2, <3>1, <3>3
      <4>2. calls[g].row # calls[f].row
        BY <1>3, <2>1, <2>5, <3>3, <4>1, MadeOnPage DEF OnePerRow
      <4>3. QED BY <1>3, <2>1, <2>4, <3>1, <4>1, <4>2 DEF MadeAreStored
    <3>4. QED BY <3>2, <3>3
  <2>9. RowsShown'
    <3>1. SUFFICES ASSUME NEW s \in Rows
                   PROVE  \/ ui'.table[s] = Shown(stored')[s]
                          \/ \E g \in Fetches : Made(calls'[g]) /\ calls'[g].row = s
      BY DEF RowsShown, Shown
    <3>2. CASE s = calls[f].row
      BY <2>2, <3>2
    <3>3. CASE s # calls[f].row
      <4>1. \/ ui.table[s] = Shown(stored)[s]
            \/ \E g \in Fetches : Made(calls[g]) /\ calls[g].row = s
        BY <1>3, <2>1, <2>5 DEF RowsShown, Loaded
      <4>2. QED BY <2>1, <2>2, <2>4, <3>3, <4>1
    <3>4. QED BY <3>2, <3>3
  <2>10. QED BY <1>3, <2>1, <2>6, <2>7, <2>8, <2>9, SettingNext
<1>9. ASSUME NEW f \in Fetches, Reads(f, "list") PROVE SettingInv'
  <2>1. UNCHANGED <<ui, stored>> /\ Watched /\ ui.page = "settings" /\ calls[f].kind = "list"
    BY <1>2, <1>9 DEF Reads, Watched
  <2>2. calls[f].here
    BY <1>1, <2>1 DEF Fits
  <2>3. /\ calls'[f].kind = "list"
        /\ calls'[f].snap = Shown(stored)
        /\ \A g \in Fetches \ {f} : calls'[g] = calls[g]
        /\ \A g \in Fetches : calls[g].kind = "list" => g = f
    BY <1>3, <1>9, <2>1, <2>2, ReadsList DEF LoadInv
  <2>4. ListsCurrent'
    BY <2>1, <2>3 DEF ListsCurrent, Shown
  <2>5. ~Loaded("list") /\ ~Loaded("list")'
    BY <2>1, <2>3 DEF Loaded
  <2>6. \A g \in Fetches : ~OnPage(calls[g]) /\ ~Made(calls[g])
    BY <1>3, <2>1, <2>5, MadeOnPage DEF OnePerRow
  <2>7. \A g \in Fetches : ~OnPage(calls'[g]) /\ ~Made(calls'[g])
    BY <2>3, <2>6 DEF OnPage, Made
  <2>8. OnePerRow' /\ MadeAreStored' /\ RowsShown'
    BY <2>5, <2>7 DEF OnePerRow, MadeAreStored, RowsShown
  <2>9. QED BY <1>3, <2>1, <2>4, <2>8, SettingNext
<1>10. ASSUME NEW f \in Fetches, Listed(f) PROVE SettingInv'
  <2>1. /\ calls'[f] = NoCall /\ calls[f].kind = "list" /\ calls[f].reply = "ok"
        /\ \A g \in Fetches \ {f} : calls'[g] = calls[g]
    BY <1>10, DoneTyped DEF Listed, Got
  <2>2. /\ ui'.page = ui.page /\ ui'.no = ui.no /\ ui'.table = calls[f].snap
        /\ stale' = stale /\ UNCHANGED stored
    BY <1>1, <1>10 DEF Listed, Step, Ui
  <2>3. Watched /\ ui.page = "settings"
    BY <1>2, <2>2, WatchedBefore
  <2>4. ui'.table = Shown(stored)
    BY <1>3, <2>1, <2>2, <2>3 DEF ListsCurrent
  <2>5. \A g \in Fetches : ~OnPage(calls[g]) /\ ~Made(calls[g])
    BY <1>3, <2>1, <2>3, MadeOnPage DEF OnePerRow, Loaded
  <2>6. \A g \in Fetches : ~OnPage(calls'[g]) /\ ~Made(calls'[g])
    BY <2>1, <2>5 DEF OnPage, Made, NoCall
  <2>7. \A g \in Fetches : calls'[g].kind # "list"
    BY <2>1, <2>3 DEF LoadInv, NoCall
  <2>8. ListsCurrent' /\ OnePerRow' /\ MadeAreStored' /\ RowsShown'
    BY <2>2, <2>4, <2>6, <2>7 DEF ListsCurrent, OnePerRow, MadeAreStored, RowsShown, Shown
  <2>9. QED BY <1>3, <2>2, <2>3, <2>8, SettingNext
<1>11. ASSUME NEW f \in Fetches, ListFailed(f) PROVE FALSE
  BY <1>2, <1>11, NoLoadFails
<1>12. ASSUME NEW f \in Fetches, Changed(f) PROVE FALSE
  BY <1>2, <1>12, ChangedLoads DEF Watched
<1>13. ASSUME NEW f \in Fetches, SettingSaved(f), calls[f].here PROVE SettingInv'
  <2>1. /\ calls[f] \in Call /\ calls[f].kind = "set" /\ calls[f].reply = "ok"
        /\ ui.page = "settings" /\ ui'.page = ui.page /\ ui'.no = ui.no
        /\ \A r \in Rows : ui'.table[r] = IF r = calls[f].row THEN calls[f].value ELSE ui.table[r]
        /\ calls'[f] = Public /\ \A g \in Fetches \ {f} : calls'[g] = calls[g]
        /\ UNCHANGED stored /\ stale \subseteq stale'
    BY <1>13, SettingSavedHere
  <2>2. Watched
    BY <1>2, <2>1, WatchedBefore
  <2>3. Made(calls[f]) /\ OnPage(calls[f]) /\ ~OnPage(Public) /\ ~Made(Public)
    BY <1>13, <2>1, ReadTyped DEF Made, OnPage
  <2>4. \A g \in Fetches : calls[g].kind # "list" /\ calls'[g].kind # "list"
    BY <1>3, <2>1, <2>2, <2>3, ReadTyped DEF OnePerRow, Loaded
  <2>5. ListsCurrent' /\ OnePerRow' /\ MadeAreStored'
    BY <1>3, <2>1, <2>2, <2>3, <2>4 DEF ListsCurrent, OnePerRow, MadeAreStored, Loaded
  <2>6. RowsShown'
    <3>1. SUFFICES ASSUME NEW s \in Rows
                   PROVE  \/ ui'.table[s] = Shown(stored)[s]
                          \/ \E g \in Fetches : Made(calls'[g]) /\ calls'[g].row = s
      BY <2>1 DEF RowsShown, Shown
    <3>2. CASE s = calls[f].row
      <4>1. calls[f].value = stored[s] /\ calls[f].value \in {0} \cup Values
        BY <1>3, <2>1, <2>2, <2>3, <3>2 DEF MadeAreStored, Call
      <4>2. Shown(stored)[s] = stored[s]
        BY <4>1 DEF Shown
      <4>3. QED BY <2>1, <3>2, <4>1, <4>2
    <3>3. CASE s # calls[f].row
      <4>1. \/ ui.table[s] = Shown(stored)[s]
            \/ \E g \in Fetches : Made(calls[g]) /\ calls[g].row = s
        BY <1>3, <2>1, <2>2, <2>4 DEF RowsShown, Loaded
      <4>2. QED BY <2>1, <3>3, <4>1
    <3>4. QED BY <3>2, <3>3
  <2>7. QED BY <1>3, <2>1, <2>2, <2>5, <2>6, SettingNext
<1>14. "table" \notin stale' /\ ui'.page # "form"
  BY <1>2 DEF Watched
<1>15. QED BY <1>4, <1>5, <1>6, <1>7, <1>8, <1>9, <1>10, <1>11, <1>12, <1>13, <1>14, TableSteps
           DEF Mounts

-----------------------------------------------------------------------------
(* The sidebar.                                                            *)

LEMMA PublicTyped == Public.no = 1
BY DEF Public, NoCall

\* A request that is of no account for the sidebar.
Aside(c, d) ==
  /\ c.kind = "public" \/ d.kind = "public" =>
       d.kind = c.kind /\ d.here = c.here /\ d.no = c.no /\ d.reply = c.reply /\ d.snap = c.snap
  /\ Saved(c) => Saved(d)

LEMMA SidebarKept ==
  ASSUME SidebarInv, ui'.page = "settings" => ui.page = "settings", UNCHANGED <<stored, sidebar>>,
         "sidebar" \in stale => "sidebar" \in stale', \A g \in Fetches : Aside(calls[g], calls'[g])
  PROVE  SidebarInv'
<1>1. SUFFICES ASSUME ui'.page = "settings", "sidebar" \notin stale' PROVE SidebarInv'
  BY DEF SidebarInv
<1>2. /\ Loaded("public")' <=> Loaded("public")
      /\ Shown(stored)' = Shown(stored)
  BY DEF Loaded, Aside, Shown
<1>3. QED BY <1>1, <1>2 DEF SidebarInv, Aside

LEMMA AsideSend ==
  ASSUME TypeOK, NEW f \in Fetches, NEW c \in Call, Send(f, c), c.kind # "public"
  PROVE  \A g \in Fetches : Aside(calls[g], calls'[g])
BY SendTyped DEF Aside, Saved, NoCall

LEMMA AsideDone ==
  ASSUME TypeOK, NEW f \in Fetches, Done(f), calls[f].kind # "public", ~Saved(calls[f])
  PROVE  \A g \in Fetches : Aside(calls[g], calls'[g])
BY DoneTyped DEF Aside, NoCall

LEMMA AsideAnswered ==
  ASSUME TypeOK, NEW f \in Fetches, calls[f].kind \notin {"none", "public"},
         calls[f].reply \in {"pending", "found"}, NEW r \in {"ok", "fail"}, NEW s \in Tables,
         \/ Answered(f, [calls[f] EXCEPT !.reply = r])
         \/ Answered(f, [calls[f] EXCEPT !.reply = r, !.snap = s])
  PROVE  \A g \in Fetches : Aside(calls[g], calls'[g])
<1>1. \A g \in Fetches \ {f} : calls'[g] = calls[g]
  BY AnsweredTyped
<1>2. calls'[f] = NoCall \/ calls'[f].kind = calls[f].kind
  BY AnsweredTyped
<1>3. QED BY <1>1, <1>2 DEF Aside, Saved, NoCall

LEMMA SidebarClicks ==
  ASSUME TypeOK, SidebarInv,
         \/ UNCHANGED vars \/ TypePassword \/ CloseModal
         \/ \E r \in Rows : OpenModal(r)
         \/ \E r \in Optional : OpenForm(r)
         \/ \E f \in Fetches : \/ \E r \in Rows : Toggle(f, r) \/ PremiumToggle(f, r)
                               \/ \E n \in 1 .. 2 : SetPage(f, n)
                               \/ Confirm(f) \/ Submit(f)
  PROVE  SidebarInv'
<1>1. ui \in Ui
  BY DEF TypeOK
<1>2. ASSUME UNCHANGED calls PROVE \A g \in Fetches : Aside(calls[g], calls'[g])
  BY <1>2 DEF Aside
<1>3. CASE UNCHANGED vars
  BY <1>2, <1>3, SidebarKept DEF vars
<1>4. CASE TypePassword \/ CloseModal
  BY <1>1, <1>2, <1>4, SidebarKept DEF TypePassword, CloseModal, Step, Ui
<1>5. ASSUME NEW r \in Rows, OpenModal(r) PROVE SidebarInv'
  BY <1>1, <1>2, <1>5, SidebarKept DEF OpenModal, Opened, Step, Ui
<1>6. ASSUME NEW r \in Optional, OpenForm(r) PROVE SidebarInv'
  BY <1>1, <1>2, <1>6, SidebarKept DEF OpenForm, Step, Ui
<1>7. ASSUME NEW f \in Fetches, NEW r \in Rows, Toggle(f, r) PROVE SidebarInv'
  <2>1. 3 - ui.table[r] \in Values
    BY <1>7 DEF Toggle, MayToggle, InTable, Values
  <2>2. Send(f, Request("set", r, 3 - ui.table[r], Nothing)) /\ "set" \in Changes /\ Nothing \in Optional
        /\ r \in Optional
    BY <1>7 DEF Toggle, Changes, Optional
  <2>3. \A g \in Fetches : Aside(calls[g], calls'[g])
    BY <2>1, <2>2, RequestTyped, AsideSend
  <2>4. ui'.page = ui.page /\ UNCHANGED <<stored, sidebar>> /\ stale \subseteq stale'
    BY <1>1, <1>7 DEF Toggle, Step, Ui
  <2>5. QED BY <2>3, <2>4, SidebarKept
<1>8. ASSUME NEW f \in Fetches, NEW r \in Rows, PremiumToggle(f, r) PROVE SidebarInv'
  <2>1. \A g \in Fetches : Aside(calls[g], calls'[g])
    BY <1>8, RequestTyped, AsideSend DEF PremiumToggle, Changes, Optional
  <2>2. QED BY <1>1, <1>8, <2>1, SidebarKept DEF PremiumToggle, Step, Ui
<1>9. ASSUME NEW f \in Fetches, NEW n \in 1 .. 2, SetPage(f, n) PROVE SidebarInv'
  <2>1. \A g \in Fetches : Aside(calls[g], calls'[g])
    BY <1>9, ReadTyped, AsideSend DEF SetPage
  <2>2. ui'.page = ui.page /\ UNCHANGED <<stored, sidebar>> /\ stale \subseteq stale'
    BY <1>1, <1>9 DEF SetPage, Step, Ui
  <2>3. QED BY <2>1, <2>2, SidebarKept
<1>10. ui.target \in Optional /\ ui.typed \in Optional /\ ui.editing \in Optional
  BY <1>1 DEF Ui
<1>11. ASSUME NEW f \in Fetches, Confirm(f) PROVE SidebarInv'
  <2>1. PICK kind \in {"password", "delete"} : Send(f, Request(kind, ui.target, 0, ui.typed))
    BY <1>11 DEF Confirm
  <2>2. \A g \in Fetches : Aside(calls[g], calls'[g])
    BY <1>10, <2>1, AsideSend, RequestTyped DEF Changes
  <2>3. QED BY <1>1, <1>11, <2>2, SidebarKept DEF Confirm, Step, Ui
<1>12. ASSUME NEW f \in Fetches, Submit(f) PROVE SidebarInv'
  <2>1. PICK kind \in {"create", "set"} : Send(f, Request(kind, ui.editing, Edited, Nothing))
    BY <1>12 DEF Submit
  <2>2. /\ Request(kind, ui.editing, Edited, Nothing) \in Call
        /\ Request(kind, ui.editing, Edited, Nothing).kind = kind
    BY SubmitTyped
  <2>3. \A g \in Fetches : Aside(calls[g], calls'[g])
    BY <2>1, <2>2, AsideSend
  <2>4. QED BY <1>1, <1>12, <2>3, SidebarKept DEF Submit, Step, Ui
<1>13. QED BY <1>3, <1>4, <1>5, <1>6, <1>7, <1>8, <1>9, <1>11, <1>12

\* A page of the same table is opened, and the answers to come are still heard.
LEMMA SidebarVisit ==
  ASSUME TypeOK, SidebarInv, NEW f \in Fetches, NEW p \in Pages, NEW r \in Optional, Visit(f, p, r)
  PROVE  SidebarInv'
<1>1. /\ calls[f] = NoCall /\ ui'.page = p /\ UNCHANGED <<stored, sidebar>>
      /\ "sidebar" \in stale => "sidebar" \in stale'
      /\ Table(p) = Table(ui.page)
  BY DEF Visit, Mount, Fresh
<1>2. SUFFICES ASSUME p = "settings" PROVE SidebarInv'
  BY <1>1 DEF SidebarInv
<1>3. ui.page = "settings"
  BY <1>1, <1>2 DEF Table
<1>4. Aside(calls[f], calls'[f])
  <2>1. calls'[f] = First(p, r) /\ First(p, r).kind # "public"
    BY FirstTyped DEF Visit, Mount
  <2>2. calls[f].kind = "none"
    BY <1>1 DEF NoCall
  <2>3. ~Saved(calls[f]) /\ calls[f].kind # "public" /\ calls'[f].kind # "public"
    BY <2>1, <2>2 DEF Saved
  <2>4. QED BY <2>3 DEF Aside
<1>5. ASSUME NEW g \in Fetches, g # f, SidebarInv, "sidebar" \notin stale
      PROVE  Aside(calls[g], calls'[g])
  <2>1. calls'[g] = Left(calls[g])
    BY <1>5 DEF Visit, Mount
  <2>2. CASE calls[g].kind = "public"
    <3>1. calls[g] \in Call /\ calls[g].here
      BY <1>3, <1>5, <2>2, LiveCall DEF SidebarInv
    <3>2. Left(calls[g]) = [calls[g] EXCEPT !.here = TRUE]
      BY <2>2 DEF Left
    <3>3. QED BY <2>1, <2>2, <3>1, <3>2 DEF Aside, Saved, Call
  <2>3. CASE calls[g].kind # "public"
    <3>1. calls'[g].kind # "public"
      BY <2>1, <2>3, LeftTyped DEF NoCall
    <3>2. CASE Saved(calls[g])
      <4>1. Left(calls[g]) = [calls[g] EXCEPT !.here = FALSE] /\ calls[g] \in Call
        BY <1>3, <2>3, <3>2, LiveCall DEF Left, Saved, Lasting, Table, Changes
      <4>2. Saved(calls'[g])
        BY <2>1, <3>2, <4>1 DEF Saved, Call
      <4>3. QED BY <2>3, <3>1, <4>2 DEF Aside
    <3>3. QED BY <2>3, <3>1, <3>2 DEF Aside
  <2>4. QED BY <2>2, <2>3
<1>6. QED BY <1>1, <1>3, <1>4, <1>5, SidebarKept DEF SidebarInv

LEMMA SidebarServe ==
  ASSUME TypeOK, PageInv, SidebarInv, NEW f \in Fetches, Serve(f)
  PROVE  SidebarInv'
<1>1. calls[f] \in Call /\ calls[f].kind # "none" /\ calls[f].reply \in {"pending", "found"}
  BY ServedKind
<1>2. /\ Fits(ui.page, calls[f])
      /\ UNCHANGED <<ui, sidebar>> /\ stale \subseteq stale'
  BY DEF PageInv, Serve, Refuse, ServeRead, Find, Save, SaveEmpty, Create, Delete, Hidden, Make,
       MadeTo
<1>3. SUFFICES ASSUME ui.page = "settings", "sidebar" \notin stale' PROVE SidebarInv'
  BY <1>2 DEF SidebarInv
<1>4. "sidebar" \notin stale
  BY <1>2, <1>3
<1>5. CASE Refuse(f)
  <2>1. calls[f].kind # "public"
    BY <1>3, <1>5 DEF Refuse
  <2>2. \A g \in Fetches : Aside(calls[g], calls'[g])
    BY <1>1, <1>5, <2>1, EmptyTyped, AsideAnswered DEF Refuse, Reply
  <2>3. QED BY <1>2, <1>5, <2>2, SidebarKept DEF Refuse
<1>6. CASE ServeRead(f) /\ calls[f].kind # "public"
  <2>1. Read(calls[f]) \in Tables
    BY EmptyTyped DEF Read, Shown, Tables
  <2>2. \A g \in Fetches : Aside(calls[g], calls'[g])
    BY <1>1, <1>6, <2>1, AsideAnswered DEF ServeRead
  <2>3. QED BY <1>6, <2>2, SidebarKept DEF ServeRead
<1>7. CASE ServeRead(f) /\ calls[f].kind = "public"
  <2>1. /\ calls[f].here /\ calls[f].no = 1
        /\ \A g \in Fetches : calls[g].kind = "public" => g = f
    BY <1>3, <1>4, <1>7 DEF SidebarInv
  <2>2. Reads(f, "public") /\ UNCHANGED stored
    BY <1>7 DEF ServeRead, Reads, Asked
  <2>3. /\ calls'[f].kind = "public" /\ calls'[f].no = 1 /\ calls'[f].reply = "ok"
        /\ calls'[f].snap = Shown(stored) /\ calls'[f].here
        /\ \A g \in Fetches \ {f} : calls'[g] = calls[g]
    BY <2>1, <2>2, ReadsList
  <2>4. \A g \in Fetches : calls'[g].kind = "public" => g = f
    BY <2>1, <2>3
  <2>5. QED BY <2>2, <2>3, <2>4 DEF SidebarInv, Loaded, Shown
<1>8. CASE Find(f) \/ SaveEmpty(f)
  BY <1>3, <1>8 DEF Find, SaveEmpty
<1>9. CASE Save(f)
  <2>1. calls[f].kind = "set" /\ Make(f, [stored EXCEPT ![calls[f].row] = calls[f].value])
    BY <1>2, <1>9 DEF Save, Asked, Fits
  <2>2. Answered(f, [calls[f] EXCEPT !.reply = "ok"])
    BY <1>3, <2>1 DEF Make, MadeTo, Reply
  <2>3. Lasting(calls[f])
    BY <1>3, <2>1 DEF Lasting, Table
  <2>4. /\ Saved(calls'[f]) /\ calls'[f].kind = "set"
        /\ \A g \in Fetches \ {f} : calls'[g] = calls[g]
    BY <1>1, <2>1, <2>2, <2>3, EmptyTyped, AnsweredTyped DEF Saved
  <2>5. \A g \in Fetches : calls'[g].kind = "public" => calls'[g] = calls[g]
    BY <2>4
  <2>6. QED BY <1>3, <1>4, <2>4, <2>5 DEF SidebarInv
<1>10. CASE Create(f) \/ Delete(f)
  BY <1>2, <1>3, <1>10 DEF Create, Delete, Asked, Fits, Toggles
<1>11. CASE Hidden(f)
  <2>1. calls[f].kind \in {"premium", "password"} /\ Make(f, stored)
    BY <1>11 DEF Hidden, Asked
  <2>2. Answered(f, [calls[f] EXCEPT !.reply = "ok"]) /\ UNCHANGED stored
    BY <1>3, <2>1 DEF Make, MadeTo, Reply
  <2>3. \A g \in Fetches : Aside(calls[g], calls'[g])
    BY <1>1, <2>1, <2>2, EmptyTyped, AsideAnswered
  <2>4. QED BY <1>2, <2>2, <2>3, SidebarKept
<1>12. QED BY <1>5, <1>6, <1>7, <1>8, <1>9, <1>10, <1>11 DEF Serve

LEMMA SidebarDeliver ==
  ASSUME TypeOK, PageInv, SidebarInv, NEW f \in Fetches, Deliver(f)
  PROVE  SidebarInv'
<1>1. calls[f] \in Call
  BY LiveCall DEF Deliver, Listed, ListFailed, FormLoaded, SidebarLoaded, Changed,
                  PasswordSet, SettingSaved, FormSaved, Failed, Got, Changes
<1>2. ui \in Ui /\ Fits(ui.page, calls[f])
  BY DEF TypeOK, PageInv
<1>3. ASSUME Done(f), calls[f].kind # "public", ~Saved(calls[f]), UNCHANGED <<stored, sidebar, stale>>,
             ui'.page = ui.page
      PROVE  SidebarInv'
  BY <1>3, AsideDone, SidebarKept
<1>4. CASE Listed(f) \/ ListFailed(f)
  <2>1. calls[f].kind = "list"
    BY <1>4 DEF Listed, ListFailed, Got
  <2>2. ui'.page = ui.page
    BY <1>2, <1>4 DEF Listed, ListFailed, AfterFailure, Step, Ui
  <2>3. QED BY <1>3, <1>4, <2>1, <2>2 DEF Listed, ListFailed, Step, Saved
<1>5. CASE FormLoaded(f)
  <2>1. calls[f].kind = "get" /\ ui'.page = ui.page
    BY <1>2, <1>5 DEF FormLoaded, Step, Ui
  <2>2. QED BY <1>3, <1>5, <2>1 DEF FormLoaded, Step, Saved
<1>6. CASE SidebarLoaded(f)
  <2>1. /\ calls'[f] = NoCall /\ calls[f].kind = "public"
        /\ \A g \in Fetches \ {f} : calls'[g] = calls[g]
        /\ UNCHANGED <<ui, stored, stale>>
    BY <1>6, DoneTyped DEF SidebarLoaded
  <2>2. SUFFICES ASSUME ui.page = "settings", "sidebar" \notin stale PROVE SidebarInv'
    BY <2>1 DEF SidebarInv
  <2>3. /\ calls[f].reply = "ok"
        /\ \A g \in Fetches : calls[g].kind = "public" => g = f
    BY <1>6, <2>1, <2>2 DEF SidebarInv, SidebarLoaded
  <2>4. sidebar' = calls[f].snap
    BY <1>6, <2>3 DEF SidebarLoaded
  <2>5. \A g \in Fetches : calls'[g].kind # "public"
    BY <2>1, <2>3 DEF NoCall
  <2>6. CASE \E g \in Fetches : Saved(calls[g])
    <3>1. \E g \in Fetches : Saved(calls'[g])
      BY <2>1, <2>6 DEF Saved
    <3>2. QED BY <2>5, <3>1 DEF SidebarInv
  <2>7. CASE calls[f].snap = Shown(stored)
    BY <2>1, <2>4, <2>5, <2>7 DEF SidebarInv, Shown
  <2>8. QED BY <2>1, <2>2, <2>3, <2>6, <2>7 DEF SidebarInv
<1>7. CASE Changed(f)
  <2>1. ui.page # "settings"
    BY <1>2, <1>7 DEF Changed, Got, Fits, Toggles
  <2>2. ui' = [Cleared(Closed(ui, calls[f]), calls[f]) EXCEPT !.loading = TRUE]
    BY <1>7 DEF Changed, Reload, Step
  <2>3. /\ Cleared(Closed(ui, calls[f]), calls[f]).page = ui.page
        /\ Cleared(Closed(ui, calls[f]), calls[f]) \in Ui
    BY <1>1, <1>2, ClearedTable, ClosedTable
  <2>4. ui'.page # "settings"
    BY <2>1, <2>2, <2>3 DEF Ui
  <2>5. QED BY <2>4 DEF SidebarInv
<1>8. CASE PasswordSet(f)
  <2>1. ui'.page = ui.page
    BY <1>1, <1>2, <1>8, ClearedTable, ClosedTable DEF PasswordSet, Step
  <2>2. QED BY <1>3, <1>8, <2>1 DEF PasswordSet, Got, Step, Saved
<1>9. CASE SettingSaved(f)
  <2>1. /\ calls'[f] = Public /\ \A g \in Fetches \ {f} : calls'[g] = calls[g]
        /\ "sidebar" \notin stale' => \A g \in Fetches : calls[g].kind # "public"
    BY <1>9 DEF SettingSaved, ReloadSidebar, TypeOK
  <2>2. /\ Public.kind = "public" /\ Public.here /\ Public.no = 1 /\ Public.reply = "pending"
    BY ReadTyped, PublicTyped
  <2>3. QED BY <2>1, <2>2 DEF SidebarInv, Loaded
<1>10. CASE FormSaved(f)
  <2>1. ui.page # "settings"
    BY <1>10 DEF FormSaved, Table
  <2>2. ui'.page # "settings"
    BY <1>10, <2>1 DEF FormSaved, Mount, Fresh
  <2>3. QED BY <2>2 DEF SidebarInv
<1>11. CASE Failed(f)
  <2>1. calls[f].kind \in Changes /\ calls[f].reply = "fail"
    BY <1>11 DEF Failed, Got
  <2>2. ui'.page = ui.page
    BY <1>1, <1>2, <1>11, ClearedTable DEF Failed, Step
  <2>3. QED BY <1>3, <1>11, <2>1, <2>2 DEF Failed, Step, Saved, Changes
<1>12. QED BY <1>4, <1>5, <1>6, <1>7, <1>8, <1>9, <1>10, <1>11 DEF Deliver

LEMMA SidebarStep ==
  ASSUME TypeOK, PageInv, SidebarInv, [Next]_vars
  PROVE  SidebarInv'
<1>1. ASSUME NEW r \in Rows, Elsewhere(r) PROVE SidebarInv'
  BY <1>1 DEF Elsewhere, SidebarInv
<1>2. ASSUME NEW f \in Fetches, NEW r \in Optional, Jump(f, r) PROVE SidebarInv'
  <2>1. ui'.page # "settings"
    BY <1>2 DEF Jump, TypeOK, Ui
  <2>2. QED BY <2>1 DEF SidebarInv
<1>3. QED BY <1>1, <1>2, SidebarClicks, SidebarVisit, SidebarServe, SidebarDeliver DEF Next

-----------------------------------------------------------------------------
LEMMA QuietInit == Init => LoadInv /\ TableInv /\ SettingInv /\ SidebarInv
<1>1. SUFFICES ASSUME Init PROVE LoadInv /\ TableInv /\ SettingInv /\ SidebarInv
  OBVIOUS
<1>2. PICK p \in Toggles \cup {"categories", "challenges"}, errand \in Errands :
        /\ ui = Fresh(p, Nothing, errand)
        /\ \E f, g \in Fetches :
             /\ f # g
             /\ calls = [h \in Fetches |-> CASE h = f -> List(1)
                                             [] h = g /\ p = "settings" -> Public
                                             [] OTHER -> NoCall]
  BY <1>1 DEF Init
<1>3. ui.page = p /\ ui.no = 1 /\ ui.loading /\ p # "form"
  BY <1>2 DEF Fresh, Toggles
<1>4. PICK f, g \in Fetches :
        /\ f # g
        /\ calls[f] = List(1)
        /\ p = "settings" => calls[g] = Public
        /\ p # "settings" => calls[g] = NoCall
        /\ \A h \in Fetches \ {f, g} : calls[h] = NoCall
  BY <1>2
<1>5. /\ \A h \in Fetches \ {f} : calls[h] \in {Public, NoCall}
      /\ p = "settings" => \A h \in Fetches \ {g} : calls[h] \in {List(1), NoCall}
  BY <1>4
<1>6. /\ List(1).kind = "list" /\ List(1).reply = "pending" /\ List(1).no = 1
      /\ Public.kind = "public" /\ Public.reply = "pending" /\ Public.no = 1 /\ Public.here
      /\ NoCall.kind = "none"
  BY ReadTyped, PublicTyped DEF NoCall
<1>7. \A h \in Fetches :
        /\ calls[h].kind \in {"list", "public", "none"}
        /\ calls[h].kind = "list" => h = f
  BY <1>4, <1>5, <1>6
<1>8. LoadInv
  BY <1>3, <1>4, <1>6, <1>7 DEF LoadInv, Away, Changes
<1>9. TableInv
  BY <1>4, <1>6, <1>7 DEF TableInv, Loaded
<1>10. SettingInv
  BY <1>3, <1>4, <1>6, <1>7 DEF SettingInv, OnPage, Made, Loaded
<1>11. SidebarInv
  BY <1>3, <1>4, <1>5, <1>6 DEF SidebarInv, Loaded
<1>12. QED BY <1>8, <1>9, <1>10, <1>11

LEMMA QuietIsCurrent ==
  ASSUME TypeOK, PageInv, TableInv, SettingInv, SidebarInv
  PROVE  QuietPageIsCurrent
<1>1. QuietTableIsCurrent
  <2>1. SUFFICES ASSUME Watched, \A f \in Fetches : calls[f].kind \in {"none", "public"}
                 PROVE  ui.table = IF ui.no = 1 THEN Shown(stored) ELSE Empty
    BY DEF QuietTableIsCurrent, Watched
  <2>2. Loaded("list") /\ \A f \in Fetches : ~Made(calls[f])
    BY <2>1 DEF Loaded, Made
  <2>3. CASE ui.page # "settings"
    BY <2>1, <2>2, <2>3 DEF TableInv, Current
  <2>4. CASE ui.page = "settings"
    <3>1. ui.no = 1 /\ \A r \in Rows : ui.table[r] = Shown(stored)[r]
      BY <2>1, <2>2, <2>4 DEF SettingInv
    <3>2. ui.table \in Tables /\ Shown(stored) \in Tables
      BY DEF TypeOK, Ui, Shown, Tables
    <3>3. QED BY <3>1, <3>2 DEF Tables
  <2>5. QED BY <2>3, <2>4
<1>2. QuietSidebarIsCurrent
  <2>1. SUFFICES ASSUME ui.page = "settings", "sidebar" \notin stale,
                        \A f \in Fetches : calls[f].kind \in {"none", "list"}
                 PROVE  sidebar = Shown(stored)
    BY DEF QuietSidebarIsCurrent
  <2>2. QED BY <2>1 DEF SidebarInv, Loaded, Saved
<1>3. QED BY <1>1, <1>2 DEF QuietPageIsCurrent

\* What an undisturbed page shows, and the sidebar, is what the server has
\* once every request is answered (load, reload and toggle of the pages).
THEOREM QuietPageShowsTable == Spec => []QuietPageIsCurrent
<1> DEFINE Inv == TypeOK /\ PageInv /\ LoadInv /\ TableInv /\ SettingInv /\ SidebarInv
<1>1. Init => Inv
  BY TypeInit, PageInit, QuietInit
<1>2. Inv /\ [Next]_vars => Inv'
  BY TypeStep, PageStep, LoadStep, TableStep, SettingStep, SidebarStep
<1>3. Inv => QuietPageIsCurrent
  BY QuietIsCurrent
<1>4. QED BY <1>1, <1>2, <1>3, PTL DEF Spec

-----------------------------------------------------------------------------
(* Disabled buttons and the requests behind them.                          *)

\* The change a button is disabled for.
Disables(c) == c.kind \in {"set", "premium"} /\ c.here

\* What is on the way for the page stays on the way while it is served.
LEMMA ServeKeeps ==
  ASSUME TypeOK, NEW f \in Fetches, Serve(f), NEW g \in Fetches, Disables(calls[g])
  PROVE  Disables(calls'[g]) /\ calls'[g].kind = calls[g].kind /\ calls'[g].row = calls[g].row
<1>1. calls[f].kind # "none" /\ calls[f] \in Call
  BY ServedKind
<1>2. SUFFICES /\ g # f => calls'[g] = calls[g]
               /\ calls[f].here => /\ calls'[f].kind = calls[f].kind /\ calls'[f].here
                                   /\ calls'[f].row = calls[f].row
  BY DEF Disables
<1>3. CASE Refuse(f)
  <2>1. Answered(f, [calls[f] EXCEPT !.reply = "fail"])
    BY <1>3 DEF Refuse, Reply
  <2>2. QED BY <1>1, <2>1, AnsweredTyped, EmptyTyped
<1>4. CASE ServeRead(f)
  <2>1. Read(calls[f]) \in Tables
    BY EmptyTyped DEF Read, Shown, Tables
  <2>2. QED BY <1>1, <1>4, <2>1, AnsweredTyped DEF ServeRead
<1>5. CASE Find(f)
  BY <1>1, <1>5 DEF Find, TypeOK, Call
<1>6. ASSUME NEW t, MadeTo(f, t)
      PROVE  /\ g # f => calls'[g] = calls[g]
             /\ calls[f].here => /\ calls'[f].kind = calls[f].kind /\ calls'[f].here
                                 /\ calls'[f].row = calls[f].row
  BY <1>1, <1>6, MakeTyped
<1>7. QED BY <1>3, <1>4, <1>5, <1>6 DEF Serve, Save, SaveEmpty, Create, Delete, Hidden, Make

\* A step of a page that ends no change and disables no button.
LEMMA SlotsKept ==
  ASSUME SlotsAreBacked, ui'.page = ui.page,
         ui'.slot \in {Nothing, ui.slot}, ui'.premium \in {Nothing, ui.premium},
         \A g \in Fetches : Disables(calls[g]) =>
           \/ Disables(calls'[g]) /\ calls'[g].kind = calls[g].kind /\ calls'[g].row = calls[g].row
           \/ calls[g].kind = "set" /\ ui'.slot = Nothing
           \/ calls[g].kind = "premium" /\ ui'.premium = Nothing
  PROVE  SlotsAreBacked'
<1>1. ASSUME ui'.slot # Nothing PROVE ui'.page \in Toggles /\ UnderWay("set", ui.slot)'
  <2>1. ui.page \in Toggles /\ UnderWay("set", ui.slot) /\ ui'.slot = ui.slot
    BY <1>1 DEF SlotsAreBacked
  <2>2. PICK g \in Fetches : calls[g].kind = "set" /\ calls[g].row = ui.slot /\ calls[g].here
    BY <2>1 DEF UnderWay
  <2>3. calls'[g].kind = "set" /\ calls'[g].row = ui'.slot /\ calls'[g].here
    BY <1>1, <2>1, <2>2 DEF Disables
  <2>4. QED BY <2>1, <2>3 DEF UnderWay
<1>2. ASSUME ui'.premium # Nothing PROVE UnderWay("premium", ui.premium)'
  <2>1. UnderWay("premium", ui.premium) /\ ui'.premium = ui.premium
    BY <1>2 DEF SlotsAreBacked
  <2>2. PICK g \in Fetches :
          calls[g].kind = "premium" /\ calls[g].row = ui.premium /\ calls[g].here
    BY <2>1 DEF UnderWay
  <2>3. calls'[g].kind = "premium" /\ calls'[g].row = ui'.premium /\ calls'[g].here
    BY <1>2, <2>1, <2>2 DEF Disables
  <2>4. QED BY <2>3 DEF UnderWay
<1>3. QED BY <1>1, <1>2 DEF SlotsAreBacked

\* A handler with the answer of its change frees the slot of its kind.
LEMMA ClearedSlots ==
  ASSUME NEW u \in Ui, NEW c \in Call
  PROVE  LET w == Cleared(u, c)
             v == Cleared(Closed(u, c), c)
         IN /\ w.slot \in {Nothing, u.slot} /\ w.premium \in {Nothing, u.premium}
            /\ v.slot \in {Nothing, u.slot} /\ v.premium \in {Nothing, u.premium}
            /\ c.kind = "premium" => w.premium = Nothing /\ v.premium = Nothing
            /\ c.kind = "set" /\ u.page \in Toggles => w.slot = Nothing /\ v.slot = Nothing
<1>1. ASSUME NEW w \in Ui
      PROVE  LET v == Cleared(w, c)
             IN /\ v.slot \in {Nothing, w.slot} /\ v.premium \in {Nothing, w.premium}
                /\ c.kind = "premium" => v.premium = Nothing
                /\ c.kind = "set" /\ w.page \in Toggles => v.slot = Nothing
  BY DEF Cleared, Ui
<1>2. /\ Closed(u, c) \in Ui /\ Closed(u, c).page = u.page
      /\ Closed(u, c).slot = u.slot /\ Closed(u, c).premium = u.premium
  BY ClosedTable DEF Closed, Ui
<1>3. QED BY <1>1, <1>2

LEMMA SlotsMounted ==
  ASSUME NEW f \in Fetches, NEW p \in Pages, NEW r \in Optional, Mount(p, r, f)
  PROVE  SlotsAreBacked'
BY DEF Mount, Fresh, SlotsAreBacked

LEMMA SlotsDeliver ==
  ASSUME TypeOK, PageInv, SlotsAreBacked, NEW f \in Fetches, Deliver(f)
  PROVE  SlotsAreBacked'
<1>1. calls[f] \in Call
  BY LiveCall DEF Deliver, Listed, ListFailed, FormLoaded, SidebarLoaded, Changed,
                  PasswordSet, SettingSaved, FormSaved, Failed, Got, Changes
<1>2. ui \in Ui /\ Fits(ui.page, calls[f])
  BY DEF TypeOK, PageInv
<1>3. CASE FormSaved(f) /\ ui.page = "form"
  BY <1>3, SlotsMounted DEF FormSaved, Pages, Optional
<1>4. ASSUME ~(FormSaved(f) /\ ui.page = "form")
      PROVE  \A g \in Fetches \ {f} : calls'[g] = calls[g]
  BY <1>4, DoneTyped DEF Deliver, Listed, ListFailed, FormLoaded, SidebarLoaded, Changed, Reload,
         PasswordSet, SettingSaved, FormSaved, Failed, TypeOK
<1>5. ASSUME ~(FormSaved(f) /\ ui.page = "form"), ui'.page = ui.page,
             ui'.slot \in {Nothing, ui.slot}, ui'.premium \in {Nothing, ui.premium},
             Disables(calls[f]) => \/ calls[f].kind = "set" /\ ui'.slot = Nothing
                                   \/ calls[f].kind = "premium" /\ ui'.premium = Nothing
      PROVE  SlotsAreBacked'
  BY <1>4, <1>5, SlotsKept
<1>6. CASE Listed(f) \/ ListFailed(f) \/ FormLoaded(f) \/ SidebarLoaded(f)
  <2>1. ~Disables(calls[f]) /\ ~FormSaved(f)
    BY <1>6 DEF Listed, ListFailed, FormLoaded, SidebarLoaded, FormSaved, Got, Disables
  <2>2. ui'.page = ui.page /\ ui'.slot = ui.slot /\ ui'.premium = ui.premium
    BY <1>2, <1>6 DEF Listed, ListFailed, AfterFailure, FormLoaded, SidebarLoaded, Step, Ui
  <2>3. QED BY <1>5, <2>1, <2>2
\* On a page without toggles a slot is free.
<1>7. ui.page \notin Toggles => ui.slot = Nothing
  BY DEF SlotsAreBacked
<1>8. CASE Changed(f)
  <2>1. /\ ui'.page = ui.page
        /\ ui'.slot = Cleared(Closed(ui, calls[f]), calls[f]).slot
        /\ ui'.premium = Cleared(Closed(ui, calls[f]), calls[f]).premium
    <3>1. /\ Cleared(Closed(ui, calls[f]), calls[f]) \in Ui
          /\ Cleared(Closed(ui, calls[f]), calls[f]).page = ui.page
      BY <1>1, <1>2, ClosedTable, ClearedTable
    <3>2. ui' = [Cleared(Closed(ui, calls[f]), calls[f]) EXCEPT !.loading = TRUE]
      BY <1>8 DEF Changed, Reload, Step
    <3>3. QED BY <3>1, <3>2 DEF Ui
  <2>2. ~(FormSaved(f) /\ ui.page = "form")
    BY <1>2, <1>8 DEF Changed, FormSaved, Got
  <2>3. QED BY <1>1, <1>2, <1>5, <1>7, <2>1, <2>2, ClearedSlots DEF Disables
<1>9. CASE PasswordSet(f)
  <2>1. ui' = Cleared(Closed(ui, calls[f]), calls[f]) /\ calls[f].kind = "password"
    BY <1>9 DEF PasswordSet, Step, Got
  <2>2. ui'.page = ui.page
    BY <1>1, <1>2, <2>1, ClosedTable, ClearedTable
  <2>3. QED BY <1>1, <1>2, <1>5, <2>1, <2>2, ClearedSlots DEF Disables, FormSaved, Got
<1>10. CASE SettingSaved(f)
  <2>1. ui.page = "settings" /\ calls[f].kind = "set"
    BY <1>10 DEF SettingSaved, Got
  <2>2. CASE calls[f].here
    <3>1. /\ Cleared(ui, calls[f]) \in Ui /\ Cleared(ui, calls[f]).page = ui.page
      BY <1>1, <1>2, ClearedTable
    <3>2. /\ ui'.page = ui.page /\ ui'.slot = Cleared(ui, calls[f]).slot
          /\ ui'.premium = Cleared(ui, calls[f]).premium
      BY <1>10, <2>2, <3>1 DEF SettingSaved, Step, Ui
    <3>3. QED BY <1>1, <1>2, <1>5, <2>1, <3>2, ClearedSlots DEF Disables, Toggles
  <2>3. CASE ~calls[f].here
    BY <1>5, <1>10, <2>1, <2>3 DEF SettingSaved, Step, Disables
  <2>4. QED BY <2>2, <2>3
<1>11. CASE FormSaved(f) /\ ui.page # "form"
  <2>1. UNCHANGED ui /\ ui.page \notin Toggles
    BY <1>11 DEF FormSaved, Table, Toggles
  <2>2. calls[f].kind \in {"set", "create"}
    BY <1>11 DEF FormSaved, Got
  <2>3. QED BY <1>5, <1>7, <1>11, <2>1, <2>2 DEF Disables
<1>12. CASE Failed(f)
  <2>1. ~FormSaved(f)
    BY <1>12 DEF Failed, FormSaved, Got
  <2>2. CASE calls[f].here
    <3>1. ui' = Cleared(ui, calls[f])
      BY <1>12, <2>2 DEF Failed, Step
    <3>2. ui'.page = ui.page
      BY <1>1, <1>2, <3>1, ClearedTable
    <3>3. QED BY <1>1, <1>2, <1>5, <1>7, <2>1, <3>1, <3>2, ClearedSlots DEF Disables
  <2>3. CASE ~calls[f].here
    BY <1>5, <1>12, <2>1, <2>3 DEF Failed, Step, Disables
  <2>4. QED BY <2>2, <2>3
<1>13. QED BY <1>3, <1>6, <1>8, <1>9, <1>10, <1>11, <1>12 DEF Deliver

LEMMA SlotsStep ==
  ASSUME TypeOK, PageInv, SlotsAreBacked, [Next]_vars
  PROVE  SlotsAreBacked'
<1>1. ui \in Ui
  BY DEF TypeOK
<1>2. \A f \in Fetches : \A c : Send(f, c) =>
        \A g \in Fetches : Disables(calls[g]) => calls'[g] = calls[g]
  BY DEF Send, TypeOK, NoCall, Disables
<1>3. ASSUME NEW f \in Fetches, NEW r \in Rows, Toggle(f, r) PROVE SlotsAreBacked'
  <2>1. /\ ui'.slot = r /\ ui'.page = ui.page /\ ui.page \in Toggles
        /\ ui'.premium = ui.premium
    BY <1>1, <1>3 DEF Toggle, MayToggle, Step, Ui
  <2>2. calls'[f].kind = "set" /\ calls'[f].row = r /\ calls'[f].here
    <3>1. 3 - ui.table[r] \in Values
      BY <1>3 DEF Toggle, MayToggle, InTable, Values
    <3>2. "set" \in Changes /\ r \in Optional /\ Nothing \in Optional
      BY DEF Optional, Changes
    <3>3. QED BY <1>3, <3>1, <3>2, RequestTyped, SendTyped DEF Toggle
  <2>3. UnderWay("set", ui.slot)'
    BY <2>1, <2>2 DEF UnderWay
  <2>4. ui.premium # Nothing => UnderWay("premium", ui.premium)'
    BY <1>2, <1>3, <2>1 DEF Toggle, SlotsAreBacked, UnderWay, Disables
  <2>5. QED BY <2>1, <2>3, <2>4 DEF SlotsAreBacked
<1>4. ASSUME NEW f \in Fetches, NEW r \in Rows, PremiumToggle(f, r) PROVE SlotsAreBacked'
  <2>1. ui'.premium = r /\ ui'.page = ui.page /\ ui'.slot = ui.slot
    BY <1>1, <1>4 DEF PremiumToggle, Step, Ui
  <2>2. calls'[f].kind = "premium" /\ calls'[f].row = r /\ calls'[f].here
    <3>1. "premium" \in Changes /\ r \in Optional /\ Nothing \in Optional
      BY DEF Optional, Changes
    <3>2. QED BY <1>4, <3>1, RequestTyped, SendTyped DEF PremiumToggle
  <2>3. UnderWay("premium", ui.premium)'
    BY <2>1, <2>2 DEF UnderWay
  <2>4. ui.slot # Nothing => ui.page \in Toggles /\ UnderWay("set", ui.slot)'
    BY <1>2, <1>4, <2>1 DEF PremiumToggle, SlotsAreBacked, UnderWay, Disables
  <2>5. QED BY <2>1, <2>3, <2>4 DEF SlotsAreBacked
<1>5. ASSUME ui'.page = ui.page, ui'.slot = ui.slot, ui'.premium = ui.premium,
             \A g \in Fetches : Disables(calls[g]) =>
               /\ Disables(calls'[g])
               /\ calls'[g].kind = calls[g].kind /\ calls'[g].row = calls[g].row
      PROVE  SlotsAreBacked'
  BY <1>5, SlotsKept
<1>6. ASSUME NEW f \in Fetches,
             Confirm(f) \/ Submit(f) \/ \E n \in 1 .. 2 : SetPage(f, n)
      PROVE  SlotsAreBacked'
  <2>1. ui'.page = ui.page /\ ui'.slot = ui.slot /\ ui'.premium = ui.premium
    BY <1>1, <1>6 DEF Confirm, Submit, SetPage, Step, Ui
  <2>2. \A g \in Fetches : Disables(calls[g]) => calls'[g] = calls[g]
    BY <1>2, <1>6 DEF Confirm, Submit, SetPage
  <2>3. QED BY <1>5, <2>1, <2>2
<1>7. ASSUME \/ TypePassword \/ CloseModal \/ UNCHANGED vars
             \/ \E r \in Rows : OpenModal(r) \/ Elsewhere(r)
             \/ \E r \in Optional : OpenForm(r)
      PROVE  SlotsAreBacked'
  <2>1. /\ UNCHANGED calls
        /\ ui'.page = ui.page /\ ui'.slot = ui.slot /\ ui'.premium = ui.premium
    BY <1>1, <1>7 DEF TypePassword, CloseModal, OpenModal, Opened, Elsewhere, OpenForm, Step,
                      Ui, vars
  <2>2. QED BY <1>5, <2>1
<1>8. ASSUME NEW f \in Fetches, NEW r \in Optional, Jump(f, r) PROVE SlotsAreBacked'
  <2>1. ui'.page = ui.page /\ ui'.slot = ui.slot /\ ui'.premium = ui.premium
    BY <1>1, <1>8 DEF Jump, Ui
  <2>2. \A g \in Fetches : Disables(calls[g]) => calls'[g] = calls[g]
    BY <1>8 DEF Jump, TypeOK, NoCall, Disables
  <2>3. QED BY <1>5, <2>1, <2>2
<1>9. ASSUME NEW f \in Fetches, Serve(f) PROVE SlotsAreBacked'
  <2>1. UNCHANGED ui
    BY <1>9 DEF Serve, Refuse, ServeRead, Find, Save, SaveEmpty, Create, Delete, Hidden, Make,
         MadeTo
  <2>2. QED BY <1>5, <1>9, <2>1, ServeKeeps
<1>10. QED
  BY <1>3, <1>4, <1>6, <1>7, <1>8, <1>9, SlotsMounted, SlotsDeliver DEF Next, Visit

\* A button stays disabled for no longer than a change of its own row is on
\* the way, whichever rows are toggled meanwhile and pages opened: with the
\* request's end in sight, the slot is free in the end (SlotIsFreed).
THEOREM SlotsBacked == Spec => []SlotsAreBacked
<1>1. Init => SlotsAreBacked
  BY DEF Init, Fresh, SlotsAreBacked
<1>2. TypeOK /\ PageInv /\ SlotsAreBacked /\ [Next]_vars => SlotsAreBacked'
  BY SlotsStep
<1>3. QED BY <1>1, <1>2, TypeInit, TypeStep, PageInit, PageStep, PTL DEF Spec
================================================================================
