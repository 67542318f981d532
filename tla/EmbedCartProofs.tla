--------------------------- MODULE EmbedCartProofs ---------------------------
(***************************************************************************)
(* Proofs about the embed cart, for any number of tabs, calls in flight,   *)
(* carts, products and orders.                                             *)
(*                                                                         *)
(* Every list of rows there is, in a cart, a drawer, a modal, a call, an   *)
(* answer or an order, belongs to Held(asked): its rows are rows, and none *)
(* has more than was asked for of its line.  Once that set is named, the   *)
(* bound is a matter of types: a step that asks for nothing new moves      *)
(* lists of rows about without leaving the set, and a step that asks for   *)
(* one more makes the set larger.                                          *)
(*                                                                         *)
(* The last part is about a shopper who does one thing at a time.  Steady  *)
(* says which lists of rows there can then be: the one an edit has sent,   *)
(* and those the shopper may expect, which are one list as soon as he      *)
(* knows whether his edits were made.                                      *)
(***************************************************************************)
EXTENDS EmbedCart, TLAPS, WellFoundedInduction, SequenceTheorems

(* Lists of rows: their numbers have a last one.                            *)
Numbers == {D \in SUBSET Nat : \E n \in Nat : \A i \in D : i <= n}
Items == UNION {[D -> Row] : D \in Numbers}

Within(items, a) ==
    \A i \in DOMAIN items : items[i].quantity <= a[items[i].line]

Held(a) == {items \in Items : Within(items, a)}

Wants == [Line -> SUBSET Nat]

(* The types of the state, with the lists of rows in H.                     *)
Copies(H) == [id : Nat, items : H]

Orders(H) == [items : H, popup : Tab \cup {NoTab}, shown : SUBSET H]

Drawers(H) == [cart : Copies(H), syncing : BOOLEAN]

Modals(H) ==
    [open : BOOLEAN, cart : Copies(H), tickets : BOOLEAN,
     status : {"idle", "submitting", "awaiting_payment", "completed"}]

Calls(H) ==
    [op : Op, stage : Stage, tab : Tab \cup {NoTab}, id : Nat, items : H,
     choice : SUBSET Choice, want : Wants \cup {<<>>}, reply : Copies(H)]

Typed(H) ==
    /\ carts \in Seq(H)
    /\ orders \in Seq(Orders(H))
    /\ storage \in Nat
    /\ pending \subseteq Tab
    /\ drawer \in [Tab -> Drawers(H)]
    /\ modal \in [Tab -> Modals(H)]
    /\ call \in [Slot -> Calls(H)]
    /\ wanted \in Wants
    /\ calm \in BOOLEAN

(* An id is that of a cart, and 0 stands for no cart.                       *)
Known(id) == id \in 0 .. Len(carts)
KnownCopy(c) == Known(c.id) /\ (c.id = 0 => c.items = Empty)

KnownCarts ==
    /\ Known(storage)
    /\ \A t \in Tab :
          /\ KnownCopy(drawer[t].cart)
          /\ KnownCopy(modal[t].cart)
          /\ modal[t].open => modal[t].cart.id # 0

KnownCall(c) ==
    /\ Known(c.id)
    /\ c.stage # "none" /\ c.op # "create" => c.id # 0
    /\ c.op # "start" => KnownCopy(c.reply)
    /\ c.stage = "served" /\ c.op = "start" => c.reply.id \in 1 .. Len(orders)
    /\ c.stage = "served" /\ c.op # "start" => c.reply.id # 0
    /\ c.op = "create" =>
          /\ c.reply.items = Empty
          /\ c.choice # {}
          /\ \A x \in c.choice : asked[x.line] >= 1
    /\ calm /\ c.stage # "none" /\ c.op \in {"create", "patch"} =>
          c.want \in Wants

KnownCalls == \A s \in Slot : KnownCall(call[s])

IInv ==
    /\ asked \in [Line -> Nat]
    /\ Typed(Held(asked))
    /\ KnownCarts
    /\ KnownCalls

-----------------------------------------------------------------------------
(* Lists of rows.                                                           *)

(* A list of rows is a function of row numbers to rows.                     *)
LEMMA ItemsAre ==
    \A x : x \in Items <=> /\ DOMAIN x \in Numbers
                           /\ x \in [DOMAIN x -> Row]
BY DEF Items

(* The cart that was just created is empty, and holds nothing too much.     *)
LEMMA EmptyIsHeld ==
    ASSUME NEW a
    PROVE  Empty \in Held(a)
<1>1. DOMAIN Empty = {} /\ Empty \in [{} -> Row]
  BY DEF Empty
<1>2. {} \in Numbers
  BY 0 \in Nat DEF Numbers
<1>3. Empty \in Items
  BY <1>1, <1>2, ItemsAre
<1> QED BY <1>1, <1>3 DEF Held, Within

(* Asking for more only makes the set larger.                               *)
LEMMA HeldGrows ==
    ASSUME NEW a \in [Line -> Nat], NEW b \in [Line -> Nat],
           \A l \in Line : a[l] <= b[l]
    PROVE  Held(a) \subseteq Held(b)
<1> SUFFICES ASSUME NEW x \in Held(a), NEW i \in DOMAIN x
             PROVE  x[i].quantity <= b[x[i].line]
  BY DEF Held, Within
<1>1. x[i] \in Row /\ x[i].quantity <= a[x[i].line]
  BY ItemsAre DEF Held, Within
<1> QED BY <1>1 DEF Row

(* A set of numbers that is not empty has a least one.                      *)
LEMMA LeastNumber ==
    ASSUME NEW S \in SUBSET Nat, S # {}
    PROVE  \E x \in S : \A y \in S : x <= y
<1>1. PICK x \in S : \A y \in S : ~ (<<y, x>> \in OpToRel(<, Nat))
  <2> DEFINE less == OpToRel(<, Nat)
  <2>1. IsWellFoundedOn(less, Nat)
    BY NatLessThanWellFounded
  <2> HIDE DEF less
  <2> QED BY <2>1, WFMin DEF less
<1>2. \A y \in S : ~ (y < x)
  BY <1>1 DEF OpToRel
<1> QED BY <1>2

(* addItem finds the first row of a signature if there is one.              *)
LEMMA FirstIsOne ==
    ASSUME NEW S \in SUBSET Nat, S # {}
    PROVE  First(S) \in S
BY LeastNumber DEF First

(* The number of the last row is a number, and none is above it.            *)
LEMMA LastIsLast ==
    ASSUME NEW x, DOMAIN x \in Numbers
    PROVE  Last(x) \in Nat /\ \A i \in DOMAIN x : i <= Last(x)
<1> DEFINE above == {n \in Nat : \A i \in DOMAIN x : i <= n}
<1>1. PICK n \in above : \A m \in above : n <= m
  BY LeastNumber DEF Numbers
<1>2. n \in DOMAIN x \cup {0}
  <2> SUFFICES ASSUME n \notin DOMAIN x, n # 0  PROVE FALSE
    OBVIOUS
  <2>1. n - 1 \in above
    BY <1>1 DEF Numbers
  <2> QED BY <1>1, <2>1
<1>3. Last(x) \in DOMAIN x \cup {0} /\ \A i \in DOMAIN x : i <= Last(x)
  BY <1>1, <1>2 DEF Last
<1> QED BY <1>3 DEF Numbers

(* addItem: one more of the line in a row, or a row of one.                 *)
LEMMA WithItemHeld ==
    ASSUME NEW a \in [Line -> Nat], NEW b \in [Line -> Nat],
           NEW choice \in Choice, NEW x \in Held(a),
           \A l \in Line : a[l] <= b[l],
           \A i \in DOMAIN x : x[i].line = choice.line =>
               x[i].quantity + 1 <= b[choice.line],
           b[choice.line] >= 1
    PROVE  WithItem(x, choice) \in Held(b)
<1> DEFINE row == [line |-> choice.line, request |-> choice.request,
                   extras |-> choice.extras, quantity |-> 1]
           n == Last(x) + 1
<1>1. row \in Row
  BY ChoiceAssumption DEF Row, Line
<1>2. x \in Items /\ x \in [DOMAIN x -> Row] /\ DOMAIN x \in Numbers
  BY ItemsAre DEF Held
<1>3. x \in Held(b) /\ Within(x, b)
  BY HeldGrows DEF Held
<1> HIDE DEF row
<1>4. CASE Same(x, row) # {}
  <2> DEFINE f == First(Same(x, row))
  <2>1. f \in Same(x, row)
    BY <1>2, <1>4, FirstIsOne DEF Same, Numbers
  <2>2. f \in DOMAIN x /\ x[f].line = choice.line
    BY <2>1 DEF Same, Signature, row
  <2> HIDE DEF f
  <2>3. [x EXCEPT ![f].quantity = @ + 1] \in [DOMAIN x -> Row]
    BY <1>2, <2>2 DEF Row
  <2>4. Within([x EXCEPT ![f].quantity = @ + 1], b)
    BY <1>2, <1>3, <2>2 DEF Within, Row
  <2>5. [x EXCEPT ![f].quantity = @ + 1] \in Held(b)
    BY <1>2, <2>3, <2>4, ItemsAre DEF Held
  <2> QED BY <1>4, <2>5 DEF WithItem, row, f
<1>5. CASE Same(x, row) = {}
  <2> DEFINE D == DOMAIN x \cup {n}
             y == [i \in D |-> IF i \in DOMAIN x THEN x[i] ELSE row]
  <2>1. n \in Nat /\ \A i \in DOMAIN x : i <= n
    BY <1>2, LastIsLast DEF Numbers
  <2> HIDE DEF n
  <2>2. D \in Numbers
    BY <1>2, <2>1 DEF Numbers
  <2>3. y \in [D -> Row]
    BY <1>1, <1>2
  <2>4. y \in Items
    BY <2>2, <2>3, ItemsAre
  <2>5. Within(y, b)
    BY <1>3 DEF Within, row
  <2>6. WithItem(x, choice) = y
    BY <1>5 DEF WithItem, row, n
  <2> HIDE DEF y
  <2> QED BY <2>4, <2>5, <2>6 DEF Held
<1> QED BY <1>4, <1>5

(* updateItemQuantity: the quantity asked for, in rows of the same line.    *)
LEMMA WithQuantityHeld ==
    ASSUME NEW b \in [Line -> Nat], NEW x \in Held(b), NEW row \in Row,
           NEW n \in Nat, n <= b[row.line]
    PROVE  WithQuantity(x, row, n) \in Held(b)
<1> DEFINE after(i) == IF i \in Same(x, row) THEN n ELSE x[i].quantity
           D == {i \in DOMAIN x : after(i) > 0}
           y == [i \in D |->
                    [x[i] EXCEPT !.quantity = after(i), !.request = FALSE]]
<1>1. x \in [DOMAIN x -> Row] /\ DOMAIN x \in Numbers /\ Within(x, b)
  BY ItemsAre DEF Held
<1>2. \A i \in DOMAIN x : i \in Same(x, row) => x[i].line = row.line
  BY DEF Same, Signature
<1>3. \A i \in DOMAIN x : after(i) \in Nat /\ after(i) <= b[x[i].line]
  BY <1>1, <1>2 DEF Within, Row
<1>4. D \in Numbers
  BY <1>1 DEF Numbers
<1>5. y = WithQuantity(x, row, n)
  BY DEF WithQuantity
<1> HIDE DEF after
<1>6. ASSUME NEW i \in D
      PROVE  y[i] \in Row /\ y[i].quantity <= b[y[i].line]
  <2>1. x[i] \in Row /\ after(i) \in Nat \ {0} /\ after(i) <= b[x[i].line]
    BY <1>1, <1>3
  <2>2. y[i] = [x[i] EXCEPT !.quantity = after(i), !.request = FALSE]
    OBVIOUS
  <2>3. y[i] = [line |-> x[i].line, request |-> FALSE, extras |-> x[i].extras,
                quantity |-> after(i)]
    BY <2>1, <2>2 DEF Row
  <2> QED BY <2>1, <2>3 DEF Row
<1>7. y \in [D -> Row]
  BY <1>6
<1>8. y \in Items
  BY <1>4, <1>7, ItemsAre
<1>9. Within(y, b)
  BY <1>6 DEF Within
<1> QED BY <1>5, <1>8, <1>9 DEF Held

(* persistAttendeesInCart: the same rows, without their requests.           *)
LEMMA WithAttendeesHeld ==
    ASSUME NEW b, NEW x \in Held(b)
    PROVE  WithAttendees(x) \in Held(b)
<1>1. x \in [DOMAIN x -> Row] /\ DOMAIN x \in Numbers /\ Within(x, b)
  BY ItemsAre DEF Held
<1>2. \A i \in DOMAIN x : /\ WithAttendees(x)[i] \in Row
                         /\ WithAttendees(x)[i].line = x[i].line
                         /\ WithAttendees(x)[i].quantity = x[i].quantity
  BY <1>1 DEF WithAttendees, Row
<1>3. DOMAIN WithAttendees(x) = DOMAIN x
  BY DEF WithAttendees
<1>4. WithAttendees(x) \in [DOMAIN x -> Row]
  BY <1>2 DEF WithAttendees
<1>5. WithAttendees(x) \in Items
  BY <1>1, <1>3, <1>4, ItemsAre
<1> QED BY <1>1, <1>2, <1>3, <1>5 DEF Held, Within

-----------------------------------------------------------------------------
(* Steps that ask for nothing: the set H stays, and so do the types.        *)

(* What is expected stays what can be expected.                             *)
LEMMA ExpectTyped ==
    ASSUME wanted \in Wants, calm \in BOOLEAN, NEW calmly \in BOOLEAN,
           Expect(calmly, wanted)
    PROVE  wanted' \in Wants /\ calm' \in BOOLEAN
<1>1. [l \in Line |-> {0}] \in Wants
  BY DEF Wants
<1> QED BY <1>1 DEF Expect

LEMMA DoesTyped ==
    ASSUME wanted \in Wants, calm \in BOOLEAN, NEW what, NEW open,
           Does(what, open)
    PROVE  wanted' \in Wants /\ calm' \in BOOLEAN
<1>1. Settled(open) \in BOOLEAN
  BY DEF Settled
<1> QED BY <1>1, ExpectTyped DEF Does

(* The calls that are made and the answers they get.                        *)
LEMMA CallsKept ==
    ASSUME NEW H, NEW s \in Slot, Empty \in H, call \in [Slot -> Calls(H)]
    PROVE  /\ \A op \in Op, t \in Tab, id \in Nat, items \in H :
                 Send(s, op, t, id, items) => call' \in [Slot -> Calls(H)]
           /\ Finish(s) => call' \in [Slot -> Calls(H)]
           /\ \A id \in Nat, items \in H :
                 Answered(s, id, items) => call' \in [Slot -> Calls(H)]
<1>1. Idle \in Calls(H)
  BY DEF Idle, Calls, Op, Stage, NoCart, Copies
<1>2. ASSUME NEW op \in Op, NEW t \in Tab, NEW id \in Nat, NEW items \in H
      PROVE  [Idle EXCEPT !.op = op, !.stage = "sent", !.tab = t, !.id = id,
                          !.items = items] \in Calls(H)
  BY <1>1 DEF Calls, Stage
<1>3. ASSUME NEW id \in Nat, NEW items \in H
      PROVE  [call[s] EXCEPT !.stage = "served",
                 !.reply = [id |-> id, items |-> items]] \in Calls(H)
  BY DEF Calls, Stage, Copies
<1>4. ASSUME NEW op \in Op, NEW t \in Tab, NEW id \in Nat, NEW items \in H,
             Send(s, op, t, id, items)
      PROVE  call' \in [Slot -> Calls(H)]
  <2> DEFINE c == [Idle EXCEPT !.op = op, !.stage = "sent", !.tab = t,
                               !.id = id, !.items = items]
  <2>1. c \in Calls(H)
    BY <1>2
  <2>2. call' = [call EXCEPT ![s] = c]
    BY <1>4 DEF Send
  <2> HIDE DEF c
  <2> QED BY <2>1, <2>2
<1>5. Finish(s) => call' \in [Slot -> Calls(H)]
  BY <1>1 DEF Finish
<1>6. \A id \in Nat, items \in H :
         Answered(s, id, items) => call' \in [Slot -> Calls(H)]
  BY <1>3 DEF Answered
<1> QED BY <1>4, <1>5, <1>6

(* What the server does.                                                    *)
LEMMA ServerTyped ==
    ASSUME NEW H, Typed(H), KnownCarts, KnownCalls, Empty \in H,
           \A x \in H : WithAttendees(x) \in H,
           NEW s \in Slot, Server(s)
    PROVE  Typed(H)'
<1>1. call[s] \in Calls(H) /\ KnownCall(call[s]) /\ carts \in Seq(H)
  BY DEF Typed, KnownCalls
<1>2. CASE ServeCreate(s)
  <2>1. carts' \in Seq(H) /\ Len(carts) + 1 \in Nat
    BY <1>1, <1>2 DEF ServeCreate
  <2>2. call' \in [Slot -> Calls(H)]
    BY <1>2, <2>1, CallsKept DEF ServeCreate, Typed
  <2> QED BY <1>2, <2>1, <2>2 DEF ServeCreate, Typed, ghosts
<1>3. CASE ServeUpdate(s)
  <2> DEFINE rows == IF call[s].op = "persist"
                     THEN WithAttendees(call[s].items) ELSE call[s].items
  <2>1. rows \in H /\ call[s].id \in Nat
    BY <1>1 DEF Calls
  <2>2. /\ carts' = [carts EXCEPT ![call[s].id] = rows]
        /\ Answered(s, call[s].id, rows)
        /\ UNCHANGED <<orders, storage, pending, drawer, modal, ghosts>>
    BY <1>3 DEF ServeUpdate
  <2> HIDE DEF rows
  <2>3. call[s].id \in 1 .. Len(carts)
    BY <1>1, <1>3 DEF ServeUpdate, Sent, KnownCall, Known, Calls
  <2>5. carts' \in Seq(H)
    BY <1>1, <2>1, <2>2, <2>3, ExceptSeq
  <2>4. call' \in [Slot -> Calls(H)]
    BY <2>1, <2>2, CallsKept DEF Typed
  <2> QED BY <2>2, <2>4, <2>5 DEF Typed, ghosts
<1>4. CASE ServeRead(s)
  <2>1. call[s].id \in 1 .. Len(carts)
    BY <1>1, <1>4 DEF ServeRead, Sent, KnownCall, Known, Calls
  <2>2. carts[call[s].id] \in H
    BY <1>1, <2>1
  <2>3. Answered(s, call[s].id, carts[call[s].id])
    BY <1>4 DEF ServeRead
  <2>4. PICK id \in Nat, rows \in H : id = call[s].id /\ rows = carts[call[s].id]
    BY <1>1, <2>2 DEF Calls
  <2>5. Answered(s, id, rows)
    BY <2>3, <2>4
  <2>6. call' \in [Slot -> Calls(H)]
    BY <2>5, CallsKept DEF Typed
  <2> QED BY <1>4, <2>6 DEF ServeRead, Typed, ghosts
<1>5. CASE ServeCheckout(s)
  <2>1. call[s].id \in 1 .. Len(carts)
    BY <1>1, <1>5 DEF ServeCheckout, Sent, KnownCall, Known, Calls
  <2>2. carts[call[s].id] \in H /\ call[s].items \in H
    BY <1>1, <2>1 DEF Calls
  <2>3. CASE carts[call[s].id] = Empty
    <3>1. call' = [call EXCEPT ![s].stage = "failed"] /\ UNCHANGED orders
      BY <1>5, <2>3 DEF ServeCheckout
    <3>2. call' \in [Slot -> Calls(H)]
      BY <1>1, <3>1 DEF Typed, Calls, Stage
    <3> QED BY <1>5, <3>1, <3>2 DEF ServeCheckout, Typed, ghosts
  <2>4. CASE carts[call[s].id] # Empty
    <3> DEFINE order == [items |-> carts[call[s].id], popup |-> NoTab,
                  shown |-> IF calm /\ Sure THEN {call[s].items} ELSE {}]
    <3>1. /\ orders' = Append(orders, order)
          /\ Answered(s, Len(orders) + 1, Empty)
      BY <1>5, <2>4 DEF ServeCheckout
    <3>2. order \in Orders(H)
      BY <2>2 DEF Orders
    <3> HIDE DEF order
    <3>3. orders' \in Seq(Orders(H)) /\ Len(orders) + 1 \in Nat
      BY <3>1, <3>2 DEF Typed
    <3>4. call' \in [Slot -> Calls(H)]
      BY <3>1, <3>3, CallsKept DEF Typed
    <3> QED BY <1>5, <3>3, <3>4 DEF ServeCheckout, Typed, ghosts
  <2> QED BY <2>3, <2>4
<1>6. CASE Fail(s)
  <2>1. call' = [call EXCEPT ![s].stage = "failed", ![s].reply = NoCart]
    BY <1>6 DEF Fail
  <2>2. NoCart \in Copies(H)
    BY DEF NoCart, Copies
  <2>3. call' \in [Slot -> Calls(H)]
    BY <1>1, <2>1, <2>2 DEF Typed, Calls, Stage
  <2>4. wanted' \in Wants /\ calm' \in BOOLEAN
    <3>1. PICK calmly \in BOOLEAN : Expect(calmly, wanted)
      BY <1>6 DEF Fail
    <3> QED BY <3>1, ExpectTyped DEF Typed
  <2> QED BY <1>6, <2>3, <2>4 DEF Fail, Typed
<1> QED BY <1>2, <1>3, <1>4, <1>5, <1>6 DEF Server

(* What the answers do.                                                     *)
LEMMA AnswerTyped ==
    ASSUME NEW H, Typed(H), KnownCarts, KnownCalls, Empty \in H,
           NEW s \in Slot, Answer(s),
           \A x \in call[s].choice :
              asked[x.line] >= 1 => WithItem(Empty, x) \in H
    PROVE  Typed(H)'
<1>1. call[s] \in Calls(H) /\ KnownCall(call[s])
  BY DEF Typed, KnownCalls
<1>2. NoCart \in Copies(H)
  BY DEF NoCart, Copies
<1>3. call[s].reply \in Copies(H) /\ call[s].reply.id \in Nat
  BY <1>1 DEF Calls, Copies
<1>4. ASSUME NEW t \in Tab, NEW cart \in Copies(H), NEW b \in BOOLEAN
      PROVE  /\ [drawer EXCEPT ![t].cart = cart] \in [Tab -> Drawers(H)]
             /\ [drawer EXCEPT ![t].syncing = b] \in [Tab -> Drawers(H)]
             /\ [drawer EXCEPT ![t] = [cart |-> cart, syncing |-> b]]
                   \in [Tab -> Drawers(H)]
  BY DEF Typed, Drawers
<1>5. Finish(s) => call' \in [Slot -> Calls(H)]
  BY CallsKept DEF Typed
<1>16. drawer \in [Tab -> Drawers(H)] /\ modal \in [Tab -> Modals(H)]
  BY DEF Typed
<1>15. ASSUME NEW t \in Tab, NEW cart \in Copies(H),
              NEW status \in {"idle", "submitting", "awaiting_payment",
                              "completed"}
       PROVE  /\ [modal EXCEPT ![t].cart = cart] \in [Tab -> Modals(H)]
              /\ [modal EXCEPT ![t].status = status] \in [Tab -> Modals(H)]
  BY SMTT(30) DEF Typed, Modals
<1>6. ASSUME NEW t \in Tab, NEW id \in Nat, Store(t, id)
      PROVE  storage' \in Nat /\ pending' \subseteq Tab
  BY <1>6 DEF Store, Typed
<1>7. CASE Created(s)
  <2>1. PICK choice \in call[s].choice :
              call' = [call EXCEPT ![s] = [@ EXCEPT !.op = "patch",
                       !.stage = "sent", !.id = call[s].reply.id,
                       !.items = WithItem(call[s].reply.items, choice),
                       !.reply = NoCart]]
    BY <1>1, <1>7 DEF Created, Got, KnownCall
  <2>2. call[s].reply.items = Empty /\ asked[choice.line] >= 1
    BY <1>1, <1>7 DEF Created, Got, KnownCall
  <2>3. WithItem(call[s].reply.items, choice) \in H
    BY <1>1, <2>1, <2>2 DEF Calls
  <2>4. call' \in [Slot -> Calls(H)]
    BY <1>1, <1>2, <1>3, <2>1, <2>3 DEF Typed, Calls, Op, Stage
  <2>5. storage' \in Nat /\ pending' \subseteq Tab
    BY <1>3, <1>6, <1>7 DEF Created, Got
  <2> QED BY <1>7, <2>4, <2>5 DEF Created, Typed, ghosts
<1>8. CASE Updated(s)
  <2>1. drawer' \in [Tab -> Drawers(H)]
    BY <1>3, <1>4, <1>8 DEF Updated, Got
  <2>2. calm' = calm /\ (calm => wanted' = call[s].want)
        /\ (~calm => wanted' = [l \in Line |-> {0}])
    BY <1>8 DEF Updated, Expect, Typed
  <2>3. wanted' \in Wants /\ calm' \in BOOLEAN
    BY <1>1, <1>8, <2>2 DEF Updated, Got, KnownCall, Wants, Typed
  <2>4. pending' \subseteq Tab
    BY <1>8 DEF Updated, Touch, Typed
  <2> QED BY <1>5, <1>8, <2>1, <2>3, <2>4 DEF Updated, Typed
<1>9. CASE EditFailed(s)
  <2>1. drawer' \in [Tab -> Drawers(H)]
    BY <1>2, <1>4, <1>9 DEF EditFailed, Lost
  <2>2. calm' = calm
        /\ (calm => wanted' = [l \in Line |-> wanted[l] \cup call[s].want[l]])
        /\ (~calm => wanted' = [l \in Line |-> {0}])
    BY <1>9 DEF EditFailed, Expect, Typed
  <2>3. calm => call[s].want \in Wants
    BY <1>1, <1>9 DEF EditFailed, Lost, KnownCall
  <2>4. wanted' \in Wants
    BY <2>2, <2>3 DEF Wants, Typed
  <2> QED BY <1>5, <1>9, <2>1, <2>2, <2>4 DEF EditFailed, Typed
<1>10. CASE Loaded(s)
  <2>1. drawer' \in [Tab -> Drawers(H)]
    <3>1. PICK t \in Tab, cart \in Copies(H) :
                  drawer' = [drawer EXCEPT ![t].cart = cart]
      BY <1>2, <1>3, <1>10 DEF Loaded, Got, Lost
    <3> QED BY <1>4, <3>1
  <2>2. storage' \in Nat /\ pending' \subseteq Tab
    BY <1>6, <1>10 DEF Loaded, Lost, Typed
  <2> QED BY <1>5, <1>10, <2>1, <2>2 DEF Loaded, Typed, ghosts
<1>11. CASE Merged(s)
  <2>1. drawer' \in [Tab -> Drawers(H)]
    <3>1. CASE Got(s, "merge")
      <4>1. PICK t \in Tab, cart \in Copies(H) :
                    drawer' = [drawer EXCEPT ![t].cart = cart]
        BY <1>3, <1>11, <3>1 DEF Merged, Got, Lost
      <4> QED BY <1>4, <4>1
    <3>2. CASE Lost(s, "merge")
      BY <1>11, <3>2 DEF Merged, Got, Lost, Typed
    <3> QED BY <1>11, <3>1, <3>2 DEF Merged
  <2>2. storage' \in Nat /\ pending' \subseteq Tab
    BY <1>3, <1>6, <1>11 DEF Merged, Got, Typed
  <2> QED BY <1>5, <1>11, <2>1, <2>2 DEF Merged, Typed, ghosts
<1>12. CASE Persisted(s)
  <2>1. modal' \in [Tab -> Modals(H)]
    <3>1. CASE Got(s, "persist")
      <4>1. \A t \in Tab : modal[t].cart \in Copies(H)
        BY DEF Typed, Modals
      <4>2. modal' = [modal EXCEPT ![call[s].tab].cart =
                         IF modal[call[s].tab].open THEN call[s].reply ELSE @]
        BY <1>12, <3>1 DEF Persisted, Got, Lost
      <4>3. PICK t \in Tab, cart \in Copies(H) :
                    modal' = [modal EXCEPT ![t].cart = cart]
        BY <1>3, <3>1, <4>1, <4>2 DEF Got
      <4> QED BY <1>15, <4>3
    <3>2. CASE Lost(s, "persist")
      BY <1>12, <3>2 DEF Persisted, Got, Lost, Typed
    <3> QED BY <1>12, <3>1, <3>2 DEF Persisted
  <2>2. call' = [call EXCEPT ![s].op = "start", ![s].stage = "sent",
                             ![s].reply = NoCart]
    BY <1>12 DEF Persisted
  <2>3. call' \in [Slot -> Calls(H)]
    BY <1>1, <1>2, <2>2 DEF Calls, Op, Stage, Typed
  <2> QED BY <1>12, <2>1, <2>3 DEF Persisted, Typed, ghosts
<1>13. CASE Submitted(s)
  <2> DEFINE t == call[s].tab
             o == call[s].reply.id
  <2>1. \E status \in {"awaiting_payment", "completed", "idle"} :
           Becomes(t, status)
    BY <1>13 DEF Submitted
  <2>5. t \in Tab
    BY <1>13 DEF Submitted, Got, Lost
  <2>2. modal' \in [Tab -> Modals(H)]
    <3>1. PICK status \in {"awaiting_payment", "completed", "idle"} :
                  Becomes(t, status)
      BY <2>1
    <3>2. PICK u \in Tab : u = t
      BY <2>5
    <3>3. modal[u].status \in {"idle", "submitting", "awaiting_payment",
                               "completed"}
      BY DEF Typed, Modals
    <3>4. NoCart \in Copies(H)
      BY <1>2
    <3>5. \/ modal' = [modal EXCEPT ![u].status = status]
          \/ modal' = [modal EXCEPT ![u].status = modal[u].status]
      BY <3>1, <3>2 DEF Becomes
    <3>6. CASE modal' = [modal EXCEPT ![u].status = status]
      BY <1>15, <3>4, <3>6
    <3>7. CASE modal' = [modal EXCEPT ![u].status = modal[u].status]
      BY <1>15, <3>3, <3>4, <3>7
    <3> QED BY <3>5, <3>6, <3>7
  <2>3. \/ UNCHANGED orders
        \/ /\ o \in 1 .. Len(orders)
           /\ t \in Tab
           /\ orders' = [orders EXCEPT ![o].popup = t]
    BY <1>1, <1>13 DEF Submitted, Got, KnownCall
  <2>4. orders' \in Seq(Orders(H))
    <3>1. CASE UNCHANGED orders
      BY <3>1 DEF Typed
    <3>2. CASE /\ o \in 1 .. Len(orders)
               /\ t \in Tab
               /\ orders' = [orders EXCEPT ![o].popup = t]
      <4>1. orders \in Seq(Orders(H)) /\ orders[o] \in Orders(H)
        BY <3>2 DEF Typed
      <4>2. [orders[o] EXCEPT !.popup = t] \in Orders(H)
        BY <3>2, <4>1 DEF Orders
      <4> QED BY <3>2, <4>1, <4>2, ExceptSeq
    <3> QED BY <2>3, <3>1, <3>2
  <2> QED BY <1>5, <1>13, <2>2, <2>4 DEF Submitted, Typed, ghosts
<1>14. CASE Ignored(s)
  BY <1>5, <1>14 DEF Ignored, Typed, ghosts
<1> QED BY <1>7, <1>8, <1>9, <1>10, <1>11, <1>12, <1>13, <1>14 DEF Answer

-----------------------------------------------------------------------------
(* Steps of the shopper: the set of lists may grow first.                   *)

(* What was in a set of lists is in a larger one.                           *)
LEMMA TypedGrows ==
    ASSUME NEW H, NEW H2, H \subseteq H2, Typed(H)
    PROVE  Typed(H2)
<1>1. Copies(H) \subseteq Copies(H2)
  BY DEF Copies
<1>2. Orders(H) \subseteq Orders(H2)
  BY DEF Orders
<1>3. Drawers(H) \subseteq Drawers(H2)
  BY <1>1 DEF Drawers
<1>4. Modals(H) \subseteq Modals(H2)
  BY <1>1 DEF Modals
<1>5. Calls(H) \subseteq Calls(H2)
  BY <1>1 DEF Calls
<1>6. carts \in Seq(H2) /\ orders \in Seq(Orders(H2))
  BY <1>2 DEF Typed
<1>7. /\ drawer \in [Tab -> Drawers(H2)]
      /\ modal \in [Tab -> Modals(H2)]
      /\ call \in [Slot -> Calls(H2)]
  BY <1>3, <1>4, <1>5 DEF Typed
<1> QED BY <1>6, <1>7 DEF Typed

(* The call an edit sends.                                                  *)
LEMMA EditSent ==
    ASSUME NEW H, call \in [Slot -> Calls(H)], Empty \in H,
           NEW s \in Slot, NEW op \in Op, NEW t \in Tab, NEW id \in Nat,
           NEW items \in H, NEW choice \in SUBSET Choice, NEW want \in Wants,
           SendEdit(s, op, t, id, items, choice, want)
    PROVE  call' \in [Slot -> Calls(H)]
<1>1. Idle \in Calls(H)
  BY DEF Idle, Calls, Op, Stage, NoCart, Copies
<1>2. PICK w \in Wants \cup {<<>>} : w = IF calm' THEN want ELSE <<>>
  OBVIOUS
<1> DEFINE c == [Idle EXCEPT !.op = op, !.stage = "sent", !.tab = t,
                     !.id = id, !.items = items, !.choice = choice, !.want = w]
<1>3. c \in Calls(H)
  BY <1>1 DEF Calls, Stage
<1>4. call' = [call EXCEPT ![s] = c]
  BY <1>2 DEF SendEdit
<1> HIDE DEF c
<1> QED BY <1>3, <1>4

(* addItem.                                                                 *)
LEMMA AddTyped ==
    ASSUME IInv, NEW t \in Tab, NEW choice \in Choice, NEW s \in Slot,
           Add(t, choice, s)
    PROVE  /\ asked' \in [Line -> Nat]
           /\ \A l \in Line : asked[l] <= asked'[l]
           /\ Typed(Held(asked))'
<1>1. choice.line \in Line
  BY DEF Line
<1>2. asked \in [Line -> Nat] /\ Typed(Held(asked))
  BY DEF IInv
<1>3. PICK a, b : a = asked /\ b = asked'
  OBVIOUS
<1>4. b = [a EXCEPT ![choice.line] = @ + 1]
  BY <1>3 DEF Add
<1>5. /\ a \in [Line -> Nat] /\ b \in [Line -> Nat]
      /\ \A l \in Line : a[l] <= b[l]
      /\ b[choice.line] = a[choice.line] + 1
  BY <1>1, <1>2, <1>3, <1>4
<1>6. PICK H : H = Held(b)
  OBVIOUS
<1>7. Typed(H)
  BY <1>2, <1>3, <1>5, <1>6, HeldGrows, TypedGrows
<1>8. Empty \in H
  BY <1>6, EmptyIsHeld
<1>9. drawer[t].cart.items \in Held(a) /\ drawer[t].cart.id \in Nat
  BY <1>2, <1>3 DEF Typed, Drawers, Copies
<1>10. PICK x \in Held(a) : x = drawer[t].cart.items
  BY <1>9
<1>11. WithItem(x, choice) \in H
  <2>1. ASSUME NEW i \in DOMAIN x, x[i].line = choice.line
        PROVE  x[i].quantity + 1 <= b[choice.line]
    BY <1>1, <1>5, <2>1, ItemsAre DEF Held, Within, Row
  <2>2. b[choice.line] >= 1
    BY <1>1, <1>5
  <2> QED BY <1>5, <1>6, <2>1, <2>2, WithItemHeld
<1>12. PICK want \in Wants :
              want = [wanted EXCEPT ![choice.line] = {w + 1 : w \in @}]
  <2>1. wanted \in Wants
    BY <1>2 DEF Typed
  <2>2. {w + 1 : w \in wanted[choice.line]} \in SUBSET Nat
    BY <1>1, <2>1 DEF Wants
  <2>3. [wanted EXCEPT ![choice.line] = {w + 1 : w \in @}] \in Wants
    BY <1>1, <2>1, <2>2 DEF Wants
  <2> QED BY <2>3
<1>13. call' \in [Slot -> Calls(H)]
  <2>1. PICK op \in Op, id \in Nat, items \in H :
              SendEdit(s, op, t, id, items, {choice}, want)
    <3>1. CASE drawer[t].cart.id = 0
      <4>1. SendEdit(s, "create", t, 0, Empty, {choice}, want)
        BY <1>12, <3>1 DEF Add
      <4> QED BY <1>8, <4>1 DEF Op
    <3>2. CASE drawer[t].cart.id # 0
      <4>1. SendEdit(s, "patch", t, drawer[t].cart.id, WithItem(x, choice),
                     {choice}, want)
        BY <1>10, <1>12, <3>2 DEF Add
      <4> QED BY <1>9, <1>11, <4>1 DEF Op
    <3> QED BY <3>1, <3>2
  <2>2. call \in [Slot -> Calls(H)]
    BY <1>7 DEF Typed
  <2> QED BY <1>8, <2>1, <2>2, EditSent
<1>14. wanted' \in Wants /\ calm' \in BOOLEAN
  <2>1. PICK calmly \in BOOLEAN : Expect(calmly, wanted)
    BY DEF Add, Settled
  <2> QED BY <1>7, <2>1, ExpectTyped DEF Typed
<1>15. drawer' \in [Tab -> Drawers(H)]
  BY <1>7 DEF Add, Typed, Drawers
<1>16. Typed(H)'
  BY <1>7, <1>13, <1>14, <1>15 DEF Add, Typed
<1>17. H = Held(asked')
  BY <1>3, <1>6
<1>18. Typed(Held(asked))'
  BY <1>16, <1>17 DEF Typed
<1> QED BY <1>3, <1>5, <1>18

(* updateItemQuantity.                                                      *)
LEMMA SetQuantityTyped ==
    ASSUME IInv, NEW t \in Tab, NEW s \in Slot,
           NEW i \in DOMAIN drawer[t].cart.items, SetQuantity(t, i, s)
    PROVE  /\ asked' \in [Line -> Nat]
           /\ \A l \in Line : asked[l] <= asked'[l]
           /\ Typed(Held(asked))'
<1>1. asked \in [Line -> Nat] /\ Typed(Held(asked))
  BY DEF IInv
<1>2. PICK a, b : a = asked /\ b = asked'
  OBVIOUS
<1>3. drawer[t].cart.items \in Held(a) /\ drawer[t].cart.id \in Nat
  BY <1>1, <1>2 DEF Typed, Drawers, Copies
<1>4. PICK x \in Held(a) : x = drawer[t].cart.items
  BY <1>3
<1>5. PICK row \in Row : row = x[i]
  BY <1>4, ItemsAre DEF Held
<1>6. row.line \in Line /\ row.quantity \in Nat /\ row.quantity > 0
      /\ row.quantity <= a[row.line]
  BY <1>4, <1>5, SMTT(30) DEF Held, Within, Row
<1>7. PICK n \in {0, row.quantity - 1, row.quantity + 1} :
              /\ asked' = [asked EXCEPT ![row.line] =
                          IF n > row.quantity THEN @ + 1 ELSE @]
              /\ Does("edit", {})
              /\ SendEdit(s, "patch", t, drawer[t].cart.id,
                          WithQuantity(x, row, n),
                          {}, [wanted EXCEPT ![row.line] = {n}])
  BY <1>4, <1>5 DEF SetQuantity
<1>8. /\ a \in [Line -> Nat] /\ b \in [Line -> Nat]
      /\ \A l \in Line : a[l] <= b[l]
      /\ n \in Nat /\ n <= b[row.line]
  BY <1>1, <1>2, <1>6, <1>7
<1>9. PICK H : H = Held(b)
  OBVIOUS
<1>10. Typed(H)
  BY <1>1, <1>2, <1>8, <1>9, HeldGrows, TypedGrows
<1>11. WithQuantity(x, row, n) \in H
  <2>1. x \in Held(b)
    BY <1>8, HeldGrows
  <2> QED BY <1>8, <1>9, <2>1, WithQuantityHeld
<1>12. PICK want \in Wants : want = [wanted EXCEPT ![row.line] = {n}]
  BY <1>6, <1>8, <1>10 DEF Typed, Wants
<1>13. call' \in [Slot -> Calls(H)]
  <2>1. PICK id \in Nat, items \in H :
              SendEdit(s, "patch", t, id, items, {}, want)
    BY <1>3, <1>7, <1>11, <1>12
  <2>2. call \in [Slot -> Calls(H)] /\ Empty \in H /\ "patch" \in Op
    BY <1>9, <1>10, EmptyIsHeld DEF Typed, Op
  <2> QED BY <2>1, <2>2, EditSent
<1>14. wanted' \in Wants /\ calm' \in BOOLEAN
  BY <1>7, <1>10, DoesTyped DEF Typed
<1>15. drawer' \in [Tab -> Drawers(H)]
  BY <1>10 DEF SetQuantity, Typed, Drawers
<1>16. Typed(H)'
  BY <1>10, <1>13, <1>14, <1>15 DEF SetQuantity, Typed
<1>17. H = Held(asked')
  BY <1>2, <1>9
<1>18. Typed(Held(asked))'
  BY <1>16, <1>17 DEF Typed
<1> QED BY <1>2, <1>8, <1>18

(* What the shopper does without asking for more.                           *)
LEMMA OthersTyped ==
    ASSUME NEW H, Typed(H), KnownCarts, Empty \in H, NEW t \in Tab,
           \/ \E s \in Slot : \/ LogIn(t, s) \/ OnCartStorage(t, s)
                              \/ Reopen(t, s) \/ Submit(t, s)
           \/ CheckoutClick(t) \/ CloseModal(t)
           \/ \E o \in DOMAIN orders : PaymentDone(t, o)
    PROVE  Typed(H)'
<1>1. NoCart \in Copies(H) /\ storage \in Nat
  BY DEF NoCart, Copies, Typed
<1>2. drawer[t] \in Drawers(H) /\ modal[t] \in Modals(H)
  BY DEF Typed
<1>3. \A u \in SUBSET Tab : \A what :
         Does(what, u) => wanted' \in Wants /\ calm' \in BOOLEAN
  BY DoesTyped DEF Typed
<1>4. ASSUME NEW s \in Slot, LogIn(t, s)
      PROVE  Typed(H)'
  <2>1. PICK id \in Nat : Send(s, "merge", t, id, Empty)
    BY <1>1, <1>4 DEF LogIn
  <2>2. call' \in [Slot -> Calls(H)]
    BY <2>1, CallsKept DEF Typed, Op
  <2> QED BY <1>3, <1>4, <2>2 DEF LogIn, Typed
<1>5. ASSUME NEW s \in Slot, OnCartStorage(t, s)
      PROVE  Typed(H)'
  <2>1. call' \in [Slot -> Calls(H)]
    <3>1. CASE storage = 0
      BY <1>5, <3>1 DEF OnCartStorage, Load, Typed
    <3>2. CASE storage # 0
      <4>1. PICK id \in Nat : Send(s, "get", t, id, Empty)
        BY <1>1, <1>5, <3>2 DEF OnCartStorage, Load
      <4> QED BY <4>1, CallsKept DEF Typed, Op
    <3> QED BY <3>1, <3>2
  <2>2. wanted' \in Wants /\ calm' \in BOOLEAN
    <3>1. PICK calmly \in BOOLEAN : Expect(calmly, wanted)
      BY <1>5 DEF OnCartStorage, Loading
    <3> QED BY <3>1, ExpectTyped DEF Typed
  <2> QED BY <1>5, <2>1, <2>2 DEF OnCartStorage, Typed
<1>6. ASSUME NEW s \in Slot, Reopen(t, s)
      PROVE  Typed(H)'
  <2>1. [Idle EXCEPT !.stage = "sent", !.tab = t, !.id = storage] \in Calls(H)
    BY <1>1 DEF Idle, Calls, Op, Stage
  <2>2. \A r \in Slot : /\ call[r] \in Calls(H)
                        /\ [call[r] EXCEPT !.tab = NoTab] \in Calls(H)
    BY DEF Typed, Calls
  <2>3. call' \in [Slot -> Calls(H)]
    BY <1>6, <2>1, <2>2 DEF Reopen
  <2>4. NewDrawer \in Drawers(H) /\ Closed \in Modals(H)
    BY <1>1 DEF NewDrawer, Closed, Drawers, Modals
  <2>5. drawer' \in [Tab -> Drawers(H)] /\ modal' \in [Tab -> Modals(H)]
    BY <1>6, <2>4 DEF Reopen, Typed
  <2> QED BY <1>3, <1>6, <2>3, <2>5 DEF Reopen, Typed
<1>7. ASSUME NEW s \in Slot, Submit(t, s)
      PROVE  Typed(H)'
  <2>1. PICK op \in Op, id \in Nat, items \in H : Send(s, op, t, id, items)
    <3>1. modal[t].cart.id \in Nat /\ modal[t].cart.items \in H
      BY <1>2 DEF Modals, Copies
    <3> QED BY <1>7, <3>1 DEF Submit, Op
  <2>2. call' \in [Slot -> Calls(H)]
    BY <2>1, CallsKept DEF Typed
  <2>3. modal' \in [Tab -> Modals(H)]
    BY <1>7 DEF Submit, Typed, Modals
  <2> QED BY <1>3, <1>7, <2>2, <2>3 DEF Submit, Typed
<1>8. CASE CheckoutClick(t)
  <2>1. PICK tickets \in BOOLEAN :
              modal' = [modal EXCEPT ![t] = [open |-> TRUE, status |-> "idle",
                            cart |-> drawer[t].cart, tickets |-> tickets]]
    BY <1>8 DEF CheckoutClick
  <2>2. [open |-> TRUE, status |-> "idle", cart |-> drawer[t].cart,
         tickets |-> tickets] \in Modals(H)
    BY <1>2 DEF Drawers, Modals
  <2>3. modal' \in [Tab -> Modals(H)]
    BY <2>1, <2>2 DEF Typed
  <2> QED BY <1>3, <1>8, <2>3 DEF CheckoutClick, Typed
<1>9. CASE CloseModal(t)
  <2>1. Closed \in Modals(H)
    BY <1>1 DEF Closed, Modals
  <2>2. modal' \in [Tab -> Modals(H)]
    BY <1>9, <2>1 DEF CloseModal, Typed
  <2> QED BY <1>9, <2>2 DEF CloseModal, Typed, ghosts
<1>10. ASSUME NEW o \in DOMAIN orders, PaymentDone(t, o)
       PROVE  Typed(H)'
  <2>1. orders \in Seq(Orders(H)) /\ o \in 1 .. Len(orders)
        /\ orders[o] \in Orders(H)
    BY DEF Typed
  <2>2. [orders[o] EXCEPT !.popup = NoTab] \in Orders(H)
    BY <2>1 DEF Orders
  <2>3. orders' \in Seq(Orders(H))
    BY <1>10, <2>1, <2>2, ExceptSeq DEF PaymentDone
  <2>4. modal' \in [Tab -> Modals(H)]
    <3>1. modal \in [Tab -> Modals(H)]
      BY DEF Typed
    <3>2. PICK m \in Modals(H) : modal' = [modal EXCEPT ![t] = m]
      <4>1. [modal[t] EXCEPT !.status =
                IF modal[t].open THEN "completed" ELSE @] \in Modals(H)
        BY <1>2 DEF Modals
      <4> QED BY <1>10, <4>1 DEF PaymentDone, Becomes
    <3> QED BY <3>1, <3>2
  <2>5. storage' \in Nat /\ pending' \subseteq Tab
    BY <1>10 DEF PaymentDone, Store, Typed
  <2>6. wanted' \in Wants /\ calm' \in BOOLEAN
    <3>1. [l \in Line |-> {0}] \in Wants
      BY DEF Wants
    <3> QED BY <1>10, <3>1 DEF PaymentDone, Expect
  <2> QED BY <1>10, <2>3, <2>4, <2>5, <2>6 DEF PaymentDone, Typed
<1> QED BY <1>4, <1>5, <1>6, <1>7, <1>8, <1>9, <1>10

(* Every step keeps the types, and takes nothing back that was asked.       *)
LEMMA NextTyped ==
    ASSUME IInv, [Next]_vars
    PROVE  /\ asked' \in [Line -> Nat]
           /\ \A l \in Line : asked[l] <= asked'[l]
           /\ Typed(Held(asked))'
<1>1. /\ asked \in [Line -> Nat]
      /\ Typed(Held(asked)) /\ KnownCarts /\ KnownCalls
  BY DEF IInv
<1>2. PICK H : H = Held(asked)
  OBVIOUS
<1>3. Typed(H) /\ Empty \in H
  BY <1>1, <1>2, EmptyIsHeld
<1>4. \A x \in H : WithAttendees(x) \in H
  BY <1>2, WithAttendeesHeld
<1>5. ASSUME NEW x \in Choice, asked[x.line] >= 1
      PROVE  WithItem(Empty, x) \in H
  <2>1. PICK a : a = asked
    OBVIOUS
  <2>2. Empty \in Held(a) /\ DOMAIN Empty = {}
    BY EmptyIsHeld DEF Empty
  <2>3. a \in [Line -> Nat] /\ \A l \in Line : a[l] <= a[l]
    BY <1>1, <2>1
  <2> QED BY <1>2, <1>5, <2>1, <2>2, <2>3, WithItemHeld
<1>6. ASSUME Typed(H)', UNCHANGED asked
      PROVE  /\ asked' \in [Line -> Nat]
             /\ \A l \in Line : asked[l] <= asked'[l]
             /\ Typed(Held(asked))'
  <2>1. H = Held(asked')
    BY <1>2, <1>6
  <2>2. Typed(Held(asked))'
    BY <1>6, <2>1 DEF Typed
  <2> QED BY <1>1, <1>6, <2>2
<1>7. ASSUME NEW t \in Tab, Shopper(t)
      PROVE  /\ asked' \in [Line -> Nat]
             /\ \A l \in Line : asked[l] <= asked'[l]
             /\ Typed(Held(asked))'
  <2>1. CASE \E s \in Slot, choice \in Choice : Add(t, choice, s)
    BY <2>1, AddTyped
  <2>2. CASE \E s \in Slot, i \in DOMAIN drawer[t].cart.items :
                SetQuantity(t, i, s)
    BY <2>2, SetQuantityTyped
  <2>3. CASE \/ \E s \in Slot : \/ LogIn(t, s) \/ OnCartStorage(t, s)
                                \/ Reopen(t, s) \/ Submit(t, s)
             \/ CheckoutClick(t) \/ CloseModal(t)
             \/ \E o \in DOMAIN orders : PaymentDone(t, o)
    <3>1. Typed(H)'
      BY <1>1, <1>3, <2>3, OthersTyped
    <3>2. UNCHANGED asked
      BY <2>3 DEF LogIn, OnCartStorage, Reopen, Submit, CheckoutClick,
                  CloseModal, PaymentDone, ghosts
    <3> QED BY <1>6, <3>1, <3>2
  <2> QED BY <1>7, <2>1, <2>2, <2>3 DEF Shopper
<1>8. ASSUME NEW s \in Slot, Server(s)
      PROVE  Typed(H)' /\ UNCHANGED asked
  <2>1. Typed(H)'
    BY <1>1, <1>3, <1>4, <1>8, ServerTyped
  <2>2. UNCHANGED asked
    BY <1>8 DEF Server, ServeCreate, ServeUpdate, ServeRead, ServeCheckout,
                Fail, ghosts
  <2> QED BY <2>1, <2>2
<1>9. ASSUME NEW s \in Slot, Answer(s)
      PROVE  Typed(H)' /\ UNCHANGED asked
  <2>1. \A x \in call[s].choice :
           asked[x.line] >= 1 => WithItem(Empty, x) \in H
    BY <1>3, <1>5 DEF Typed, Calls
  <2>3. Typed(H)'
    BY <1>1, <1>3, <1>9, <2>1, AnswerTyped
  <2>2. UNCHANGED asked
    BY <1>9 DEF Answer, Created, Updated, EditFailed, Loaded, Merged,
                Persisted, Submitted, Ignored, ghosts
  <2> QED BY <2>2, <2>3
<1>10. CASE UNCHANGED vars
  <2>1. Typed(H)' /\ UNCHANGED asked
    BY <1>3, <1>10 DEF Typed, vars, ghosts
  <2> QED BY <1>6, <2>1
<1> QED BY <1>6, <1>7, <1>8, <1>9, <1>10 DEF Next

-----------------------------------------------------------------------------
(* Which carts are known.                                                   *)

(* Carts and orders are only added, and what was asked for stays.           *)
Grows ==
    /\ Len(carts) \in Nat /\ Len(carts') \in Nat
    /\ Len(orders) \in Nat /\ Len(orders') \in Nat
    /\ Len(carts) <= Len(carts')
    /\ Len(orders) <= Len(orders')
    /\ calm' => calm
    /\ asked \in [Line -> Nat] /\ asked' \in [Line -> Nat]
    /\ \A l \in Line : asked[l] <= asked'[l]

(* No step takes a cart or an order away.                                   *)
LEMMA NextGrows ==
    ASSUME IInv, [Next]_vars
    PROVE  Grows
<1>1. /\ asked \in [Line -> Nat] /\ asked' \in [Line -> Nat]
      /\ \A l \in Line : asked[l] <= asked'[l]
  BY NextTyped DEF IInv
<1>2. PICK H : H = Held(asked)
  OBVIOUS
<1>3. carts \in Seq(H) /\ orders \in Seq(Orders(H)) /\ calm \in BOOLEAN
  BY <1>2 DEF IInv, Typed
<1>4. /\ carts' \in Seq(Held(asked')) /\ orders' \in Seq(Orders(Held(asked')))
  BY NextTyped DEF Typed
<1>5. /\ Len(carts) \in Nat /\ Len(carts') \in Nat
      /\ Len(orders) \in Nat /\ Len(orders') \in Nat
  BY <1>3, <1>4
<1>6. /\ Len(carts) <= Len(carts')
      /\ Len(orders) <= Len(orders')
      /\ calm' => calm
  <2>1. ASSUME UNCHANGED <<carts, orders>>, calm' => calm
        PROVE  /\ Len(carts) <= Len(carts')
               /\ Len(orders) <= Len(orders')
               /\ calm' => calm
    BY <1>5, <2>1
  <2>2. ASSUME NEW t \in Tab, Shopper(t)
        PROVE  /\ Len(carts) <= Len(carts')
               /\ Len(orders) <= Len(orders')
               /\ calm' => calm
    <3>1. CASE \E o \in DOMAIN orders : PaymentDone(t, o)
      <4>1. PICK o \in DOMAIN orders : PaymentDone(t, o)
        BY <3>1
      <4>2. Len(orders') = Len(orders) /\ UNCHANGED carts
        BY <1>3, <4>1 DEF PaymentDone
      <4>3. calm' => calm
        BY <4>1 DEF PaymentDone, Expect
      <4> QED BY <1>5, <4>2, <4>3
    <3>2. CASE ~ \E o \in DOMAIN orders : PaymentDone(t, o)
      <4>1. UNCHANGED <<carts, orders>>
        BY <2>2, <3>2 DEF Shopper, Add, SetQuantity, LogIn, OnCartStorage,
             Reopen, Submit, CheckoutClick, CloseModal
      <4>2. calm' => calm
        BY <2>2, <3>2 DEF Shopper, Add, SetQuantity, LogIn, OnCartStorage,
             Reopen, Submit, CheckoutClick, CloseModal, Does, Expect, ghosts
      <4> QED BY <2>1, <4>1, <4>2
    <3> QED BY <3>1, <3>2
  <2>3. ASSUME NEW s \in Slot, Server(s)
        PROVE  /\ Len(carts) <= Len(carts')
               /\ Len(orders) <= Len(orders')
               /\ calm' => calm
    <3>1. CASE ServeCreate(s)
      BY <1>3, <1>5, <3>1 DEF ServeCreate, ghosts
    <3>2. CASE ServeUpdate(s)
      <4>1. PICK rows : carts' = [carts EXCEPT ![call[s].id] = rows]
        BY <3>2 DEF ServeUpdate
      <4>2. Len(carts') = Len(carts)
        BY <1>3, <4>1
      <4> QED BY <1>5, <3>2, <4>2 DEF ServeUpdate, ghosts
    <3>3. CASE ServeRead(s)
      BY <2>1, <3>3 DEF ServeRead, ghosts
    <3>4. CASE ServeCheckout(s)
      <4>1. UNCHANGED <<carts, calm>>
        BY <3>4 DEF ServeCheckout, ghosts
      <4>2. CASE UNCHANGED orders
        BY <2>1, <4>1, <4>2
      <4>3. CASE \E order : orders' = Append(orders, order)
        BY <1>3, <1>5, <4>1, <4>3
      <4> QED BY <3>4, <4>2, <4>3 DEF ServeCheckout
    <3>5. CASE Fail(s)
      BY <2>1, <3>5 DEF Fail, Expect
    <3> QED BY <2>3, <3>1, <3>2, <3>3, <3>4, <3>5 DEF Server
  <2>4. ASSUME NEW s \in Slot, Answer(s)
        PROVE  /\ Len(carts) <= Len(carts')
               /\ Len(orders) <= Len(orders')
               /\ calm' => calm
    <3>1. CASE Submitted(s)
      <4>1. UNCHANGED <<carts, calm>>
        BY <3>1 DEF Submitted, ghosts
      <4>2. Len(orders') = Len(orders)
        BY <1>3, <3>1 DEF Submitted
      <4> QED BY <1>5, <4>1, <4>2
    <3>2. CASE ~Submitted(s)
      <4>1. UNCHANGED <<carts, orders>>
        BY <2>4, <3>2 DEF Answer, Created, Updated, EditFailed, Loaded,
             Merged, Persisted, Ignored
      <4>2. calm' => calm
        BY <2>4, <3>2 DEF Answer, Created, Updated, EditFailed, Loaded,
             Merged, Persisted, Ignored, Expect, ghosts
      <4> QED BY <2>1, <4>1, <4>2
    <3> QED BY <3>1, <3>2
  <2>5. CASE UNCHANGED vars
    BY <2>1, <2>5 DEF vars, ghosts
  <2> QED BY <2>2, <2>3, <2>4, <2>5 DEF Next
<1> QED BY <1>1, <1>5, <1>6 DEF Grows

(* What was known stays known.                                              *)
LEMMA KnownStays ==
    ASSUME Grows
    PROVE  /\ \A id : Known(id) => Known(id)'
           /\ \A c : KnownCopy(c) => KnownCopy(c)'
<1>1. \A id : Known(id) => Known(id)'
  BY DEF Grows, Known
<1> QED BY <1>1 DEF KnownCopy

(* So does what is known of a call that is not touched.                     *)
LEMMA CallStays ==
    ASSUME Grows, NEW c, c.choice \subseteq Choice, KnownCall(c)
    PROVE  KnownCall(c)'
<1>1. Known(c.id)' /\ (c.op # "start" => KnownCopy(c.reply)')
  BY KnownStays DEF KnownCall
<1>2. c.stage = "served" /\ c.op = "start" => c.reply.id \in 1 .. Len(orders')
  BY DEF KnownCall, Grows
<1>3. \A x \in c.choice : asked[x.line] >= 1 => asked'[x.line] >= 1
  BY SMTT(30) DEF Grows, Line
<1> QED BY <1>1, <1>2, <1>3 DEF KnownCall, Grows

(* The id in the storage is that of a cart.                                 *)
LEMMA StorageKnown ==
    ASSUME IInv, [Next]_vars
    PROVE  Known(storage)'
<1>1. \/ storage' = storage
      \/ storage' = 0
      \/ \E s \in Slot : /\ call[s].stage = "served"
                         /\ call[s].op \in {"create", "merge"}
                         /\ storage' = call[s].reply.id
  <2>1. ASSUME NEW t \in Tab, Shopper(t)
        PROVE  storage' = storage \/ storage' = 0
    BY <2>1 DEF Shopper, Add, SetQuantity, LogIn, OnCartStorage, Reopen,
         Submit, CheckoutClick, CloseModal, PaymentDone, Store
  <2>2. ASSUME NEW s \in Slot, Server(s)
        PROVE  storage' = storage
    BY <2>2 DEF Server, ServeCreate, ServeUpdate, ServeRead, ServeCheckout, Fail
  <2>3. ASSUME NEW s \in Slot, Answer(s)
        PROVE  \/ storage' = storage
               \/ storage' = 0
               \/ /\ call[s].stage = "served"
                  /\ call[s].op \in {"create", "merge"}
                  /\ storage' = call[s].reply.id
    BY <2>3 DEF Answer, Created, Updated, EditFailed, Loaded, Merged,
         Persisted, Submitted, Ignored, Got, Lost, Store
  <2>4. CASE UNCHANGED vars
    BY <2>4 DEF vars
  <2> QED BY <2>1, <2>2, <2>3, <2>4 DEF Next
<1>2. PICK id : id = storage'
  OBVIOUS
<1>3. Known(id)
  <2>1. Known(storage) /\ Known(0)
    BY NextGrows DEF IInv, KnownCarts, Known, Grows
  <2>2. \A s \in Slot : call[s].stage = "served"
                        /\ call[s].op \in {"create", "merge"}
                            => Known(call[s].reply.id)
    BY DEF IInv, KnownCalls, KnownCall, KnownCopy
  <2> QED BY <1>1, <1>2, <2>1, <2>2
<1>4. Known(id)'
  BY <1>3, NextGrows, KnownStays
<1> QED BY <1>2, <1>4 DEF Known

(* A drawer shows no cart or a known one.                                   *)
LEMMA DrawersKnown ==
    ASSUME IInv, [Next]_vars, NEW t \in Tab
    PROVE  KnownCopy(drawer[t].cart)'
<1>1. PICK H : drawer \in [Tab -> Drawers(H)]
  BY DEF IInv, Typed
<1>2. \/ drawer'[t].cart = drawer[t].cart
      \/ drawer'[t].cart = NoCart
      \/ \E s \in Slot : /\ call[s].stage = "served"
                         /\ call[s].op \in {"patch", "get", "merge"}
                         /\ drawer'[t].cart = call[s].reply
  <2>1. ASSUME NEW u \in Tab, Shopper(u)
        PROVE  drawer'[t].cart = drawer[t].cart \/ drawer'[t].cart = NoCart
    <3>1. CASE \E s \in Slot, x \in Choice : Add(u, x, s)
      BY <1>1, <3>1 DEF Add, Drawers
    <3>2. CASE \E s \in Slot, i \in DOMAIN drawer[u].cart.items : SetQuantity(u, i, s)
      BY <1>1, <3>2 DEF SetQuantity, Drawers
    <3>3. CASE \E s \in Slot : Reopen(u, s)
      BY <1>1, <3>3 DEF Reopen, NewDrawer
    <3>4. CASE drawer' = drawer
      BY <3>4
    <3> QED BY <2>1, <3>1, <3>2, <3>3, <3>4 DEF Shopper, LogIn, OnCartStorage,
              Submit, CheckoutClick, CloseModal, PaymentDone
  <2>2. ASSUME NEW s \in Slot, Server(s)
        PROVE  drawer' = drawer
    BY <2>2 DEF Server, ServeCreate, ServeUpdate, ServeRead, ServeCheckout, Fail
  <2>3. ASSUME NEW s \in Slot, Answer(s)
        PROVE  \/ drawer'[t].cart = drawer[t].cart
               \/ drawer'[t].cart = NoCart
               \/ /\ call[s].stage = "served"
                  /\ call[s].op \in {"patch", "get", "merge"}
                  /\ drawer'[t].cart = call[s].reply
    <3>1. CASE Updated(s)
      BY <1>1, <3>1 DEF Updated, Got
    <3>2. CASE EditFailed(s)
      BY <1>1, <3>2 DEF EditFailed, Lost, Drawers
    <3>3. CASE Loaded(s)
      BY <1>1, <3>3 DEF Loaded, Got, Lost, Drawers
    <3>4. CASE Merged(s)
      BY <1>1, <3>4 DEF Merged, Got, Lost, Drawers
    <3>5. CASE drawer' = drawer
      BY <3>5
    <3> QED BY <2>3, <3>1, <3>2, <3>3, <3>4, <3>5 DEF Answer, Created,
              Persisted, Submitted, Ignored
  <2>4. CASE UNCHANGED vars
    BY <2>4 DEF vars
  <2> QED BY <2>1, <2>2, <2>3, <2>4 DEF Next
<1>3. PICK c : c = drawer'[t].cart
  OBVIOUS
<1>4. KnownCopy(c)
  <2>1. KnownCopy(drawer[t].cart) /\ KnownCopy(NoCart)
    BY NextGrows DEF IInv, KnownCarts, KnownCopy, Known, NoCart, Grows
  <2>2. \A s \in Slot : call[s].stage = "served"
                        /\ call[s].op \in {"patch", "get", "merge"}
                            => KnownCopy(call[s].reply)
    BY DEF IInv, KnownCalls, KnownCall
  <2> QED BY <1>2, <1>3, <2>1, <2>2
<1>5. KnownCopy(c)'
  BY <1>4, NextGrows, KnownStays
<1> QED BY <1>3, <1>5 DEF KnownCopy, Known

(* A modal that is open shows a known cart.                                 *)
LEMMA ModalsKnown ==
    ASSUME IInv, [Next]_vars, NEW t \in Tab
    PROVE  /\ KnownCopy(modal[t].cart)'
           /\ modal'[t].open => modal'[t].cart.id # 0
<1>1. PICK H : modal \in [Tab -> Modals(H)]
  BY DEF IInv, Typed
<1>2. \/ /\ modal'[t].cart = modal[t].cart
         /\ modal'[t].open = modal[t].open
      \/ modal'[t] = Closed
      \/ /\ modal'[t].cart = drawer[t].cart
         /\ drawer[t].cart.items # Empty
      \/ \E s \in Slot : /\ call[s].stage = "served"
                         /\ call[s].op = "persist"
                         /\ modal'[t].cart = call[s].reply
  <2>1. ASSUME NEW u \in Tab, Shopper(u)
        PROVE  \/ /\ modal'[t].cart = modal[t].cart
                  /\ modal'[t].open = modal[t].open
               \/ modal'[t] = Closed
               \/ /\ modal'[t].cart = drawer[t].cart
                  /\ drawer[t].cart.items # Empty
    <3>1. CASE CheckoutClick(u)
      <4>1. PICK m : /\ modal' = [modal EXCEPT ![u] = m]
                     /\ m.cart = drawer[u].cart
        BY <3>1 DEF CheckoutClick
      <4>2. drawer[u].cart.items # Empty
        BY <3>1 DEF CheckoutClick
      <4>3. CASE u = t
        BY <1>1, <4>1, <4>2, <4>3
      <4>4. CASE u # t
        BY <1>1, <4>1, <4>4
      <4> QED BY <4>3, <4>4
    <3>2. CASE CloseModal(u) \/ \E s \in Slot : Reopen(u, s)
      BY <1>1, <3>2 DEF CloseModal, Reopen
    <3>3. CASE \E status :
                  modal' = [modal EXCEPT ![u].status = status]
      BY <1>1, <3>3 DEF Modals
    <3>4. CASE modal' = modal
      BY <3>4
    <3>5. ASSUME NEW s \in Slot, Submit(u, s)
          PROVE  \E status : modal' = [modal EXCEPT ![u].status = status]
      BY <3>5 DEF Submit
    <3>6. ASSUME NEW o, PaymentDone(u, o)
          PROVE  \E status : modal' = [modal EXCEPT ![u].status = status]
      <4>1. Becomes(u, "completed")
        BY <3>6 DEF PaymentDone
      <4> QED BY <4>1 DEF Becomes
    <3> QED BY <2>1, <3>1, <3>2, <3>3, <3>4, <3>5, <3>6
           DEF Shopper, Add, SetQuantity, LogIn, OnCartStorage
  <2>2. ASSUME NEW s \in Slot, Server(s)
        PROVE  modal' = modal
    BY <2>2 DEF Server, ServeCreate, ServeUpdate, ServeRead, ServeCheckout, Fail
  <2>3. ASSUME NEW s \in Slot, Answer(s)
        PROVE  \/ /\ modal'[t].cart = modal[t].cart
                  /\ modal'[t].open = modal[t].open
               \/ /\ call[s].stage = "served"
                  /\ call[s].op = "persist"
                  /\ modal'[t].cart = call[s].reply
    <3>1. CASE Persisted(s)
      <4>1. \/ modal' = modal
            \/ /\ Got(s, "persist")
               /\ modal' = [modal EXCEPT ![call[s].tab].cart =
                              IF modal[call[s].tab].open THEN call[s].reply
                              ELSE @]
        BY <3>1 DEF Persisted
      <4>2. CASE modal' = modal
        BY <4>2
      <4>3. CASE Got(s, "persist")
                 /\ modal' = [modal EXCEPT ![call[s].tab].cart =
                                IF modal[call[s].tab].open THEN call[s].reply
                                ELSE @]
        BY <1>1, <4>3 DEF Got, Modals
      <4> QED BY <4>1, <4>2, <4>3
    <3>2. CASE Submitted(s)
      <4>1. call[s].tab \in Tab
            /\ \E status :
                  modal' = [modal EXCEPT ![call[s].tab].status = status]
        BY <3>2 DEF Submitted, Becomes, Got, Lost
      <4> QED BY <1>1, <4>1 DEF Modals
    <3> QED BY <2>3, <3>1, <3>2 DEF Answer, Created, Updated, EditFailed,
              Loaded, Merged, Ignored
  <2>4. CASE UNCHANGED vars
    BY <2>4 DEF vars
  <2> QED BY <2>1, <2>2, <2>3, <2>4, SMTT(30) DEF Next
<1>3. PICK m : m = modal'[t]
  OBVIOUS
<1>4. KnownCopy(m.cart) /\ (m.open => m.cart.id # 0)
  <2>1. /\ KnownCopy(modal[t].cart)
        /\ modal[t].open => modal[t].cart.id # 0
        /\ KnownCopy(drawer[t].cart)
    BY DEF IInv, KnownCarts
  <2>2. drawer[t].cart.items # Empty => drawer[t].cart.id # 0
    BY <2>1 DEF KnownCopy
  <2>3. KnownCopy(NoCart)
    BY NextGrows DEF KnownCopy, Known, NoCart, Grows
  <2>4. \A s \in Slot : call[s].stage = "served" /\ call[s].op = "persist"
           => KnownCopy(call[s].reply) /\ call[s].reply.id # 0
    BY DEF IInv, KnownCalls, KnownCall
  <2>5. CASE modal'[t] = Closed
    BY <1>3, <2>3, <2>5 DEF Closed
  <2>6. CASE modal'[t] # Closed
    BY <1>2, <1>3, <2>1, <2>2, <2>4, <2>6
  <2> QED BY <2>5, <2>6
<1>5. KnownCopy(m.cart)'
  BY <1>4, NextGrows, KnownStays
<1> QED BY <1>3, <1>4, <1>5 DEF KnownCopy, Known

-----------------------------------------------------------------------------
(* What is known of the calls.                                              *)

(* A step that changes one call has to answer for that one only.            *)
LEMMA OneCall ==
    ASSUME IInv, [Next]_vars, NEW s \in Slot, NEW c,
           call' = [call EXCEPT ![s] = c], KnownCall(c)'
    PROVE  KnownCalls'
<1>1. PICK H : call \in [Slot -> Calls(H)]
  BY DEF IInv, Typed
<1>2. ASSUME NEW r \in Slot, r # s
      PROVE  KnownCall(call[r])'
  <2>1. PICK d : d = call[r]
    OBVIOUS
  <2>2. call'[r] = d /\ KnownCall(d) /\ d.choice \subseteq Choice
    BY <1>1, <1>2, <2>1 DEF Calls, IInv, KnownCalls
  <2>3. KnownCall(d)'
    BY <2>2, NextGrows, CallStays
  <2> QED BY <2>2, <2>3 DEF KnownCall, KnownCopy, Known
<1>3. KnownCall(call[s])'
  <2>1. call'[s] = c
    BY <1>1
  <2> QED BY <2>1 DEF KnownCall, KnownCopy, Known
<1> QED BY <1>2, <1>3 DEF KnownCalls

(* A step that changes none, none.                                          *)
LEMMA NoCall ==
    ASSUME IInv, [Next]_vars, UNCHANGED call
    PROVE  KnownCalls'
<1>1. PICK H : call \in [Slot -> Calls(H)]
  BY DEF IInv, Typed
<1> SUFFICES ASSUME NEW r \in Slot PROVE KnownCall(call[r])'
  BY DEF KnownCalls
<1>2. PICK d : d = call[r]
  OBVIOUS
<1>3. call'[r] = d /\ KnownCall(d) /\ d.choice \subseteq Choice
  BY <1>1, <1>2 DEF Calls, IInv, KnownCalls
<1>4. KnownCall(d)'
  BY <1>3, NextGrows, CallStays
<1> QED BY <1>3, <1>4 DEF KnownCall, KnownCopy, Known

(* A call that is not an edit is about a cart there is.                     *)
LEMMA SentKnown ==
    ASSUME IInv, [Next]_vars, NEW s \in Slot, NEW t, NEW items,
           NEW op \in {"get", "merge", "persist", "start"},
           NEW id, Known(id), id # 0, Send(s, op, t, id, items)
    PROVE  KnownCalls'
<1> DEFINE c == [Idle EXCEPT !.op = op, !.stage = "sent", !.tab = t, !.id = id,
                             !.items = items]
<1>1. /\ c.op = op /\ c.stage = "sent" /\ c.id = id
      /\ c.reply = NoCart
  BY DEF Idle
<1>2. call' = [call EXCEPT ![s] = c]
  BY DEF Send
<1> HIDE DEF c
<1>3. Known(id)' /\ KnownCopy(NoCart)'
  BY NextGrows, KnownStays DEF KnownCopy, Known, NoCart, Grows
<1>4. KnownCall(c)'
  BY <1>1, <1>3 DEF KnownCall
<1> QED BY <1>2, <1>4, OneCall

(* An edit is about a cart there is, or one that is being created.          *)
LEMMA EditKnown ==
    ASSUME IInv, [Next]_vars, NEW s \in Slot, NEW t, NEW items, NEW choice,
           NEW want \in Wants, NEW op, NEW id, Known(id),
           \/ op = "patch" /\ id # 0
           \/ /\ op = "create" /\ choice # {}
              /\ \A x \in choice : asked'[x.line] >= 1,
           SendEdit(s, op, t, id, items, choice, want)
    PROVE  KnownCalls'
<1>1. PICK w : w = IF calm' THEN want ELSE <<>>
  OBVIOUS
<1> DEFINE c == [Idle EXCEPT !.op = op, !.stage = "sent", !.tab = t, !.id = id,
                     !.items = items, !.choice = choice, !.want = w]
<1>2. /\ c.op = op /\ c.stage = "sent" /\ c.id = id
      /\ c.reply = NoCart /\ c.choice = choice /\ c.want = w
  BY DEF Idle
<1>3. call' = [call EXCEPT ![s] = c]
  BY <1>1 DEF SendEdit
<1> HIDE DEF c
<1>4. Known(id)' /\ KnownCopy(NoCart)' /\ NoCart.items = Empty
  BY NextGrows, KnownStays DEF KnownCopy, Known, NoCart, Grows
<1>5. calm' => w \in Wants
  BY <1>1
<1>6. KnownCall(c)'
  BY <1>2, <1>4, <1>5 DEF KnownCall
<1> QED BY <1>3, <1>6, OneCall

(* Of a call that ends nothing is left.                                     *)
LEMMA FinishKnown ==
    ASSUME IInv, [Next]_vars, NEW s \in Slot, Finish(s)
    PROVE  KnownCalls'
<1>1. /\ Idle.op = "get" /\ Idle.stage = "none" /\ Idle.id = 0
      /\ Idle.reply = NoCart
  BY DEF Idle
<1>2. Known(0)' /\ KnownCopy(NoCart)'
  BY NextGrows DEF KnownCopy, Known, NoCart, Grows
<1>3. KnownCall(Idle)'
  BY <1>1, <1>2 DEF KnownCall
<1> QED BY <1>3, OneCall DEF Finish

(* The calls the shopper makes.                                             *)
LEMMA ShopperKnown ==
    ASSUME IInv, [Next]_vars, NEW t \in Tab, Shopper(t)
    PROVE  KnownCalls'
<1>1. PICK H : /\ drawer \in [Tab -> Drawers(H)] /\ wanted \in Wants
               /\ \A u \in Tab : \A i \in DOMAIN drawer[u].cart.items :
                     drawer[u].cart.items[i] \in Row
  <2>1. PICK a : a = asked
    OBVIOUS
  <2>2. /\ drawer \in [Tab -> Drawers(Held(a))] /\ wanted \in Wants
    BY <2>1 DEF IInv, Typed
  <2>3. \A u \in Tab : drawer[u].cart.items \in Held(a)
    BY <2>2 DEF Drawers, Copies
  <2>4. \A x \in Held(a) : \A i \in DOMAIN x : x[i] \in Row
    BY ItemsAre DEF Held
  <2> QED BY <2>2, <2>3, <2>4
<1>2. /\ Known(storage) /\ Known(0)
      /\ \A u \in Tab : /\ KnownCopy(drawer[u].cart) /\ KnownCopy(modal[u].cart)
                        /\ modal[u].open => modal[u].cart.id # 0
  BY NextGrows DEF IInv, KnownCarts, Grows, Known
<1>3. ASSUME NEW s \in Slot, NEW x \in Choice, Add(t, x, s)
      PROVE  KnownCalls'
  <2>1. PICK want \in Wants :
                want = [wanted EXCEPT ![x.line] = {w + 1 : w \in @}]
    <3>1. x.line \in Line
      BY DEF Line
    <3>2. {w + 1 : w \in wanted[x.line]} \in SUBSET Nat
      BY <1>1, <3>1 DEF Wants
    <3>3. [wanted EXCEPT ![x.line] = {w + 1 : w \in @}] \in Wants
      BY <1>1, <3>1, <3>2 DEF Wants
    <3> QED BY <3>3
  <2>2. asked'[x.line] >= 1
    <3>1. asked' = [asked EXCEPT ![x.line] = @ + 1]
      BY <1>3 DEF Add
    <3> QED BY <3>1 DEF Line, IInv
  <2>3. CASE drawer[t].cart.id = 0
    <3>1. SendEdit(s, "create", t, 0, Empty, {x}, want)
      BY <1>3, <2>1, <2>3 DEF Add
    <3> QED BY <1>2, <2>2, <3>1, EditKnown
  <2>4. CASE drawer[t].cart.id # 0
    <3>1. PICK id, items : /\ id = drawer[t].cart.id
                           /\ items = WithItem(drawer[t].cart.items, x)
      OBVIOUS
    <3>2. SendEdit(s, "patch", t, id, items, {x}, want)
      BY <1>3, <2>1, <2>4, <3>1 DEF Add
    <3>3. Known(id) /\ id # 0
      BY <1>2, <2>4, <3>1 DEF KnownCopy
    <3> QED BY <3>2, <3>3, EditKnown
  <2> QED BY <2>3, <2>4
<1>4. ASSUME NEW s \in Slot, NEW i \in DOMAIN drawer[t].cart.items,
             SetQuantity(t, i, s)
      PROVE  KnownCalls'
  <2>7. PICK id, x : id = drawer[t].cart.id /\ x = drawer[t].cart.items
    OBVIOUS
  <2>8. PICK row \in Row : row = x[i]
    BY <1>1, <2>7
  <2>1. id = drawer[t].cart.id /\ x = drawer[t].cart.items /\ row = x[i]
    BY <2>7, <2>8
  <2>2. PICK n \in {0, row.quantity - 1, row.quantity + 1} :
                SendEdit(s, "patch", t, id, WithQuantity(x, row, n),
                         {}, [wanted EXCEPT ![row.line] = {n}])
    BY <1>4, <2>1 DEF SetQuantity
  <2>3. n \in Nat /\ row.line \in Line
    BY DEF Row
  <2>4. PICK want \in Wants : want = [wanted EXCEPT ![row.line] = {n}]
    BY <1>1, <2>3 DEF Wants
  <2>5. Known(id) /\ id # 0
    <3>1. x # Empty
      BY <2>1 DEF Empty
    <3> QED BY <1>2, <2>1, <3>1 DEF KnownCopy
  <2>6. SendEdit(s, "patch", t, id, WithQuantity(x, row, n), {}, want)
    BY <2>2, <2>4
  <2> QED BY <2>5, <2>6, EditKnown
<1>5. ASSUME NEW s \in Slot, LogIn(t, s)
      PROVE  KnownCalls'
  <2>1. PICK id : id = storage
    OBVIOUS
  <2>2. Send(s, "merge", t, id, Empty) /\ id # 0 /\ Known(id)
    BY <1>2, <1>5, <2>1 DEF LogIn
  <2> QED BY <2>2, SentKnown
<1>6. ASSUME NEW s \in Slot, OnCartStorage(t, s)
      PROVE  KnownCalls'
  <2>1. CASE storage = 0
    BY <1>6, <2>1, NoCall DEF OnCartStorage, Load
  <2>2. CASE storage # 0
    <3>1. PICK id : id = storage
      OBVIOUS
    <3>2. Send(s, "get", t, id, Empty) /\ id # 0 /\ Known(id)
      BY <1>2, <1>6, <2>2, <3>1 DEF OnCartStorage, Load
    <3> QED BY <3>2, SentKnown
  <2> QED BY <2>1, <2>2
<1>7. ASSUME NEW s \in Slot, Submit(t, s)
      PROVE  KnownCalls'
  <2>3. PICK id, items : id = modal[t].cart.id /\ items = modal[t].cart.items
    OBVIOUS
  <2>1. PICK op \in {"persist", "start"} : Send(s, op, t, id, items)
    BY <1>7, <2>3 DEF Submit
  <2>2. Known(id) /\ id # 0
    BY <1>2, <1>7, <2>3 DEF Submit, KnownCopy
  <2> QED BY <2>1, <2>2, SentKnown
<1>8. ASSUME NEW s \in Slot, Reopen(t, s)
      PROVE  KnownCalls'
  <2>1. PICK G : call \in [Slot -> Calls(G)]
    BY DEF IInv, Typed
  <2> SUFFICES ASSUME NEW r \in Slot PROVE KnownCall(call[r])'
    BY DEF KnownCalls
  <2>2. PICK d, e : d = call[r] /\ e = call'[r]
    OBVIOUS
  <2>3. KnownCall(d) /\ d \in Calls(G)
    BY <2>1, <2>2 DEF IInv, KnownCalls
  <2>4. KnownCall(d)'
    BY <2>3, NextGrows, CallStays DEF Calls
  <2>5. \/ /\ e.stage = "sent" /\ e.op = "get"
           /\ e.id = storage /\ storage # 0 /\ e.reply = NoCart
        \/ /\ e.stage = d.stage /\ e.op = d.op /\ e.id = d.id
           /\ e.reply = d.reply /\ e.choice = d.choice /\ e.want = d.want
    <3>1. e = IF r = s /\ storage # 0
              THEN [Idle EXCEPT !.stage = "sent", !.tab = t, !.id = storage]
              ELSE IF d.tab = t THEN [d EXCEPT !.tab = NoTab] ELSE d
      BY <1>8, <2>2 DEF Reopen
    <3>2. CASE r = s /\ storage # 0
      BY <3>1, <3>2 DEF Idle
    <3>3. CASE ~(r = s /\ storage # 0)
      BY <2>3, <3>1, <3>3 DEF Calls
    <3> QED BY <3>2, <3>3
  <2>6. KnownCall(e)'
    <3>1. CASE /\ e.stage = d.stage /\ e.op = d.op /\ e.id = d.id
               /\ e.reply = d.reply /\ e.choice = d.choice /\ e.want = d.want
      BY <2>4, <3>1 DEF KnownCall
    <3>2. CASE /\ e.stage = "sent" /\ e.op = "get"
               /\ e.id = storage /\ storage # 0 /\ e.reply = NoCart
      <4>1. PICK id : id = storage
        OBVIOUS
      <4>2. Known(id)' /\ KnownCopy(NoCart)'
        BY <1>2, <4>1, NextGrows, KnownStays
           DEF KnownCopy, Known, NoCart, Grows
      <4> QED BY <3>2, <4>1, <4>2 DEF KnownCall
    <3> QED BY <2>5, <3>1, <3>2
  <2> QED BY <2>2, <2>6 DEF KnownCall, KnownCopy, Known
<1>9. CASE UNCHANGED call
  BY <1>9, NoCall
<1> QED BY <1>3, <1>4, <1>5, <1>6, <1>7, <1>8, <1>9
       DEF Shopper, CheckoutClick, CloseModal, PaymentDone

(* What the server answers.                                                 *)
LEMMA ServerKnown ==
    ASSUME IInv, [Next]_vars, NEW s \in Slot, Server(s)
    PROVE  KnownCalls'
<1>1. PICK c, G : c = call[s] /\ c \in Calls(G) /\ call \in [Slot -> Calls(G)]
  BY DEF IInv, Typed
<1>2. KnownCall(c) /\ KnownCall(c)'
  BY <1>1, NextGrows, CallStays DEF IInv, KnownCalls, Calls
<1>3. ASSUME NEW id, NEW items, Answered(s, id, items),
             c.stage = "sent",
             c.op = "create" => items = Empty,
             c.op # "start" => Known(id)' /\ id # 0,
             c.op = "start" => id \in 1 .. Len(orders')
      PROVE  KnownCalls'
  <2> DEFINE d == [c EXCEPT !.stage = "served",
                            !.reply = [id |-> id, items |-> items]]
  <2>1. call' = [call EXCEPT ![s] = d]
    BY <1>1, <1>3 DEF Answered
  <2>2. /\ d.op = c.op /\ d.stage = "served" /\ d.id = c.id /\ d.want = c.want
        /\ d.choice = c.choice /\ d.reply.id = id /\ d.reply.items = items
    BY <1>1 DEF Calls
  <2> HIDE DEF d
  <2>3. d.op # "start" => KnownCopy(d.reply)'
    BY <1>3, <2>2 DEF KnownCopy, Known
  <2>4. KnownCall(d)'
    BY <1>2, <1>3, <2>2, <2>3 DEF KnownCall
  <2> QED BY <2>1, <2>4, OneCall
<1>4. ASSUME NEW reply, reply = c.reply \/ reply = NoCart,
             call' = [call EXCEPT ![s].stage = "failed", ![s].reply = reply],
             c.stage # "none"
      PROVE  KnownCalls'
  <2> DEFINE d == [c EXCEPT !.stage = "failed", !.reply = reply]
  <2>1. call' = [call EXCEPT ![s] = d]
    BY <1>1, <1>4
  <2>2. /\ d.op = c.op /\ d.stage = "failed" /\ d.id = c.id /\ d.want = c.want
        /\ d.choice = c.choice /\ d.reply = reply
    BY <1>1 DEF Calls
  <2> HIDE DEF d
  <2>3. KnownCopy(NoCart)' /\ NoCart.items = Empty
    BY NextGrows DEF KnownCopy, Known, NoCart, Grows
  <2>4. KnownCall(d)'
    BY <1>2, <1>4, <2>2, <2>3 DEF KnownCall
  <2> QED BY <2>1, <2>4, OneCall
<1>5. /\ Len(carts) \in Nat /\ Len(carts') \in Nat
      /\ Len(orders) \in Nat /\ Len(orders') \in Nat
      /\ \A id \in 1 .. Len(carts) : Known(id)' /\ id # 0
  BY NextGrows, KnownStays DEF Grows, Known
<1>6. CASE ServeCreate(s)
  <2>1. PICK id : id = Len(carts) + 1
    OBVIOUS
  <2>2. Answered(s, id, Empty) /\ c.stage = "sent" /\ c.op = "create"
    BY <1>1, <1>6, <2>1 DEF ServeCreate, Sent
  <2>3. Len(carts') = Len(carts) + 1
    <3>1. PICK H : carts \in Seq(H)
      BY DEF IInv, Typed
    <3> QED BY <1>6, <3>1 DEF ServeCreate
  <2>4. Known(id)' /\ id # 0
    BY <1>5, <2>1, <2>3 DEF Known
  <2> QED BY <1>3, <2>2, <2>4
<1>7. CASE ServeUpdate(s) \/ ServeRead(s)
  <2>1. PICK id, items : id = c.id /\ Answered(s, id, items)
    BY <1>1, <1>7 DEF ServeUpdate, ServeRead
  <2>2. c.stage = "sent" /\ c.op \notin {"create", "start"}
    BY <1>1, <1>7 DEF ServeUpdate, ServeRead, Sent
  <2>3. Known(id)' /\ id # 0
    BY <1>2, <2>1, <2>2 DEF KnownCall, Known
  <2> QED BY <1>3, <2>1, <2>2, <2>3
<1>8. CASE ServeCheckout(s)
  <2>1. c.stage = "sent" /\ c.op = "start"
    BY <1>1, <1>8 DEF ServeCheckout, Sent
  <2>2. CASE call' = [call EXCEPT ![s].stage = "failed"]
    <3>1. PICK reply : reply = c.reply
      OBVIOUS
    <3>2. call' = [call EXCEPT ![s].stage = "failed", ![s].reply = reply]
      BY <1>1, <2>2, <3>1 DEF Calls
    <3> QED BY <1>4, <2>1, <3>1, <3>2
  <2>3. CASE /\ \E order : orders' = Append(orders, order)
             /\ Answered(s, Len(orders) + 1, Empty)
    <3>1. PICK id : id = Len(orders) + 1
      OBVIOUS
    <3>2. Len(orders') = Len(orders) + 1
      <4>1. PICK H : orders \in Seq(H)
        BY DEF IInv, Typed
      <4> QED BY <2>3, <4>1
    <3>3. id \in 1 .. Len(orders') /\ Answered(s, id, Empty)
      BY <1>5, <2>3, <3>1, <3>2
    <3> QED BY <1>3, <2>1, <3>3
  <2> QED BY <1>8, <2>2, <2>3 DEF ServeCheckout
<1>9. CASE Fail(s)
  <2>1. /\ call' = [call EXCEPT ![s].stage = "failed", ![s].reply = NoCart]
        /\ c.stage # "none"
    BY <1>1, <1>9 DEF Fail
  <2> QED BY <1>4, <2>1
<1> QED BY <1>6, <1>7, <1>8, <1>9 DEF Server

(* What goes on after an answer.                                            *)
LEMMA AnswerKnown ==
    ASSUME IInv, [Next]_vars, NEW s \in Slot, Answer(s)
    PROVE  KnownCalls'
<1>1. PICK c, G : c = call[s] /\ c \in Calls(G) /\ call \in [Slot -> Calls(G)]
  BY DEF IInv, Typed
<1>2. KnownCall(c) /\ KnownCall(c)'
  BY <1>1, NextGrows, CallStays DEF IInv, KnownCalls, Calls
<1>3. KnownCopy(NoCart)'
  BY NextGrows DEF KnownCopy, Known, NoCart, Grows
<1>4. CASE Created(s)
  <2>1. PICK items : items = WithItem(call[s].reply.items,
                                      CHOOSE x \in call[s].choice : TRUE)
    OBVIOUS
  <2> DEFINE d == [c EXCEPT !.op = "patch", !.stage = "sent",
                            !.id = c.reply.id, !.items = items,
                            !.reply = NoCart]
  <2>2. call' = [call EXCEPT ![s] = d]
    BY <1>1, <1>4, <2>1 DEF Created
  <2>3. /\ d.op = "patch" /\ d.stage = "sent" /\ d.id = c.reply.id
        /\ d.reply = NoCart /\ d.want = c.want
    BY <1>1 DEF Calls
  <2>4. c.op = "create" /\ c.stage = "served"
    BY <1>1, <1>4 DEF Created, Got
  <2> HIDE DEF d
  <2>5. Known(d.id)' /\ d.id # 0
    BY <1>2, <2>3, <2>4 DEF KnownCall, KnownCopy
  <2>6. calm' => d.want \in Wants
    BY <1>2, <2>3, <2>4 DEF KnownCall
  <2>7. KnownCall(d)'
    BY <1>3, <2>3, <2>5, <2>6 DEF KnownCall
  <2> QED BY <2>2, <2>7, OneCall
<1>5. CASE Persisted(s)
  <2> DEFINE d == [c EXCEPT !.op = "start", !.stage = "sent",
                            !.reply = NoCart]
  <2>1. call' = [call EXCEPT ![s] = d]
    BY <1>1, <1>5 DEF Persisted
  <2>2. /\ d.op = "start" /\ d.stage = "sent" /\ d.id = c.id
        /\ d.reply = NoCart
    BY <1>1 DEF Calls
  <2>3. c.op = "persist" /\ c.stage # "none"
    BY <1>1, <1>5 DEF Persisted, Got, Lost
  <2> HIDE DEF d
  <2>4. KnownCall(d)'
    BY <1>2, <2>2, <2>3 DEF KnownCall
  <2> QED BY <2>1, <2>4, OneCall
<1>6. CASE Finish(s)
  BY <1>6, FinishKnown
<1> QED BY <1>4, <1>5, <1>6 DEF Answer, Updated, EditFailed, Loaded, Merged,
       Submitted, Ignored

-----------------------------------------------------------------------------
(* The invariant, and what follows from it.                                 *)

(* The invariant holds at the start.                                        *)
LEMMA InitIInv ==
    ASSUME Init PROVE IInv
<1>1. asked \in [Line -> Nat]
  BY DEF Init
<1>2. PICK H : H = Held(asked) /\ Empty \in H
  BY EmptyIsHeld
<1>3. NoCart \in Copies(H)
  BY <1>2 DEF NoCart, Copies
<1>4. /\ NewDrawer \in Drawers(H)
      /\ Closed \in Modals(H)
      /\ Idle \in Calls(H)
  BY <1>2, <1>3 DEF NewDrawer, Closed, Idle, Drawers, Modals, Calls, Op, Stage
<1>5. Typed(H)
  BY <1>4 DEF Init, Typed, Wants
<1>6. Typed(Held(asked))
  BY <1>2, <1>5
<1>7. Known(0) /\ KnownCopy(NoCart)
  BY DEF Init, Known, KnownCopy, NoCart
<1>8. KnownCarts
  BY <1>7 DEF Init, KnownCarts, NewDrawer, Closed
<1>9. KnownCall(Idle)
  BY <1>7 DEF KnownCall, Idle
<1>10. KnownCalls
  BY <1>9 DEF Init, KnownCalls
<1> QED BY <1>1, <1>6, <1>8, <1>10 DEF IInv

(* Every step keeps it.                                                     *)
LEMMA Invariance ==
    ASSUME IInv, [Next]_vars PROVE IInv'
<1>1. asked' \in [Line -> Nat] /\ Typed(Held(asked))'
  BY NextTyped
<1>2. KnownCarts'
  BY StorageKnown, DrawersKnown, ModalsKnown DEF KnownCarts
<1>3. KnownCalls'
  BY ShopperKnown, ServerKnown, AnswerKnown, NoCall DEF Next, vars
<1> QED BY <1>1, <1>2, <1>3 DEF IInv

(* What it says of the types.                                               *)
LEMMA IInvTypes ==
    ASSUME IInv PROVE TypeOK
<1>1. PICK H : H = Held(asked)
  OBVIOUS
<1>2. Typed(H)
  BY <1>1 DEF IInv
<1>3. \A x \in H : AreRows(x)
  BY <1>1, ItemsAre DEF Held, AreRows
<1>4. \A c \in Copies(H) : IsCopy(c)
  BY <1>3 DEF Copies, IsCopy
<1>5. \A n \in DOMAIN carts : AreRows(carts[n])
  BY <1>2, <1>3 DEF Typed
<1>6. \A o \in DOMAIN orders : AreRows(orders[o].items)
  <2>1. \A o \in DOMAIN orders : orders[o] \in Orders(H)
    BY <1>2 DEF Typed
  <2> QED BY <1>3, <2>1 DEF Orders
<1>7. \A t \in Tab : /\ IsCopy(drawer[t].cart) /\ drawer[t].syncing \in BOOLEAN
                     /\ IsCopy(modal[t].cart)
                     /\ modal[t].open \in BOOLEAN
                     /\ modal[t].tickets \in BOOLEAN
                     /\ modal[t].status \in {"idle", "submitting",
                                             "awaiting_payment", "completed"}
  BY <1>2, <1>4 DEF Typed, Drawers, Modals
<1>8. \A s \in Slot : /\ call[s].op \in Op /\ call[s].stage \in Stage
                      /\ call[s].tab \in Tab \cup {NoTab}
                      /\ IsCopy(call[s]) /\ IsCopy(call[s].reply)
                      /\ call[s].choice \subseteq Choice
  BY <1>2, <1>3, <1>4 DEF Typed, Calls, IsCopy
<1> QED BY <1>2, <1>5, <1>6, <1>7, <1>8 DEF TypeOK, Typed, IInv

(* And of the quantities.                                                   *)
LEMMA IInvBounds ==
    ASSUME IInv PROVE NeverMoreThanAsked
<1>1. PICK H, a : a = asked /\ H = Held(a)
  OBVIOUS
<1>2. Typed(H)
  BY <1>1 DEF IInv
<1>3. \A x \in H : \A i \in DOMAIN x : x[i].quantity <= asked[x[i].line]
  BY <1>1 DEF Held, Within
<1>4. /\ \A n \in DOMAIN carts : carts[n] \in H
      /\ \A o \in DOMAIN orders : orders[o] \in Orders(H)
  BY <1>2 DEF Typed
<1>5. \A o \in DOMAIN orders : orders[o].items \in H
  BY <1>4 DEF Orders
<1>6. \A t \in Tab : drawer[t].cart.items \in H
  BY <1>2 DEF Typed, Drawers, Copies
<1> QED BY <1>3, <1>4, <1>5, <1>6 DEF NeverMoreThanAsked

(* The lists of rows that travel between tabs and server stay lists of      *)
(* rows, in every cart, drawer, modal, call and order.                      *)
THEOREM TypeCorrect == Spec => []TypeOK
<1>1. Init => IInv
  BY InitIInv
<1>2. IInv /\ [Next]_vars => IInv'
  BY Invariance
<1>3. IInv => TypeOK
  BY IInvTypes
<1> QED BY <1>1, <1>2, <1>3, PTL DEF Spec

(* However many tabs and calls there are, whatever overlaps or is lost, no  *)
(* cart, drawer or order has more in a row than was asked for of its line.  *)
THEOREM BoundHolds == Spec => []NeverMoreThanAsked
<1>1. Init => IInv
  BY InitIInv
<1>2. IInv /\ [Next]_vars => IInv'
  BY Invariance
<1>3. IInv => NeverMoreThanAsked
  BY IInvBounds
<1> QED BY <1>1, <1>2, <1>3, PTL DEF Spec

-----------------------------------------------------------------------------
(* Rows of a cart.  Editing sends no request, so that a request in a cart   *)
(* turns into a second row of the standard slot, if there is one already:   *)
(* rows stay distinct as long as no choice is a request.                    *)

(* Lists of rows that differ in their signature, none of them a request.    *)
Distinct(items) ==
    \A i, j \in DOMAIN items :
        Signature(items[i]) = Signature(items[j]) => i = j

Standard ==
    {items \in Items : /\ \A i \in DOMAIN items : items[i].request = FALSE
                       /\ Distinct(items)}

(* What such a list is.                                                     *)
LEMMA StandardAre ==
    ASSUME NEW x \in Standard
    PROVE  /\ DOMAIN x \in Numbers
           /\ x \in [DOMAIN x -> Row]
           /\ \A i \in DOMAIN x : x[i] \in Row /\ x[i].request = FALSE
           /\ \A i, j \in DOMAIN x : x[i].line = x[j].line => i = j
<1>1. x \in Items
  BY DEF Standard
<1>2. DOMAIN x \in Numbers /\ x \in [DOMAIN x -> Row]
  BY <1>1, ItemsAre
<1>3. /\ \A i \in DOMAIN x : x[i] \in Row /\ x[i].request = FALSE
  BY <1>2 DEF Standard, Row
<1>4. ASSUME NEW i \in DOMAIN x, NEW j \in DOMAIN x, x[i].line = x[j].line
      PROVE  i = j
  <2>1. Signature(x[i]) = Signature(x[j])
    BY <1>3, <1>4 DEF Signature
  <2> QED BY <2>1 DEF Standard, Distinct
<1> QED BY <1>2, <1>3, <1>4

(* And when a list of rows is one.                                          *)
LEMMA IsStandard ==
    ASSUME NEW y, DOMAIN y \in Numbers, y \in [DOMAIN y -> Row],
           \A i \in DOMAIN y : /\ y[i].request = FALSE,
           \A i, j \in DOMAIN y : y[i].line = y[j].line => i = j
    PROVE  y \in Standard
<1>1. y \in Items
  BY ItemsAre
<1>2. Distinct(y)
  BY DEF Distinct, Signature
<1> QED BY <1>1, <1>2 DEF Standard

(* The cart that was just created is one.                                   *)
LEMMA EmptyStandard == Empty \in Standard
<1>1. Empty \in Items
  BY EmptyIsHeld DEF Held
<1>2. DOMAIN Empty = {}
  BY DEF Empty
<1> QED BY <1>1, <1>2 DEF Standard, Distinct

(* addItem finds the row of the line, or there is none.                     *)
LEMMA WithItemStandard ==
    ASSUME NEW choice \in Choice, ~choice.request, NEW x \in Standard
    PROVE  WithItem(x, choice) \in Standard
<1> DEFINE row == [line |-> choice.line, request |-> choice.request,
                   extras |-> choice.extras, quantity |-> 1]
           n == Last(x) + 1
<1>1. /\ row \in Row /\ row.line = choice.line
      /\ row.request = FALSE
  BY ChoiceAssumption DEF Row, Line
<1>2. /\ DOMAIN x \in Numbers
      /\ x \in [DOMAIN x -> Row]
      /\ \A i \in DOMAIN x : x[i] \in Row /\ x[i].request = FALSE
      /\ \A i, j \in DOMAIN x : x[i].line = x[j].line => i = j
  BY StandardAre
<1> HIDE DEF row
<1>3. CASE Same(x, row) # {}
  <2> DEFINE f == First(Same(x, row))
             y == [x EXCEPT ![f].quantity = @ + 1]
  <2>1. f \in Same(x, row)
    BY <1>2, <1>3, FirstIsOne DEF Same, Numbers
  <2>2. f \in DOMAIN x
    BY <2>1 DEF Same
  <2> HIDE DEF f
  <2>3. /\ DOMAIN y = DOMAIN x
        /\ \A i \in DOMAIN x : /\ y[i] \in Row
                               /\ y[i].line = x[i].line
                               /\ y[i].request = x[i].request
                               /\ y[i].extras = x[i].extras
    BY <1>2, <2>2 DEF Row
  <2>4. y \in [DOMAIN y -> Row]
    BY <1>2, <2>2 DEF Row
  <2>5. WithItem(x, choice) = y
    BY <1>3 DEF WithItem, row, f
  <2> HIDE DEF y
  <2>6. y \in Standard
    BY <1>2, <2>3, <2>4, IsStandard
  <2> QED BY <2>5, <2>6
<1>4. CASE Same(x, row) = {}
  <2> DEFINE D == DOMAIN x \cup {n}
             y == [i \in D |-> IF i \in DOMAIN x THEN x[i] ELSE row]
  <2>1. n \in Nat /\ \A i \in DOMAIN x : i <= n
    BY <1>2, LastIsLast DEF Numbers
  <2>2. WithItem(x, choice) = y
    BY <1>4 DEF WithItem, row
  <2> HIDE DEF n
  <2>3. D \in Numbers
    BY <1>2, <2>1 DEF Numbers
  <2>4. y \in [D -> Row] /\ DOMAIN y = D
    BY <1>1, <1>2
  <2>5. \A i \in DOMAIN x : x[i].line # row.line
    BY <1>1, <1>2, <1>4 DEF Same, Signature, Row
  <2>6. \A i \in D : y[i].request = FALSE
    BY <1>1, <1>2
  <2>7. ASSUME NEW i \in D, NEW j \in D, y[i].line = y[j].line
        PROVE  i = j
    <3>1. CASE i \in DOMAIN x /\ j \in DOMAIN x
      BY <1>2, <2>7, <3>1
    <3>2. CASE i \notin DOMAIN x \/ j \notin DOMAIN x
      BY <2>5, <2>7, <3>2
    <3> QED BY <3>1, <3>2
  <2> HIDE DEF y, D
  <2>8. y \in Standard
    BY <2>3, <2>4, <2>6, <2>7, IsStandard
  <2> QED BY <2>2, <2>8
<1> QED BY <1>3, <1>4

(* updateItemQuantity: the same rows, but for those of none.                *)
LEMMA WithQuantityStandard ==
    ASSUME NEW x \in Standard, NEW row, NEW n \in Nat
    PROVE  WithQuantity(x, row, n) \in Standard
<1> DEFINE after(i) == IF i \in Same(x, row) THEN n ELSE x[i].quantity
           D == {i \in DOMAIN x : after(i) > 0}
           y == [i \in D |->
                    [x[i] EXCEPT !.quantity = after(i), !.request = FALSE]]
<1>1. /\ DOMAIN x \in Numbers
      /\ \A i \in DOMAIN x : x[i] \in Row
      /\ \A i, j \in DOMAIN x : x[i].line = x[j].line => i = j
  BY StandardAre
<1>2. \A i \in DOMAIN x : after(i) \in Nat
  BY <1>1 DEF Row
<1>3. y = WithQuantity(x, row, n)
  BY DEF WithQuantity
<1>4. D \in Numbers /\ DOMAIN y = D
  BY <1>1 DEF Numbers
<1> HIDE DEF after
<1>9. \A i \in D : i \in DOMAIN x /\ after(i) > 0
  OBVIOUS
<1>11. \A i \in D :
          y[i] = [x[i] EXCEPT !.quantity = after(i), !.request = FALSE]
  OBVIOUS
<1>10. y = [i \in D |-> y[i]]
  OBVIOUS
<1> HIDE DEF y, D
<1>5. ASSUME NEW i \in D
      PROVE  /\ y[i] \in Row /\ y[i].line = x[i].line
             /\ y[i].request = FALSE
  <2>1. /\ x[i] \in Row /\ after(i) \in Nat \ {0}
    BY <1>1, <1>2, <1>9
  <2>2. y[i] = [x[i] EXCEPT !.quantity = after(i), !.request = FALSE]
    BY <1>11, Zenon
  <2>3. y[i] = [line |-> x[i].line, request |-> FALSE, extras |-> x[i].extras,
                quantity |-> after(i)]
    BY <2>1, <2>2 DEF Row
  <2>4. /\ y[i].extras = x[i].extras
        /\ y[i].line = x[i].line /\ y[i].request = FALSE
    BY <2>3
  <2>5. y[i] \in Row
    BY <2>1, <2>3 DEF Row
  <2> QED BY <2>1, <2>4, <2>5
<1>6. y \in [D -> Row]
  BY <1>5, <1>10
<1>7. \A i, j \in D : y[i].line = y[j].line => i = j
  BY <1>1, <1>5, <1>9
<1>8. y \in Standard
  BY <1>4, <1>5, <1>6, <1>7, IsStandard
<1> QED BY <1>3, <1>8

(* persistAttendeesInCart: the same rows.                                   *)
LEMMA WithAttendeesStandard ==
    ASSUME NEW x \in Standard
    PROVE  WithAttendees(x) \in Standard
<1> DEFINE y == WithAttendees(x)
<1>1. /\ DOMAIN x \in Numbers
      /\ \A i \in DOMAIN x : x[i] \in Row
      /\ \A i, j \in DOMAIN x : x[i].line = x[j].line => i = j
  BY StandardAre
<1>2. DOMAIN y = DOMAIN x
  BY DEF WithAttendees
<1>3. \A i \in DOMAIN x : /\ y[i] \in Row /\ y[i].line = x[i].line
                          /\ y[i].request = FALSE
  BY <1>1 DEF WithAttendees, Row
<1>6. y = [i \in DOMAIN x |-> y[i]]
  BY DEF WithAttendees
<1> HIDE DEF y
<1>4. y \in [DOMAIN y -> Row]
  BY <1>2, <1>3, <1>6
<1>5. y \in Standard
  BY <1>1, <1>2, <1>3, <1>4, IsStandard
<1> QED BY <1>5 DEF y

(* Of the choices on their way none is on request.                         *)
Unrequested == \A s \in Slot : \A c \in call[s].choice : ~c.request

(* They are not as long as nothing of the shop is, or the shopper is calm,  *)
(* who asks for nothing on request.                                         *)
NoRequest == calm' \/ \A c \in Choice : ~c.request

(* Adding and editing send such lists.                                      *)
LEMMA EditsStandard ==
    ASSUME NoRequest, Typed(Standard), NEW t \in Tab,
           \E s \in Slot :
              \/ \E choice \in Choice : Add(t, choice, s)
              \/ \E i \in DOMAIN drawer[t].cart.items : SetQuantity(t, i, s)
    PROVE  Typed(Standard)'
<1>1. PICK H : H = Standard
  OBVIOUS
<1>2. Typed(H) /\ Empty \in H
  BY <1>1, EmptyStandard
<1>3. PICK x \in H, id \in Nat : drawer[t].cart.items = x /\ drawer[t].cart.id = id
  BY <1>2 DEF Typed, Drawers, Copies
<1>4. wanted \in Wants /\ call \in [Slot -> Calls(H)]
  BY <1>2 DEF Typed
<1>5. drawer' = [drawer EXCEPT ![t].syncing = TRUE] =>
         drawer' \in [Tab -> Drawers(H)]
  BY <1>2 DEF Typed, Drawers
<1>6. ASSUME NEW s \in Slot, NEW choice \in Choice, Add(t, choice, s)
      PROVE  Typed(H)'
  <2>1. PICK want \in Wants :
                want = [wanted EXCEPT ![choice.line] = {w + 1 : w \in @}]
    <3>1. choice.line \in Line
      BY DEF Line
    <3>2. {w + 1 : w \in wanted[choice.line]} \in SUBSET Nat
      BY <1>4, <3>1 DEF Wants
    <3>3. [wanted EXCEPT ![choice.line] = {w + 1 : w \in @}] \in Wants
      BY <1>4, <3>1, <3>2 DEF Wants
    <3> QED BY <3>3
  <2>2. PICK op \in Op, m \in Nat, items \in H :
              SendEdit(s, op, t, m, items, {choice}, want)
    <3>1. CASE id = 0
      <4>1. SendEdit(s, "create", t, 0, Empty, {choice}, want)
        BY <1>3, <1>6, <2>1, <3>1 DEF Add
      <4> QED BY <1>2, <4>1 DEF Op
    <3>2. CASE id # 0
      <4>1. SendEdit(s, "patch", t, id, WithItem(x, choice), {choice}, want)
        BY <1>3, <1>6, <2>1, <3>2 DEF Add
      <4>2. ~choice.request
        BY <1>6 DEF NoRequest, Add, Expect
      <4>3. WithItem(x, choice) \in H
        BY <1>1, <4>2, WithItemStandard
      <4> QED BY <4>1, <4>3 DEF Op
    <3> QED BY <3>1, <3>2
  <2>3. call' \in [Slot -> Calls(H)]
    BY <1>2, <1>4, <2>2, EditSent
  <2>4. wanted' \in Wants /\ calm' \in BOOLEAN
    <3>1. PICK calmly \in BOOLEAN : Expect(calmly, wanted)
      BY <1>6 DEF Add, Settled
    <3> QED BY <1>2, <3>1, ExpectTyped DEF Typed
  <2> QED BY <1>2, <1>5, <1>6, <2>3, <2>4 DEF Add, Typed
<1>7. ASSUME NEW s \in Slot, NEW i \in DOMAIN x, SetQuantity(t, i, s)
      PROVE  Typed(H)'
  <2>1. PICK row \in Row : row = x[i]
    BY <1>1, StandardAre
  <2>2. PICK n \in {0, row.quantity - 1, row.quantity + 1} :
                /\ Does("edit", {})
                /\ SendEdit(s, "patch", t, id, WithQuantity(x, row, n), {},
                            [wanted EXCEPT ![row.line] = {n}])
    BY <1>3, <1>7, <2>1 DEF SetQuantity
  <2>3. n \in Nat
    BY <2>1, <2>2 DEF Row
  <2>4. PICK items \in H : items = WithQuantity(x, row, n)
    BY <1>1, <2>3, WithQuantityStandard
  <2>5. PICK want \in Wants : want = [wanted EXCEPT ![row.line] = {n}]
    BY <1>4, <2>3 DEF Wants
  <2>6. SendEdit(s, "patch", t, id, items, {}, want)
    BY <2>2, <2>4, <2>5
  <2>7. call' \in [Slot -> Calls(H)]
    BY <1>2, <1>4, <2>6, EditSent DEF Op
  <2>8. wanted' \in Wants /\ calm' \in BOOLEAN
    BY <1>2, <2>2, DoesTyped DEF Typed
  <2> QED BY <1>2, <1>5, <1>7, <2>7, <2>8 DEF SetQuantity, Typed
<1>8. Typed(H)'
  BY <1>3, <1>6, <1>7
<1> QED BY <1>1, <1>8 DEF Typed

(* Every step keeps them.                                                   *)
LEMMA NextStandard ==
    ASSUME NoRequest, Unrequested, IInv, Typed(Standard), [Next]_vars
    PROVE  Typed(Standard)'
<1>1. PICK H : H = Standard
  OBVIOUS
<1>2. /\ Typed(H) /\ KnownCarts /\ KnownCalls /\ Empty \in H
      /\ \A x \in H : WithAttendees(x) \in H
      /\ \A x \in Choice : ~x.request => WithItem(Empty, x) \in H
  BY <1>1, EmptyStandard, WithAttendeesStandard, WithItemStandard DEF IInv
<1>3. ASSUME NEW t \in Tab, Shopper(t)
      PROVE  Typed(Standard)'
  <2>1. CASE \E s \in Slot :
                \/ \E choice \in Choice : Add(t, choice, s)
                \/ \E i \in DOMAIN drawer[t].cart.items : SetQuantity(t, i, s)
    BY <2>1, EditsStandard
  <2>2. CASE \/ \E s \in Slot : \/ LogIn(t, s) \/ OnCartStorage(t, s)
                                \/ Reopen(t, s) \/ Submit(t, s)
             \/ CheckoutClick(t) \/ CloseModal(t)
             \/ \E o \in DOMAIN orders : PaymentDone(t, o)
    <3>1. Typed(H)'
      BY <1>2, <2>2, OthersTyped
    <3> QED BY <1>1, <3>1 DEF Typed
  <2> QED BY <1>3, <2>1, <2>2 DEF Shopper
<1>4. ASSUME NEW s \in Slot, Server(s) \/ Answer(s)
      PROVE  Typed(Standard)'
  <2>1. \A x \in call[s].choice : WithItem(Empty, x) \in H
    BY <1>2 DEF Unrequested, Typed, Calls
  <2>2. Typed(H)'
    BY <1>2, <1>4, <2>1, ServerTyped, AnswerTyped
  <2> QED BY <1>1, <2>2 DEF Typed
<1>5. CASE UNCHANGED vars
  BY <1>5 DEF Typed, vars, ghosts
<1> QED BY <1>3, <1>4, <1>5 DEF Next

(* Nor does a step send off what is on request.                             *)
LEMMA NextUnrequested ==
    ASSUME NoRequest, Unrequested, IInv, [Next]_vars
    PROVE  Unrequested'
<1>1. PICK H : call \in [Slot -> Calls(H)]
  BY DEF IInv, Typed
<1>2. Idle.choice = {}
  BY DEF Idle
<1>3. ASSUME NEW s \in Slot, NEW op, NEW t, NEW id, NEW items, NEW choice,
             NEW want, SendEdit(s, op, t, id, items, choice, want),
             \A x \in choice : ~x.request
      PROVE  Unrequested'
  <2>1. PICK w : w = IF calm' THEN want ELSE <<>>
    OBVIOUS
  <2>2. PICK d : d = [Idle EXCEPT !.op = op, !.stage = "sent", !.tab = t,
                         !.id = id, !.items = items, !.choice = choice,
                         !.want = w]
    OBVIOUS
  <2>3. d.choice = choice
    BY <2>2 DEF Idle
  <2>4. call' = [call EXCEPT ![s] = d]
    BY <1>3, <2>1, <2>2 DEF SendEdit
  <2> QED BY <1>1, <1>3, <2>3, <2>4 DEF Unrequested
<1>4. ASSUME \A r \in Slot : call'[r].choice \in {{}, call[r].choice}
      PROVE  Unrequested'
  BY <1>4 DEF Unrequested
<1>8. ASSUME NEW s \in Slot, NEW op, NEW t, NEW id, NEW items,
             Send(s, op, t, id, items)
      PROVE  Unrequested'
  <2>1. PICK d : d = [Idle EXCEPT !.op = op, !.stage = "sent", !.tab = t,
                         !.id = id, !.items = items]
    OBVIOUS
  <2>2. d.choice = {} /\ call' = [call EXCEPT ![s] = d]
    BY <1>8, <2>1 DEF Send, Idle
  <2>3. call'[s] = d /\ \A r \in Slot \ {s} : call'[r] = call[r]
    BY <1>1, <2>2
  <2> QED BY <1>4, <2>2, <2>3
<1>5. ASSUME NEW t \in Tab, Shopper(t)
      PROVE  Unrequested'
  <2>1. ASSUME NEW s \in Slot, NEW choice \in Choice, Add(t, choice, s)
        PROVE  Unrequested'
    <3>1. ~choice.request
      BY <2>1 DEF NoRequest, Add, Expect
    <3>2. \E op, id, items, want :
             SendEdit(s, op, t, id, items, {choice}, want)
      BY <2>1 DEF Add
    <3> QED BY <1>3, <3>1, <3>2
  <2>2. ASSUME NEW s \in Slot, NEW i \in DOMAIN drawer[t].cart.items,
               SetQuantity(t, i, s)
        PROVE  Unrequested'
    <3>1. \E op, id, items, want : SendEdit(s, op, t, id, items, {}, want)
      BY <2>2 DEF SetQuantity
    <3> QED BY <1>3, <3>1
  <2>3. ASSUME NEW s \in Slot, LogIn(t, s) \/ OnCartStorage(t, s) \/ Submit(t, s)
        PROVE  Unrequested'
    <3>1. \/ UNCHANGED call
          \/ \E op, id, items : Send(s, op, t, id, items)
      BY <2>3 DEF LogIn, OnCartStorage, Load, Submit
    <3> QED BY <1>4, <1>8, <3>1
  <2>4. ASSUME NEW s \in Slot, Reopen(t, s)
        PROVE  Unrequested'
    <3>1. \A r \in Slot : call'[r].choice \in {{}, call[r].choice}
      BY <1>1, <2>4 DEF Reopen, Idle, Calls
    <3> QED BY <1>4, <3>1
  <2>5. CASE \/ CheckoutClick(t) \/ CloseModal(t)
             \/ \E o \in DOMAIN orders : PaymentDone(t, o)
    <3>1. UNCHANGED call
      BY <2>5 DEF CheckoutClick, CloseModal, PaymentDone
    <3> QED BY <1>4, <3>1
  <2> QED BY <1>5, <2>1, <2>2, <2>3, <2>4, <2>5 DEF Shopper
<1>6. ASSUME NEW s \in Slot, Server(s) \/ Answer(s)
      PROVE  Unrequested'
  <2>1. ASSUME \/ \E id, items : Answered(s, id, items)
               \/ call' = [call EXCEPT ![s].stage = "failed"]
               \/ Fail(s) \/ Created(s) \/ Persisted(s)
        PROVE  Unrequested'
    <3>1. PICK c \in Calls(H) : c = call[s]
      BY <1>1
    <3>2. PICK d : call' = [call EXCEPT ![s] = d] /\ d.choice = c.choice
      <4>1. CASE \E id, items : Answered(s, id, items)
        <5>1. PICK reply : call' = [call EXCEPT ![s].stage = "served",
                                               ![s].reply = reply]
          BY <4>1 DEF Answered
        <5>2. PICK d : d = [c EXCEPT !.stage = "served", !.reply = reply]
          OBVIOUS
        <5>3. call' = [call EXCEPT ![s] = d]
          BY <1>1, <3>1, <5>1, <5>2
        <5>4. d.choice = c.choice
          BY <5>2 DEF Calls
        <5> QED BY <5>3, <5>4
      <4>2. CASE call' = [call EXCEPT ![s].stage = "failed"]
        <5>1. PICK d : d = [c EXCEPT !.stage = "failed"]
          OBVIOUS
        <5>2. call' = [call EXCEPT ![s] = d]
          BY <1>1, <3>1, <4>2, <5>1
        <5>4. d.choice = c.choice
          BY <5>1 DEF Calls
        <5> QED BY <5>2, <5>4
      <4>3. CASE Fail(s)
        <5>1. PICK d : d = [c EXCEPT !.stage = "failed", !.reply = NoCart]
          OBVIOUS
        <5>2. call' = [call EXCEPT ![s] = d]
          BY <1>1, <3>1, <4>3, <5>1 DEF Fail
        <5>4. d.choice = c.choice
          BY <5>1 DEF Calls
        <5> QED BY <5>2, <5>4
      <4>4. CASE Created(s)
        <5>1. PICK id, items :
                 call' = [call EXCEPT ![s] = [@ EXCEPT !.op = "patch",
                            !.stage = "sent", !.id = id, !.items = items,
                            !.reply = NoCart]]
          BY <4>4 DEF Created
        <5>2. PICK d : d = [c EXCEPT !.op = "patch", !.stage = "sent",
                               !.id = id, !.items = items, !.reply = NoCart]
          OBVIOUS
        <5>3. call' = [call EXCEPT ![s] = d]
          BY <1>1, <3>1, <5>1, <5>2
        <5>4. d.choice = c.choice
          BY <5>2 DEF Calls
        <5> QED BY <5>3, <5>4
      <4>5. CASE Persisted(s)
        <5>1. PICK d : d = [c EXCEPT !.op = "start", !.stage = "sent",
                               !.reply = NoCart]
          OBVIOUS
        <5>2. call' = [call EXCEPT ![s] = d]
          BY <1>1, <3>1, <4>5, <5>1 DEF Persisted
        <5>4. d.choice = c.choice
          BY <5>1 DEF Calls
        <5> QED BY <5>2, <5>4
      <4> QED BY <2>1, <4>1, <4>2, <4>3, <4>4, <4>5
    <3>3. \A r \in Slot : call'[r].choice = call[r].choice
      BY <1>1, <3>1, <3>2
    <3> QED BY <1>4, <3>3
  <2>2. ASSUME Finish(s)
        PROVE  Unrequested'
    <3>1. \A r \in Slot : call'[r].choice \in {{}, call[r].choice}
      BY <1>1, <1>2, <2>2 DEF Finish
    <3> QED BY <1>4, <3>1
  <2>3. CASE Server(s)
    BY <2>1, <2>3 DEF Server, ServeCreate, ServeUpdate, ServeRead, ServeCheckout
  <2>4. CASE Answer(s)
    BY <2>1, <2>2, <2>4 DEF Answer, Updated, EditFailed, Loaded, Merged,
                            Submitted, Ignored
  <2> QED BY <1>6, <2>3, <2>4
<1>7. CASE UNCHANGED vars
  BY <1>4, <1>7 DEF vars
<1> QED BY <1>5, <1>6, <1>7 DEF Next

(* There are none at first.                                                 *)
LEMMA InitStandard ==
    ASSUME Init
    PROVE  Typed(Standard) /\ Unrequested
<1>1. PICK H : H = Standard /\ Empty \in H
  BY EmptyStandard
<1>2. NoCart \in Copies(H)
  BY <1>1 DEF NoCart, Copies
<1>3. NewDrawer \in Drawers(H) /\ Closed \in Modals(H) /\ Idle \in Calls(H)
  BY <1>1, <1>2
     DEF NewDrawer, Closed, Idle, Drawers, Modals, Calls, Op, Stage
<1>4. Typed(H)
  BY <1>3 DEF Init, Typed, Wants
<1>5. Unrequested
  BY DEF Init, Unrequested, Idle
<1> QED BY <1>1, <1>4, <1>5

(* A cart has one row of a line, whatever the tabs do and whatever is lost, *)
(* as long as nothing in the shop is on request: addItem finds the row by   *)
(* its signature, and no edit makes two rows alike.                         *)
THEOREM RowsDistinct ==
    ASSUME \A c \in Choice : ~c.request
    PROVE  Spec => []RowsStayDistinct
<1>1. Init => IInv
  BY InitIInv
<1>2. IInv /\ [Next]_vars => IInv'
  BY Invariance
<1>3. Init => Typed(Standard)
  BY InitStandard
<1>4. IInv /\ Typed(Standard) /\ [Next]_vars => Typed(Standard)'
  <2>1. Typed(Standard) => Unrequested
    BY DEF Typed, Calls, Unrequested
  <2> QED BY <2>1, NextStandard DEF NoRequest
<1>5. Typed(Standard) => RowsStayDistinct
  BY DEF Typed, Standard, Distinct, RowsStayDistinct
<1> QED BY <1>1, <1>2, <1>3, <1>4, <1>5, PTL DEF Spec

-----------------------------------------------------------------------------
(* What a shopper sees of a line.                                           *)

(* The quantity of a row is that of its line.                               *)
LEMMA QuantityIs ==
    ASSUME NEW x \in Standard, NEW i \in DOMAIN x
    PROVE  Quantity(x, x[i].line) = x[i].quantity
<1> DEFINE j == CHOOSE j \in DOMAIN x : x[j].line = x[i].line
<1>1. j \in DOMAIN x /\ x[j].line = x[i].line
  OBVIOUS
<1>2. j = i
  BY <1>1, StandardAre
<1> HIDE DEF j
<1>3. Quantity(x, x[i].line) = x[j].quantity
  BY DEF Quantity, j
<1> QED BY <1>2, <1>3

(* A line without a row has none.                                           *)
LEMMA QuantityNone ==
    ASSUME NEW x, NEW l, \A i \in DOMAIN x : x[i].line # l
    PROVE  Quantity(x, l) = 0
BY DEF Quantity

(* A quantity is a number.                                                  *)
LEMMA QuantityTyped ==
    ASSUME NEW x \in Standard, NEW l
    PROVE  Quantity(x, l) \in Nat
<1>1. CASE \E i \in DOMAIN x : x[i].line = l
  <2>1. PICK i \in DOMAIN x : x[i].line = l
    BY <1>1
  <2>2. x[i].quantity \in Nat
    BY StandardAre DEF Row
  <2> QED BY <2>1, <2>2, QuantityIs
<1>2. CASE \A i \in DOMAIN x : x[i].line # l
  BY <1>2, QuantityNone
<1> QED BY <1>1, <1>2

LEMMA QuantityOfEmpty ==
    ASSUME NEW l PROVE Quantity(Empty, l) = 0
BY QuantityNone DEF Empty

(* addItem: one more of the line.                                           *)
LEMMA QuantityAdded ==
    ASSUME NEW choice \in Choice, ~choice.request, NEW x \in Standard, NEW l
    PROVE  Quantity(WithItem(x, choice), l) =
               IF l = choice.line THEN Quantity(x, l) + 1 ELSE Quantity(x, l)
<1> DEFINE row == [line |-> choice.line, request |-> choice.request,
                   extras |-> choice.extras, quantity |-> 1]
           n == Last(x) + 1
           z == WithItem(x, choice)
<1> SUFFICES Quantity(z, l) =
                 IF l = choice.line THEN Quantity(x, l) + 1 ELSE Quantity(x, l)
  OBVIOUS
<1>1. row.line = choice.line /\ row.request = FALSE /\ row.quantity = 1
  BY ChoiceAssumption
<1>2. /\ DOMAIN x \in Numbers
      /\ \A i \in DOMAIN x : x[i] \in Row /\ x[i].request = FALSE
  BY StandardAre
<1>3. z \in Standard
  BY WithItemStandard
<1> HIDE DEF row
<1>4. CASE Same(x, row) # {}
  <2> DEFINE f == First(Same(x, row))
             y == [x EXCEPT ![f].quantity = @ + 1]
  <2>1. f \in Same(x, row)
    BY <1>2, <1>4, FirstIsOne DEF Same, Numbers
  <2>2. f \in DOMAIN x /\ x[f].line = choice.line
    BY <1>1, <2>1 DEF Same, Signature
  <2>3. z = y
    BY <1>4 DEF WithItem, row
  <2> HIDE DEF f
  <2>4. /\ DOMAIN y = DOMAIN x
        /\ \A i \in DOMAIN x : y[i].line = x[i].line
        /\ \A i \in DOMAIN x : i # f => y[i].quantity = x[i].quantity
        /\ y[f].quantity = x[f].quantity + 1
    BY <1>2, <2>2 DEF Row
  <2> HIDE DEF y, z
  <2>5. CASE l = choice.line
    <3>1. Quantity(x, l) = x[f].quantity /\ Quantity(z, l) = y[f].quantity
      BY <1>3, <2>2, <2>3, <2>4, <2>5, QuantityIs
    <3> QED BY <2>4, <2>5, <3>1
  <2>6. CASE l # choice.line /\ \E i \in DOMAIN x : x[i].line = l
    <3>1. PICK i \in DOMAIN x : x[i].line = l
      BY <2>6
    <3>2. Quantity(x, l) = x[i].quantity /\ Quantity(z, l) = y[i].quantity
      BY <1>3, <2>3, <2>4, <3>1, QuantityIs
    <3> QED BY <2>2, <2>4, <2>6, <3>1, <3>2
  <2>7. CASE l # choice.line /\ \A i \in DOMAIN x : x[i].line # l
    <3>1. Quantity(x, l) = 0 /\ Quantity(z, l) = 0
      BY <2>3, <2>4, <2>7, QuantityNone
    <3> QED BY <2>7, <3>1
  <2> QED BY <2>5, <2>6, <2>7
<1>5. CASE Same(x, row) = {}
  <2> DEFINE D == DOMAIN x \cup {n}
             y == [i \in D |-> IF i \in DOMAIN x THEN x[i] ELSE row]
  <2>8. Last(x) \in Nat /\ \A i \in DOMAIN x : i <= Last(x)
    BY <1>2, LastIsLast
  <2>1. n \notin DOMAIN x
    BY <2>8
  <2>2. z = y
    BY <1>5 DEF WithItem, row
  <2> HIDE DEF n
  <2>3. /\ DOMAIN y = D /\ n \in D
        /\ \A i \in DOMAIN x : i \in D /\ y[i] = x[i]
        /\ y[n] = row
        /\ \A i \in D : i = n \/ i \in DOMAIN x
    BY <2>1
  <2>4. \A i \in DOMAIN x : x[i].line # choice.line
    BY <1>1, <1>2, <1>5 DEF Same, Signature
  <2> HIDE DEF y, z, D
  <2>5. CASE l = choice.line
    <3>1. Quantity(x, l) = 0
      BY <2>4, <2>5, QuantityNone
    <3>2. Quantity(z, l) = 1
      BY <1>1, <1>3, <2>2, <2>3, <2>5, QuantityIs
    <3> QED BY <2>5, <3>1, <3>2
  <2>6. CASE l # choice.line /\ \E i \in DOMAIN x : x[i].line = l
    <3>1. PICK i \in DOMAIN x : x[i].line = l
      BY <2>6
    <3>2. Quantity(x, l) = x[i].quantity /\ Quantity(z, l) = y[i].quantity
      BY <1>3, <2>2, <2>3, <3>1, QuantityIs
    <3> QED BY <2>3, <2>6, <3>2
  <2>7. CASE l # choice.line /\ \A i \in DOMAIN x : x[i].line # l
    <3>1. \A i \in D : y[i].line # l
      BY <1>1, <2>3, <2>7
    <3>2. Quantity(x, l) = 0 /\ Quantity(z, l) = 0
      BY <2>2, <2>3, <2>7, <3>1, QuantityNone
    <3> QED BY <2>7, <3>2
  <2> QED BY <2>5, <2>6, <2>7
<1> QED BY <1>4, <1>5

(* updateItemQuantity: the quantity asked for of the line of the row.       *)
LEMMA QuantitySet ==
    ASSUME NEW x \in Standard, NEW k \in DOMAIN x, NEW n \in Nat, NEW l
    PROVE  Quantity(WithQuantity(x, x[k], n), l) =
               IF l = x[k].line THEN n ELSE Quantity(x, l)
<1> DEFINE z == WithQuantity(x, x[k], n)
           after(i) == IF i \in Same(x, x[k]) THEN n ELSE x[i].quantity
           D == {i \in DOMAIN x : after(i) > 0}
           y == [i \in D |->
                    [x[i] EXCEPT !.quantity = after(i), !.request = FALSE]]
<1>14. y = z
  BY DEF WithQuantity
<1> HIDE DEF after
<1>15. \A i \in D :
          y[i] = [x[i] EXCEPT !.quantity = after(i), !.request = FALSE]
  OBVIOUS
<1>1. /\ \A i \in DOMAIN x : x[i] \in Row
      /\ \A i, j \in DOMAIN x : x[i].line = x[j].line => i = j
  BY StandardAre
<1>2. z \in Standard
  BY WithQuantityStandard
<1>16. k \in DOMAIN x
  OBVIOUS
<1>3. \A i \in DOMAIN x : i \in Same(x, x[k]) <=> i = k
  BY <1>1 DEF Same, Signature
<1>17. DOMAIN y = D
  OBVIOUS
<1> HIDE DEF y
<1>4. DOMAIN z = D
  BY <1>14, <1>17
<1>5. ASSUME NEW i \in D
      PROVE  z[i].line = x[i].line /\ z[i].quantity = after(i)
  <2>1. z[i] = [x[i] EXCEPT !.quantity = after(i), !.request = FALSE]
    BY <1>14, <1>15, Zenon
  <2>2. x[i] \in Row
    BY <1>1
  <2> HIDE DEF z
  <2> QED BY <2>1, <2>2 DEF Row
<1>6. after(k) = n /\ \A i \in DOMAIN x \ {k} : after(i) = x[i].quantity
  BY <1>3, <1>16 DEF after
<1>7. \A i \in DOMAIN x : x[i].quantity \in Nat \ {0}
  BY <1>1 DEF Row
<1>8. \A i \in DOMAIN x : i \in D <=> after(i) > 0
  OBVIOUS
<1>9. D \subseteq DOMAIN x
  OBVIOUS
<1> HIDE DEF z, D
<1>10. CASE l = x[k].line /\ n > 0
  <2>1. k \in DOMAIN z /\ z[k].line = l /\ z[k].quantity = n
    BY <1>4, <1>5, <1>6, <1>8, <1>10
  <2>2. Quantity(z, l) = n
    BY <1>2, <2>1, QuantityIs
  <2> QED BY <1>10, <2>2 DEF z
<1>11. CASE l = x[k].line /\ n = 0
  <2>1. k \notin D
    BY <1>6, <1>8, <1>11
  <2>2. \A i \in DOMAIN z : z[i].line # l
    BY <1>1, <1>4, <1>5, <1>9, <1>11, <2>1
  <2>3. Quantity(z, l) = 0
    BY <2>2, QuantityNone
  <2> QED BY <1>11, <2>3 DEF z
<1>12. CASE l # x[k].line /\ \E i \in DOMAIN x : x[i].line = l
  <2>1. PICK i \in DOMAIN x : x[i].line = l
    BY <1>12
  <2>2. i # k
    BY <1>12, <2>1
  <2>3. i \in DOMAIN z /\ z[i].line = l /\ z[i].quantity = x[i].quantity
    BY <1>4, <1>5, <1>6, <1>7, <1>8, <2>1, <2>2
  <2>4. Quantity(z, l) = Quantity(x, l)
    BY <1>2, <2>1, <2>3, QuantityIs
  <2> QED BY <1>12, <2>4 DEF z
<1>13. CASE l # x[k].line /\ \A i \in DOMAIN x : x[i].line # l
  <2>1. \A i \in DOMAIN z : z[i].line # l
    BY <1>4, <1>5, <1>9, <1>13
  <2>2. Quantity(z, l) = 0 /\ Quantity(x, l) = 0
    BY <1>13, <2>1, QuantityNone
  <2> QED BY <1>13, <2>2 DEF z
<1> QED BY <1>10, <1>11, <1>12, <1>13

(* Lists like one list are alike.                                           *)
LEMMA AlikeAll ==
    ASSUME NEW x, NEW y, NEW z, Alike(y, x), Alike(z, x)
    PROVE  Alike(y, z) /\ Alike(x, y) /\ Alike(y, y)
BY DEF Alike

(* persistAttendeesInCart: no other quantities, and the same rows but for   *)
(* the extra selections.                                                    *)
LEMMA QuantityFilled ==
    ASSUME NEW x \in Standard
    PROVE  /\ \A l : Quantity(WithAttendees(x), l) = Quantity(x, l)
           /\ Alike(WithAttendees(x), x)
<1> DEFINE z == WithAttendees(x)
<1>1. /\ x \in [DOMAIN x -> Row]
      /\ \A i \in DOMAIN x : x[i] \in Row /\ x[i].request = FALSE
  BY StandardAre
<1>2. z \in Standard
  BY WithAttendeesStandard
<1>3. DOMAIN z = DOMAIN x /\ z = [i \in DOMAIN x |-> z[i]]
  BY DEF WithAttendees
<1>4. ASSUME NEW i \in DOMAIN x
      PROVE  /\ z[i].line = x[i].line /\ z[i].quantity = x[i].quantity
             /\ z[i].request = x[i].request
  <2>1. z[i] = [x[i] EXCEPT !.request = FALSE, !.extras = FALSE]
    BY DEF WithAttendees
  <2>2. x[i] \in Row /\ x[i].request = FALSE
    BY <1>1
  <2> HIDE DEF z
  <2>3. z[i] = [line |-> x[i].line, request |-> FALSE, extras |-> FALSE,
                quantity |-> x[i].quantity]
    BY <2>1, <2>2 DEF Row
  <2>4. /\ z[i].line = x[i].line /\ z[i].quantity = x[i].quantity
        /\ z[i].request = FALSE
    BY <2>3
  <2> QED BY <2>2, <2>4
<1> HIDE DEF z
<1>5. ASSUME NEW l
      PROVE  Quantity(z, l) = Quantity(x, l)
  <2>1. CASE \E i \in DOMAIN x : x[i].line = l
    <3>1. PICK i \in DOMAIN x : x[i].line = l
      BY <2>1
    <3> QED BY <1>2, <1>3, <1>4, <3>1, QuantityIs
  <2>2. CASE \A i \in DOMAIN x : x[i].line # l
    <3>1. \A i \in DOMAIN z : z[i].line # l
      BY <1>3, <1>4, <2>2
    <3>2. Quantity(z, l) = 0 /\ Quantity(x, l) = 0
      BY <2>2, <3>1, QuantityNone
    <3> QED BY <3>2
  <2> QED BY <2>1, <2>2
<1>6. Alike(z, x)
  BY <1>3, <1>4 DEF Alike, Signature
<1> QED BY <1>5, <1>6 DEF z
-----------------------------------------------------------------------------
(* One thing at a time.  As long as a shopper is calm, what is under way is *)
(* one edit, login or checkout, and the loads of tabs that were told of the *)
(* last edit; every list in a tab, a cart or a call is then either the list *)
(* an edit sends, or one the shopper may expect.                            *)

(* A call under way, and one that is more than the loading of a cart.       *)
Out(s) == call[s].stage # "none"
Main(s) == Out(s) /\ call[s].op # "get"
Loads(s) == Out(s) /\ call[s].op = "get"
LoadsFor(t) == \E s \in Slot : Loads(s) /\ call[s].tab = t

(* A checkout is open.                                                      *)
Open == \E t \in Tab : modal[t].open

(* A checkout, and a cart that is created, begin when nothing else goes on, *)
(* and only the checkout goes on while one is open.                         *)
Orderly ==
    /\ \A s, r \in Slot : Main(s) /\ Main(r) => s = r
    /\ \A s, r \in Slot :
          Loads(s) /\ Loads(r) /\ call[s].tab = call[r].tab => s = r
    /\ \A s \in Slot : Out(s) => call[s].tab \in Tab
    /\ \A s \in Slot : Loads(s) => call[s].stage # "failed"
    /\ Open \/ (\E s \in Slot : Out(s) /\ call[s].op \in
                                  {"create", "persist", "start"})
       => pending = {} /\ \A s \in Slot : ~Loads(s)
    /\ Open => \A s \in Slot : Main(s) => call[s].op \in {"persist", "start"}
    /\ storage = 0 => pending = {}

(* The list an edit sends.                                                  *)
Patches ==
    {call[s].items : s \in {s \in Slot : Main(s) /\ call[s].op = "patch"}}

(* What a tab holds, and what it will be given, is the cart in storage and  *)
(* one of the lists L.  A tab that will load the cart may hold anything,    *)
(* and so may the answer to a load that will be repeated.                   *)
CartIn(L) == storage # 0 => carts[storage] \in L

DrawerIn(L, t) ==
    drawer[t].cart.id \in {0, storage} /\ drawer[t].cart.items \in L

DrawersIn(L) ==
    \A t \in Tab : t \in pending \/ LoadsFor(t) \/ DrawerIn(L, t)

ModalsIn(L) ==
    \A t \in Tab : modal[t].open =>
        modal[t].cart.id = storage /\ modal[t].cart.items \in L

CallIn(L, c) ==
    /\ c.op # "create" => c.id = storage
    /\ c.op \in {"persist", "start"} => c.items \in L
    /\ c.op \in {"get", "merge", "persist"} /\ c.stage = "served" =>
          /\ c.reply.id = storage
          /\ (c.op = "get" /\ c.tab \in pending) \/ c.reply.items \in L

CallsIn(L) == \A s \in Slot : Out(s) => CallIn(L, call[s])

(* The quantities of a list are among those of want.                        *)
Fits(items, want) == \A l \in Line : Quantity(items, l) \in want[l]

(* What waits for the cart that is created is as expected.                  *)
Puts(c) ==
    \E x \in Choice : c.choice = {x} /\ Fits(WithItem(Empty, x), c.want)

(* An edit asks for something, so that not knowing whether it was made is   *)
(* not knowing how much of a line there is.  Its tab waits for nothing      *)
(* else, and a cart is created for a drawer without one.                    *)
Edits(c) ==
    /\ \E l \in Line : \E v \in wanted[l] : \E w \in c.want[l] : v # w
    /\ c.op = "patch" =>
          /\ c.tab \notin pending /\ ~LoadsFor(c.tab)
          /\ Fits(c.items, c.want)
          /\ c.stage = "served" =>
                /\ carts[storage] = c.items
                /\ c.reply.id = storage /\ c.reply.items = c.items
    /\ c.op = "create" =>
          /\ drawer[c.tab].cart.id = 0
          /\ Puts(c)
          /\ c.stage = "served" => carts[c.reply.id] = Empty

Editing ==
    \A s \in Slot :
        Out(s) /\ call[s].op \in {"create", "patch"} => Edits(call[s])

(* The lists that no edit has sent are as expected, and are one list if     *)
(* each quantity is known.  A cart is created for a tab without one.        *)
Agreed(B) ==
    /\ \A y \in B : Fits(y, wanted)
    /\ Sure => \A y, z \in B : Alike(y, z)
    /\ (\E s \in Slot : Out(s) /\ call[s].op = "create") => Empty \in B

Shared(B, L) ==
    /\ L = B \cup Patches
    /\ Agreed(B)
    /\ CartIn(L) /\ DrawersIn(L) /\ ModalsIn(L) /\ CallsIn(L)

Aligned == calm => Orderly /\ Editing /\ \E B, L : Shared(B, L)

(* What else holds of the state.                                            *)
Steady == IInv /\ Typed(Standard) /\ Unrequested /\ Aligned

-----------------------------------------------------------------------------
(* How the order of things is kept.                                         *)

(* The calls, after one of them has changed.                                *)
LEMMA CallIs ==
    ASSUME NEW H, Typed(H), NEW s \in Slot, NEW d,
           call' = [call EXCEPT ![s] = d]
    PROVE  call'[s] = d /\ \A r \in Slot \ {s} : call'[r] = call[r]
BY DEF Typed

(* Nothing is under way.                                                    *)
LEMMA OrderlyAtRest ==
    ASSUME \A r \in Slot : ~Out(r)', pending' = {}
    PROVE  Orderly'
BY DEF Orderly, Main, Loads

(* The only call is the first.                                              *)
LEMMA OrderlyFirst ==
    ASSUME NEW s \in Slot, \A r \in Slot \ {s} : ~Out(r)',
           call'[s].stage = "sent", call'[s].tab \in Tab, pending' = {},
           Open' => call'[s].op \in {"persist", "start"},
           call'[s].op = "get" => ~Open'
    PROVE  Orderly'
BY DEF Orderly, Main, Loads, Out

(* A call goes on.                                                          *)
LEMMA OrderlyOn ==
    ASSUME Orderly, NEW s \in Slot, Out(s), Out(s)',
           \A r \in Slot \ {s} : call'[r] = call[r],
           call'[s].tab = call[s].tab,
           call'[s].op = "get" <=> call[s].op = "get",
           call'[s].op = "get" => call'[s].stage # "failed",
           call'[s].op = "create" => call[s].op = "create",
           call'[s].op \in {"persist", "start"}
              <=> call[s].op \in {"persist", "start"},
           Open' => Open,
           pending' = pending \/ call'[s].op = "patch",
           storage' = 0 => pending' = {}
    PROVE  Orderly'
<1>1. \A r \in Slot : (Main(r)' <=> Main(r)) /\ (Loads(r)' <=> Loads(r))
  BY DEF Main, Loads, Out
<1>2. \A r \in Slot : call'[r].tab = call[r].tab
  OBVIOUS
<1>3. ASSUME Open' \/ \E r \in Slot : Out(r)' /\ call'[r].op \in
                                  {"create", "persist", "start"}
      PROVE  pending' = {} /\ \A r \in Slot : ~Loads(r)'
  <2>1. Open \/ \E r \in Slot : Out(r) /\ call[r].op \in
                                  {"create", "persist", "start"}
    BY <1>3 DEF Out
  <2>2. pending = {} /\ \A r \in Slot : ~Loads(r)
    BY <2>1 DEF Orderly
  <2>3. call'[s].op # "patch"
    <3>1. CASE Open'
      BY <3>1 DEF Orderly, Main
    <3>2. CASE \E r \in Slot : Out(r)' /\ call'[r].op \in
                                  {"create", "persist", "start"}
      <4>1. PICK r \in Slot : Out(r)' /\ call'[r].op \in
                                  {"create", "persist", "start"}
        BY <3>2
      <4>2. ASSUME call'[s].op = "patch" PROVE FALSE
        <5>1. Main(s) /\ Main(r)
          BY <1>1, <4>1, <4>2 DEF Main
        <5> QED BY <4>1, <4>2, <5>1 DEF Orderly
      <4> QED BY <4>2
    <3> QED BY <1>3, <3>1, <3>2
  <2> QED BY <1>1, <2>2, <2>3
<1>4. Open' => \A r \in Slot : Main(r)' => call'[r].op \in {"persist", "start"}
  BY <1>1 DEF Orderly
<1>5. \A r \in Slot : Out(r)' => call'[r].tab \in Tab
  BY <1>2 DEF Orderly, Out
<1>6. \A r \in Slot : Loads(r)' => call'[r].stage # "failed"
  BY <1>1 DEF Orderly, Loads
<1> QED BY <1>1, <1>2, <1>3, <1>4, <1>5, <1>6 DEF Orderly

(* A call ends.                                                             *)
LEMMA OrderlyEnd ==
    ASSUME Orderly, NEW s \in Slot, Out(s), ~Out(s)',
           \A r \in Slot \ {s} : call'[r] = call[r],
           Open' => Open,
           pending' = pending \/ call[s].op = "patch",
           storage' = 0 => pending' = {}
    PROVE  Orderly'
<1>1. \A r \in Slot : /\ Out(r)' => r # s /\ Out(r)
                      /\ Main(r)' => r # s /\ Main(r)
                      /\ Loads(r)' => r # s /\ Loads(r)
  BY DEF Main, Loads, Out
<1>2. ASSUME Open' \/ \E r \in Slot : Out(r)' /\ call'[r].op \in
                                  {"create", "persist", "start"}
      PROVE  pending' = {} /\ \A r \in Slot : ~Loads(r)'
  <2>1. pending = {} /\ \A r \in Slot : ~Loads(r)
    BY <1>1, <1>2 DEF Orderly
  <2>2. call[s].op # "patch"
    <3>1. CASE Open'
      BY <3>1 DEF Orderly, Main
    <3>2. CASE \E r \in Slot : Out(r)' /\ call'[r].op \in
                                  {"create", "persist", "start"}
      <4>1. PICK r \in Slot : Out(r)' /\ call'[r].op \in
                                  {"create", "persist", "start"}
        BY <3>2
      <4>2. r # s /\ Main(r)
        BY <1>1, <4>1 DEF Main, Out
      <4> QED BY <4>2 DEF Orderly, Main
    <3> QED BY <1>2, <3>1, <3>2
  <2> QED BY <1>1, <2>1, <2>2
<1>3. Open' => \A r \in Slot : Main(r)' => call'[r].op \in {"persist", "start"}
  BY <1>1 DEF Orderly
<1>4. \A r \in Slot : Out(r)' => call'[r].tab \in Tab
  BY <1>1 DEF Orderly
<1>5. \A r \in Slot : Loads(r)' => call'[r].stage # "failed"
  BY <1>1 DEF Orderly
<1>6. \A r, q \in Slot : Main(r)' /\ Main(q)' => r = q
  BY <1>1 DEF Orderly
<1>7. \A r, q \in Slot :
         Loads(r)' /\ Loads(q)' /\ call'[r].tab = call'[q].tab => r = q
  BY <1>1 DEF Orderly
<1> QED BY <1>2, <1>3, <1>4, <1>5, <1>6, <1>7 DEF Orderly

(* A tab that was told of an edit loads the cart.                           *)
LEMMA OrderlyLoad ==
    ASSUME Orderly, NEW s \in Slot, ~Out(s), NEW t \in Tab, t \in pending,
           ~LoadsFor(t), pending' = pending \ {t},
           \A r \in Slot \ {s} : call'[r] = call[r],
           call'[s].stage = "sent", call'[s].op = "get", call'[s].tab = t,
           Open' => Open, storage' = storage
    PROVE  Orderly'
<1>1. /\ ~Open
      /\ ~\E r \in Slot : Out(r) /\ call[r].op \in {"create", "persist", "start"}
  BY DEF Orderly
<1>2. \A r \in Slot : /\ Out(r)' <=> r = s \/ Out(r)
                      /\ Main(r)' => r # s /\ Main(r)
                      /\ Loads(r)' <=> r = s \/ Loads(r)
  BY DEF Main, Loads, Out
<1>3. \A r, q \in Slot : Main(r)' /\ Main(q)' => r = q
  BY <1>2 DEF Orderly
<1>4. \A r, q \in Slot :
         Loads(r)' /\ Loads(q)' /\ call'[r].tab = call'[q].tab => r = q
  BY <1>2 DEF Orderly, LoadsFor
<1>5. \A r \in Slot : Out(r)' => call'[r].tab \in Tab
  BY <1>2 DEF Orderly
<1>6. \A r \in Slot : Loads(r)' => call'[r].stage # "failed"
  BY <1>2 DEF Orderly
<1>7. ~Open' /\ storage' # 0
  BY <1>1 DEF Orderly
<1>8. ~\E r \in Slot : Out(r)' /\ call'[r].op \in {"create", "persist", "start"}
  BY <1>1, <1>2
<1> QED BY <1>3, <1>4, <1>5, <1>6, <1>7, <1>8 DEF Orderly

(* A checkout is closed.                                                    *)
LEMMA OrderlyKept ==
    ASSUME Orderly, UNCHANGED <<call, pending, storage>>, Open' => Open
    PROVE  Orderly'
<1>1. \A r \in Slot : /\ Out(r)' <=> Out(r)
                      /\ Main(r)' <=> Main(r)
                      /\ Loads(r)' <=> Loads(r)
  BY DEF Main, Loads, Out
<1> QED BY <1>1 DEF Orderly
-----------------------------------------------------------------------------
(* How the lists stay aligned.                                              *)

(* When nothing else goes on, the tabs have the cart.                       *)
LEMMA AtRest ==
    ASSUME Orderly, NEW B, NEW L, Shared(B, L), NEW open, Settled(open)
    PROVE  /\ Patches = {} /\ L = B /\ pending = {}
           /\ \A s \in Slot : ~Out(s)
           /\ \A t \in Tab : DrawerIn(B, t)
           /\ \A t \in Tab \ open : ~modal[t].open
           /\ \A y \in B : Fits(y, wanted)
<1>1. /\ pending = {}
      /\ \A s \in Slot : ~Out(s)
      /\ \A t \in Tab \ open : ~modal[t].open
  BY DEF Settled, Free, Out
<1>2. Patches = {}
  BY <1>1 DEF Patches, Main
<1>3. L = B
  BY <1>2 DEF Shared
<1>4. \A t \in Tab : ~LoadsFor(t)
  BY <1>1 DEF LoadsFor, Loads
<1> QED BY <1>1, <1>2, <1>3, <1>4 DEF Shared, DrawersIn, Agreed

(* An edit has the field to itself.                                         *)
LEMMA OnlyPatch ==
    ASSUME Orderly, NEW s \in Slot, Main(s)
    PROVE  /\ call[s].op = "patch" => Patches = {call[s].items}
           /\ call[s].op # "patch" => Patches = {}
           /\ \A r \in Slot \ {s} : ~Main(r)
<1>1. \A r \in Slot : Main(r) => r = s
  BY DEF Orderly
<1> QED BY <1>1 DEF Patches

(* What a tab will load stays in the lists.                                 *)
LEMMA CallInStays ==
    ASSUME NEW L, NEW K, L \subseteq K, NEW c, CallIn(L, c),
           storage' = storage,
           c.op = "get" /\ c.tab \in pending => c.tab \in pending'
    PROVE  CallIn(K, c)'
BY DEF CallIn

LEMMA CallsInStay ==
    ASSUME NEW L, NEW K, L \subseteq K, CallsIn(L), storage' = storage,
           NEW s \in Slot,
           \A r \in Slot \ {s} :
              /\ call'[r] = call[r]
              /\ Loads(r) /\ call[r].tab \in pending => call[r].tab \in pending',
           NEW d, d = call'[s], Out(s)' => CallIn(K, d)'
    PROVE  CallsIn(K)'
<1> SUFFICES ASSUME NEW r \in Slot, Out(r)'  PROVE CallIn(K, call[r])'
  BY DEF CallsIn
<1>1. CASE r = s
  BY <1>1 DEF CallIn
<1>2. CASE r # s
  <2>1. PICK c : c = call[r]
    OBVIOUS
  <2>2. c = call'[r] /\ Out(r) /\ CallIn(L, c)
    BY <1>2, <2>1 DEF CallsIn, Out
  <2>3. CallIn(K, c)'
    BY <1>2, <2>1, <2>2, CallInStays DEF Loads
  <2> QED BY <2>2, <2>3 DEF CallIn
<1> QED BY <1>1, <1>2

(* So do the drawers, as long as their tabs still wait for what they wait.  *)
LEMMA DrawersInStay ==
    ASSUME NEW L, NEW K, L \subseteq K, DrawersIn(L), storage' = storage,
           \A t \in Tab :
              \/ t \in pending' \/ LoadsFor(t)' \/ DrawerIn(K, t)'
              \/ /\ t \notin pending /\ ~LoadsFor(t)
                 /\ drawer'[t].cart = drawer[t].cart
    PROVE  DrawersIn(K)'
<1> SUFFICES ASSUME NEW t \in Tab, t \notin pending', ~LoadsFor(t)',
                    ~DrawerIn(K, t)'
             PROVE  FALSE
  BY DEF DrawersIn
<1>1. DrawerIn(L, t)
  BY DEF DrawersIn
<1> QED BY <1>1 DEF DrawerIn

(* And the checkout.                                                        *)
LEMMA ModalsInStay ==
    ASSUME NEW L, NEW K, L \subseteq K, ModalsIn(L), storage' = storage,
           \A t \in Tab : modal'[t].open =>
              \/ modal[t].open /\ modal'[t].cart = modal[t].cart
              \/ modal'[t].cart.id = storage /\ modal'[t].cart.items \in K
    PROVE  ModalsIn(K)'
BY DEF ModalsIn

(* Loads are under way for the same tabs.                                   *)
LEMMA LoadsStay ==
    ASSUME NEW s \in Slot, \A r \in Slot \ {s} : call'[r] = call[r],
           Loads(s) => Loads(s)' /\ call'[s].tab = call[s].tab
    PROVE  \A t \in Tab : LoadsFor(t) => LoadsFor(t)'
<1> SUFFICES ASSUME NEW t \in Tab, LoadsFor(t)  PROVE LoadsFor(t)'
  OBVIOUS
<1>1. PICK r \in Slot : Loads(r) /\ call[r].tab = t
  BY DEF LoadsFor
<1>2. Loads(r)' /\ call'[r].tab = t
  BY <1>1 DEF Loads, Out
<1> QED BY <1>2 DEF LoadsFor

(* An edit begins when nothing else goes on.                                *)
LEMMA EditBegins ==
    ASSUME Orderly, NEW B, NEW L, Shared(B, L), Settled({}),
           Typed(Standard), NEW s \in Slot, NEW d,
           call' = [call EXCEPT ![s] = d],
           d.stage = "sent", d.tab \in Tab, d.op \in {"create", "patch"},
           \E l \in Line : \E v \in wanted[l] : \E w \in d.want[l] : v # w,
           d.op = "patch" => d.id = storage /\ Fits(d.items, d.want),
           d.op = "create" =>
              Empty \in B /\ drawer[d.tab].cart.id = 0 /\ Puts(d),
           \A t \in Tab : drawer'[t].cart = drawer[t].cart,
           UNCHANGED <<carts, storage, pending, modal, wanted>>
    PROVE  Aligned'
<1>1. /\ Patches = {} /\ L = B /\ pending = {}
      /\ \A r \in Slot : ~Out(r)
      /\ \A t \in Tab : DrawerIn(B, t)
      /\ \A t \in Tab : ~modal[t].open
      /\ \A y \in B : Fits(y, wanted)
  BY AtRest
<1>2. call'[s] = d /\ \A r \in Slot \ {s} : call'[r] = call[r]
  BY CallIs
<1>3. Out(s)' /\ \A r \in Slot \ {s} : ~Out(r)'
  BY <1>1, <1>2 DEF Out
<1>4. ~Open'
  BY <1>1 DEF Open
<1>5. Orderly'
  BY <1>1, <1>2, <1>3, <1>4, OrderlyFirst
<1>6. Editing'
  <2>1. ~LoadsFor(d.tab)'
    BY <1>2, <1>3 DEF LoadsFor, Loads
  <2>2. d.tab \notin pending' /\ drawer'[d.tab].cart = drawer[d.tab].cart
    BY <1>1
  <2>3. Edits(d)'
    BY <2>1, <2>2 DEF Edits, Puts
  <2> QED BY <1>2, <1>3, <2>3 DEF Editing, Edits, Puts
<1>7. PICK K : K = B \cup Patches'
  OBVIOUS
<1>8. Agreed(B)'
  BY <1>2, <1>3 DEF Shared, Agreed, Sure
<1>9. CartIn(K)' /\ DrawersIn(K)' /\ ModalsIn(K)'
  BY <1>1, <1>7 DEF Shared, CartIn, DrawersIn, DrawerIn, ModalsIn
<1>10. CallsIn(K)'
  BY <1>2, <1>3 DEF CallsIn, CallIn
<1> QED BY <1>5, <1>6, <1>7, <1>8, <1>9, <1>10 DEF Aligned, Shared

(* A login or a checkout goes on, or begins when nothing else goes on, or   *)
(* ends; the lists may become more.                                         *)
LEMMA NoEditStep ==
    ASSUME NEW B, NEW L, Shared(B, L), Orderly', NEW s \in Slot, Patches = {},
           \A r \in Slot \ {s} : call'[r] = call[r] /\ ~Main(r),
           ~Loads(s), NEW d, d = call'[s],
           Out(s)' => d.op \in {"merge", "persist", "start"},
           NEW K, B \subseteq K, \A y \in K : Fits(y, wanted),
           Sure => \A y, z \in K : Alike(y, z),
           Out(s)' => CallIn(K, d)',
           UNCHANGED <<storage, pending, wanted>>,
           storage # 0 => carts'[storage] \in K,
           \A t \in Tab : \/ drawer'[t].cart = drawer[t].cart
                          \/ DrawerIn(K, t)',
           \A t \in Tab : modal'[t].open =>
              \/ modal[t].open /\ modal'[t].cart = modal[t].cart
              \/ modal'[t].cart.id = storage /\ modal'[t].cart.items \in K
    PROVE  Aligned'
<1>1. L = B /\ L \subseteq K
  BY DEF Shared
<1>2. \A r \in Slot : Out(r)' => call'[r].op \notin {"create", "patch"}
  BY DEF Out, Main
<1>3. Editing' /\ Patches' = {}
  BY <1>2 DEF Editing, Patches, Main
<1>4. Agreed(K)'
  BY <1>2 DEF Agreed, Sure
<1>5. CallsIn(K)'
  BY <1>1, CallsInStay DEF Shared
<1>6. DrawersIn(K)'
  <2>1. \A t \in Tab : LoadsFor(t) => LoadsFor(t)'
    BY LoadsStay
  <2> QED BY <1>1, <2>1, DrawersInStay DEF Shared
<1>7. ModalsIn(K)'
  BY <1>1, ModalsInStay DEF Shared
<1>8. CartIn(K)'
  BY DEF CartIn
<1>9. Shared(K, K)'
  BY <1>3, <1>4, <1>5, <1>6, <1>7, <1>8 DEF Shared
<1> QED BY <1>3, <1>9 DEF Aligned

(* A tab loads the cart, or a checkout is closed: the rest stays.           *)
LEMMA LoadStep ==
    ASSUME Editing, Orderly, NEW B, NEW L, Shared(B, L), Orderly',
           \A r \in Slot : Main(r) \/ Main(r)' => call'[r] = call[r],
           \A t \in Tab : t \notin pending /\ ~LoadsFor(t) =>
                             t \notin pending' /\ ~LoadsFor(t)',
           (\E r \in Slot : Out(r) /\ call[r].op = "create") =>
              UNCHANGED drawer,
           UNCHANGED <<carts, storage, wanted>>,
           DrawersIn(L)', ModalsIn(L)', CallsIn(L)'
    PROVE  Aligned'
<1>1. \A r \in Slot : /\ Main(r)' <=> Main(r)
                      /\ Main(r) => call'[r] = call[r]
  BY DEF Main, Out
<1>2. Patches' = Patches
  BY <1>1 DEF Patches
<1>3. Editing'
  <2> SUFFICES ASSUME NEW r \in Slot, Out(r)',
                      call'[r].op \in {"create", "patch"}
               PROVE  Edits(call[r])'
    BY DEF Editing
  <2>1. call'[r] = call[r] /\ Out(r)
    BY <1>1 DEF Main
  <2>2. Edits(call[r])
    BY <2>1 DEF Editing
  <2>3. PICK c : c = call[r]
    OBVIOUS
  <2>4. c.tab \in Tab
    BY <2>1, <2>3 DEF Orderly, Out
  <2>5. Edits(c)'
    BY <2>1, <2>2, <2>3, <2>4 DEF Edits, Puts
  <2> QED BY <2>1, <2>3, <2>5 DEF Edits, Puts
<1>4. Agreed(B)'
  <2>1. (\E r \in Slot : Out(r)' /\ call'[r].op = "create") =>
           \E r \in Slot : Out(r) /\ call[r].op = "create"
    BY <1>1 DEF Main
  <2> QED BY <2>1 DEF Shared, Agreed, Sure
<1>5. CartIn(L)'
  BY DEF Shared, CartIn
<1>6. Shared(B, L)'
  BY <1>2, <1>4, <1>5 DEF Shared
<1> QED BY <1>3, <1>6 DEF Aligned

(* An edit goes on at the server.                                           *)
LEMMA EditGoesOn ==
    ASSUME Orderly, NEW B, NEW L, Shared(B, L), NEW s \in Slot, Main(s),
           call[s].op \in {"create", "patch"},
           \A r \in Slot \ {s} : call'[r] = call[r],
           NEW d, d = call'[s],
           /\ d.op = call[s].op /\ d.tab = call[s].tab /\ d.id = call[s].id
           /\ d.items = call[s].items,
           d.stage \in {"served", "failed"}, Edits(d)',
           UNCHANGED <<storage, pending, drawer, modal, wanted>>,
           storage # 0 => carts'[storage] \in L
    PROVE  Aligned'
<1>1. Out(s) /\ Out(s)' /\ Main(s)'
  BY DEF Main, Out
<1>2. Open' => Open
  BY DEF Open
<1>3. Orderly'
  <2>1. storage' = 0 => pending' = {}
    BY DEF Orderly
  <2> QED BY <1>1, <1>2, <2>1, OrderlyOn
<1>4. /\ call[s].op = "patch" => Patches = {call[s].items}
      /\ call[s].op # "patch" => Patches = {}
      /\ \A r \in Slot \ {s} : ~Main(r)
  BY OnlyPatch
<1>5. /\ call'[s].op = "patch" => Patches' = {call'[s].items}
      /\ call'[s].op # "patch" => Patches' = {}
      /\ \A r \in Slot \ {s} : ~Main(r)'
  BY <1>1, <1>4 DEF Patches, Main, Out
<1>6. Patches' = Patches
  BY <1>4, <1>5
<1>7. Editing'
  BY <1>5 DEF Editing, Edits, Puts, Main
<1>8. Agreed(B)'
  BY <1>1, <1>5 DEF Shared, Agreed, Sure, Main
<1>9. CallsIn(L)'
  <2>1. CallIn(L, call[s])
    BY <1>1 DEF Shared, CallsIn
  <2>2. CallIn(L, d)'
    BY <2>1 DEF CallIn
  <2> QED BY <2>2, CallsInStay DEF Shared
<1>10. DrawersIn(L)'
  <2>1. \A t \in Tab : LoadsFor(t) => LoadsFor(t)'
    BY LoadsStay DEF Loads, Main
  <2> QED BY <2>1, DrawersInStay DEF Shared
<1>11. ModalsIn(L)'
  BY ModalsInStay DEF Shared
<1>12. Shared(B, L)'
  BY <1>6, <1>8, <1>9, <1>10, <1>11 DEF Shared, CartIn
<1> QED BY <1>3, <1>7, <1>12 DEF Aligned
-----------------------------------------------------------------------------
(* What a calm shopper does.                                                *)

(* What a shopper expects who has added one of a line.                      *)
OneMore(line) == [wanted EXCEPT ![line] = {w + 1 : w \in @}]

(* And who has set its quantity.                                            *)
Exactly(line, n) == [wanted EXCEPT ![line] = {n}]

(* Adding makes one more of its line, and one more is not as many.          *)
LEMMA AddedFits ==
    ASSUME NEW choice \in Choice, ~choice.request, NEW x \in Standard,
           wanted \in Wants, Fits(x, wanted), NEW want,
           want = OneMore(choice.line)
    PROVE  /\ Fits(WithItem(x, choice), want)
           /\ \E l \in Line : \E v \in wanted[l] : \E w \in want[l] : v # w
<1>1. choice.line \in Line
  BY DEF Line
<1>2. \A l \in Line : /\ wanted[l] \subseteq Nat
                      /\ want[l] = IF l = choice.line
                                   THEN {w + 1 : w \in wanted[l]} ELSE wanted[l]
  BY DEF Wants, OneMore
<1>3. \A l \in Line : Quantity(x, l) \in wanted[l]
  BY DEF Fits
<1>4. \A l \in Line :
         Quantity(WithItem(x, choice), l) =
            IF l = choice.line THEN Quantity(x, l) + 1 ELSE Quantity(x, l)
  BY QuantityAdded
<1>7. \A l \in Line : Quantity(x, l) \in Nat
  BY QuantityTyped
<1>5. ASSUME NEW l \in Line
      PROVE  Quantity(WithItem(x, choice), l) \in want[l]
  <2>1. Quantity(x, l) \in wanted[l]
    BY <1>3
  <2> DEFINE q == Quantity(x, l)
             z == Quantity(WithItem(x, choice), l)
  <2>2. q \in wanted[l] /\ z = IF l = choice.line THEN q + 1 ELSE q
    BY <1>4, <2>1
  <2> SUFFICES z \in want[l]
    OBVIOUS
  <2> HIDE DEF q, z
  <2>3. CASE l = choice.line
    <3>1. want[l] = {w + 1 : w \in wanted[l]}
      BY <1>2, <2>3
    <3>2. z = q + 1
      BY <2>2, <2>3
    <3> QED BY <2>2, <3>1, <3>2
  <2>4. CASE l # choice.line
    BY <1>2, <2>2, <2>4
  <2> QED BY <2>3, <2>4
<1>6. \E v \in wanted[choice.line] : \E w \in want[choice.line] : v # w
  <2> DEFINE q == Quantity(x, choice.line)
  <2>1. q \in wanted[choice.line] /\ q \in Nat
    BY <1>1, <1>3, <1>7
  <2> HIDE DEF q
  <2>2. want[choice.line] = {w + 1 : w \in wanted[choice.line]}
    BY <1>1, <1>2
  <2>3. q + 1 \in want[choice.line] /\ q # q + 1
    BY <2>1, <2>2
  <2> QED BY <2>1, <2>3
<1> QED BY <1>1, <1>5, <1>6 DEF Fits

(* Setting a quantity makes it that of its line.                            *)
LEMMA SetFits ==
    ASSUME NEW x \in Standard, NEW k \in DOMAIN x, NEW n \in Nat,
           n # x[k].quantity, wanted \in Wants, Fits(x, wanted), NEW want,
           want = Exactly(x[k].line, n)
    PROVE  /\ Fits(WithQuantity(x, x[k], n), want)
           /\ \E l \in Line : \E v \in wanted[l] : \E w \in want[l] : v # w
<1>1. x[k].line \in Line
  BY StandardAre DEF Row
<1>2. \A l \in Line : want[l] = IF l = x[k].line THEN {n} ELSE wanted[l]
  BY DEF Wants, Exactly
<1>3. \A l \in Line : Quantity(x, l) \in wanted[l]
  BY DEF Fits
<1>4. \A l \in Line :
         Quantity(WithQuantity(x, x[k], n), l) =
            IF l = x[k].line THEN n ELSE Quantity(x, l)
  BY QuantitySet
<1>5. \A l \in Line : Quantity(WithQuantity(x, x[k], n), l) \in want[l]
  BY <1>2, <1>3, <1>4
<1>6. x[k].quantity \in wanted[x[k].line] /\ n \in want[x[k].line]
  BY <1>1, <1>2, <1>3, QuantityIs
<1> QED BY <1>1, <1>5, <1>6 DEF Fits

(* The call that an edit sends.                                             *)
LEMMA EditIs ==
    ASSUME calm', NEW s, NEW op, NEW t, NEW id, NEW items, NEW choice, NEW want,
           SendEdit(s, op, t, id, items, choice, want)
    PROVE  \E d : /\ call' = [call EXCEPT ![s] = d]
                  /\ d.stage = "sent" /\ d.op = op /\ d.tab = t /\ d.id = id
                  /\ d.items = items /\ d.choice = choice /\ d.want = want
<1> DEFINE d == [Idle EXCEPT !.op = op, !.stage = "sent", !.tab = t,
                     !.id = id, !.items = items, !.choice = choice,
                     !.want = want]
<1>1. call' = [call EXCEPT ![s] = d]
  BY DEF SendEdit
<1>2. /\ d.stage = "sent" /\ d.op = op /\ d.tab = t /\ d.id = id
      /\ d.items = items /\ d.choice = choice /\ d.want = want
  BY DEF Idle
<1> HIDE DEF d
<1> QED BY <1>1, <1>2

(* And any other.                                                           *)
LEMMA CallSent ==
    ASSUME NEW s, NEW op, NEW t, NEW id, NEW items, Send(s, op, t, id, items)
    PROVE  \E d : /\ call' = [call EXCEPT ![s] = d]
                  /\ d.stage = "sent" /\ d.op = op /\ d.tab = t /\ d.id = id
                  /\ d.items = items
<1> DEFINE d == [Idle EXCEPT !.op = op, !.stage = "sent", !.tab = t,
                     !.id = id, !.items = items]
<1>1. call' = [call EXCEPT ![s] = d]
  BY DEF Send
<1>2. /\ d.stage = "sent" /\ d.op = op /\ d.tab = t /\ d.id = id
      /\ d.items = items
  BY DEF Idle
<1> HIDE DEF d
<1> QED BY <1>1, <1>2

(* What goes on while the shopper stays calm is done calmly.                *)
LEMMA CalmExpects ==
    ASSUME calm \in BOOLEAN, calm', NEW calmly \in BOOLEAN,
           Expect(calmly, wanted)
    PROVE  calm /\ calmly /\ wanted' = wanted
BY DEF Expect

(* He does one thing when all others are done.                              *)
LEMMA CalmDoes ==
    ASSUME calm \in BOOLEAN, calm', NEW what, NEW open, Does(what, open)
    PROVE  calm /\ Settled(open) /\ wanted' = wanted
<1>1. Settled(open) \in BOOLEAN
  BY DEF Settled
<1> QED BY <1>1, CalmExpects DEF Does

(* addItem.                                                                 *)
LEMMA AddAligned ==
    ASSUME Steady, calm', NEW t \in Tab, NEW choice \in Choice, NEW s \in Slot,
           Add(t, choice, s)
    PROVE  Aligned'
<1>1. Typed(Standard) /\ calm \in BOOLEAN /\ wanted \in Wants
  BY DEF Steady, Typed
<1>2. calm /\ Settled({}) /\ ~choice.request /\ wanted' = wanted
  <2>1. PICK calmly \in BOOLEAN : /\ Expect(calmly, wanted)
                                  /\ calmly <=> Settled({}) /\ ~choice.request
    BY DEF Add, Settled
  <2> QED BY <1>1, <2>1, CalmExpects
<1>3. Orderly /\ \E B, L : Shared(B, L)
  BY <1>2 DEF Steady, Aligned
<1>4. PICK B, L : Shared(B, L)
  BY <1>3
<1>5. DrawerIn(B, t) /\ \A y \in B : Fits(y, wanted)
  BY <1>2, <1>3, <1>4, AtRest
<1>6. PICK x \in Standard, id \in Nat :
         drawer[t].cart.items = x /\ drawer[t].cart.id = id
  BY <1>1 DEF Typed, Drawers, Copies
<1>7. x \in B /\ Fits(x, wanted) /\ id \in {0, storage}
  BY <1>5, <1>6 DEF DrawerIn
<1>8. PICK want : want = OneMore(choice.line)
  OBVIOUS
<1>9. /\ Fits(WithItem(x, choice), want)
      /\ \E l \in Line : \E v \in wanted[l] : \E w \in want[l] : v # w
  BY <1>1, <1>2, <1>7, <1>8, AddedFits
<1>10. PICK d :
          /\ call' = [call EXCEPT ![s] = d]
          /\ d.stage = "sent" /\ d.tab = t /\ d.choice = {choice}
          /\ d.want = want
          /\ IF id = 0 THEN d.op = "create"
             ELSE d.op = "patch" /\ d.id = id /\ d.items = WithItem(x, choice)
  <2>1. CASE id = 0
    <3>1. SendEdit(s, "create", t, 0, Empty, {choice}, want)
      BY <1>6, <1>8, <2>1 DEF Add, OneMore
    <3> QED BY <2>1, <3>1, EditIs
  <2>2. CASE id # 0
    <3>1. SendEdit(s, "patch", t, id, WithItem(x, choice), {choice}, want)
      BY <1>6, <1>8, <2>2 DEF Add, OneMore
    <3> QED BY <2>2, <3>1, EditIs
  <2> QED BY <2>1, <2>2
<1>11. id = 0 => x = Empty
  BY <1>6 DEF Steady, IInv, KnownCarts, KnownCopy
<1>12. \A u \in Tab : drawer'[u].cart = drawer[u].cart
  BY <1>1 DEF Add, Typed, Drawers
<1>13. d.op = "create" =>
          Empty \in B /\ Fits(WithItem(Empty, choice), d.want)
  BY <1>7, <1>9, <1>10, <1>11
<1>14. d.op = "patch" => d.id = storage /\ Fits(d.items, d.want)
  BY <1>7, <1>9, <1>10
<1>15. UNCHANGED <<carts, storage, pending, modal>>
  BY DEF Add
<1>16. d.op \in {"create", "patch"}
  BY <1>10
<1>17. d.stage = "sent" /\ d.tab \in Tab
  BY <1>10
<1>18. call' = [call EXCEPT ![s] = d]
  BY <1>10
<1>19. \E l \in Line : \E v \in wanted[l] : \E w \in d.want[l] : v # w
  BY <1>9, <1>10
<1>20. CASE d.op = "create"
  <2>1. Empty \in B /\ drawer[d.tab].cart.id = 0
    BY <1>6, <1>10, <1>13, <1>20
  <2>2. Puts(d)
    BY <1>10, <1>13, <1>20 DEF Puts
  <2>3. d.op # "patch"
    BY <1>20
  <2> QED BY <1>1, <1>2, <1>3, <1>4, <1>12, <1>15, <1>16, <1>17, <1>18, <1>19,
             <2>1, <2>2, <2>3, EditBegins, Zenon
<1>21. CASE d.op = "patch"
  <2>1. d.op # "create"
    BY <1>21
  <2> QED BY <1>1, <1>2, <1>3, <1>4, <1>12, <1>14, <1>15, <1>16, <1>17, <1>18,
             <1>19, <2>1, EditBegins, Zenon
<1> QED BY <1>16, <1>20, <1>21

(* updateItemQuantity.                                                      *)
LEMMA SetQuantityAligned ==
    ASSUME Steady, calm', NEW t \in Tab, NEW s \in Slot,
           NEW k \in DOMAIN drawer[t].cart.items, SetQuantity(t, k, s)
    PROVE  Aligned'
<1>1. Typed(Standard) /\ calm \in BOOLEAN /\ wanted \in Wants
  BY DEF Steady, Typed
<1>6. PICK x \in Standard, id \in Nat :
         drawer[t].cart.items = x /\ drawer[t].cart.id = id
  BY <1>1 DEF Typed, Drawers, Copies
<1>16. k \in DOMAIN x /\ x[k] \in Row
  BY <1>6, StandardAre
<1>8. PICK n \in {0, x[k].quantity - 1, x[k].quantity + 1} :
            /\ Does("edit", {})
            /\ SendEdit(s, "patch", t, id, WithQuantity(x, x[k], n), {},
                        [wanted EXCEPT ![x[k].line] = {n}])
  BY <1>6 DEF SetQuantity
<1>2. calm /\ Settled({}) /\ wanted' = wanted
  BY <1>1, <1>8, CalmDoes
<1>3. Orderly /\ \E B, L : Shared(B, L)
  BY <1>2 DEF Steady, Aligned
<1>4. PICK B, L : Shared(B, L)
  BY <1>3
<1>5. DrawerIn(B, t) /\ \A y \in B : Fits(y, wanted)
  BY <1>2, <1>3, <1>4, AtRest
<1>7. x \in B /\ Fits(x, wanted) /\ id \in {0, storage}
  BY <1>5, <1>6 DEF DrawerIn
<1>17. n \in Nat /\ n # x[k].quantity
  BY <1>8, <1>16 DEF Row
<1>18. PICK want : want = Exactly(x[k].line, n)
  OBVIOUS
<1>9. /\ Fits(WithQuantity(x, x[k], n), want)
      /\ \E l \in Line : \E v \in wanted[l] : \E w \in want[l] : v # w
  BY <1>1, <1>7, <1>16, <1>17, <1>18, SetFits
<1>10. PICK d :
          /\ call' = [call EXCEPT ![s] = d]
          /\ d.stage = "sent" /\ d.tab = t /\ d.op = "patch" /\ d.id = id
          /\ d.items = WithQuantity(x, x[k], n) /\ d.want = want
  <2>1. SendEdit(s, "patch", t, id, WithQuantity(x, x[k], n), {}, want)
    BY <1>8, <1>18 DEF Exactly
  <2> QED BY <2>1, EditIs
<1>11. id # 0
  <2>1. id = 0 => x = Empty
    BY <1>6 DEF Steady, IInv, KnownCarts, KnownCopy
  <2>2. x # Empty
    BY <1>16 DEF Empty
  <2> QED BY <2>1, <2>2
<1>12. \A u \in Tab : drawer'[u].cart = drawer[u].cart
  BY <1>1 DEF SetQuantity, Typed, Drawers
<1>14. d.id = storage /\ Fits(d.items, d.want)
  BY <1>7, <1>9, <1>10, <1>11
<1>15. UNCHANGED <<carts, storage, pending, modal>>
  BY DEF SetQuantity
<1>19. /\ d.stage = "sent" /\ d.tab \in Tab
       /\ d.op \in {"create", "patch"} /\ d.op # "create"
       /\ \E l \in Line : \E v \in wanted[l] : \E w \in d.want[l] : v # w
  BY <1>9, <1>10
<1>20. call' = [call EXCEPT ![s] = d]
  BY <1>10
<1> QED BY <1>1, <1>2, <1>3, <1>4, <1>12, <1>14, <1>15, <1>19, <1>20,
           EditBegins, Zenon

(* What a calm shopper finds who begins something.                          *)
LEMMA CalmBegins ==
    ASSUME Steady, calm', NEW what, NEW open, Does(what, open)
    PROVE  /\ Orderly /\ Typed(Standard) /\ KnownCarts
           /\ pending = {} /\ Patches = {} /\ wanted' = wanted
           /\ \A r \in Slot : ~Out(r)
           /\ \A t \in Tab \ open : ~modal[t].open
           /\ \E B : /\ Shared(B, B)
                     /\ \A t \in Tab : DrawerIn(B, t)
                     /\ \A y \in B : Fits(y, wanted)
                     /\ Sure => \A y, z \in B : Alike(y, z)
<1>1. Typed(Standard) /\ KnownCarts /\ calm \in BOOLEAN
  BY DEF Steady, IInv, Typed
<1>2. calm /\ Settled(open) /\ wanted' = wanted
  BY <1>1, CalmDoes
<1>3. Orderly /\ \E B, L : Shared(B, L)
  BY <1>2 DEF Steady, Aligned
<1>4. PICK B, L : Shared(B, L)
  BY <1>3
<1>5. /\ Patches = {} /\ L = B /\ pending = {}
      /\ \A s \in Slot : ~Out(s)
      /\ \A t \in Tab : DrawerIn(B, t)
      /\ \A t \in Tab \ open : ~modal[t].open
      /\ \A y \in B : Fits(y, wanted)
  BY <1>2, <1>3, <1>4, AtRest
<1>6. Sure => \A y, z \in B : Alike(y, z)
  BY <1>4 DEF Shared, Agreed
<1>7. Shared(B, B)
  BY <1>4, <1>5
<1> QED BY <1>1, <1>2, <1>3, <1>5, <1>6, <1>7

(* What a calm shopper finds when something else happens.                   *)
LEMMA CalmIs ==
    ASSUME Steady, calm
    PROVE  /\ Orderly /\ Editing /\ Typed(Standard) /\ KnownCarts
           /\ \E B, L : Shared(B, L)
BY DEF Steady, IInv, Aligned

(* No edit is under way after the step.                                     *)
LEMMA RestStep ==
    ASSUME NEW B, Shared(B, B), Orderly', UNCHANGED wanted,
           \A r \in Slot : Out(r)' => call'[r].op \notin {"create", "patch"},
           CartIn(B)', DrawersIn(B)', ModalsIn(B)', CallsIn(B)'
    PROVE  Aligned'
<1>1. Editing' /\ Patches' = {}
  BY DEF Editing, Patches, Main
<1>2. Agreed(B)'
  BY DEF Shared, Agreed, Sure
<1>3. Shared(B, B)'
  BY <1>1, <1>2 DEF Shared
<1> QED BY <1>1, <1>3 DEF Aligned

(* _handleCustomerLoggedIn.                                                 *)
LEMMA LogInAligned ==
    ASSUME Steady, calm', NEW t \in Tab, NEW s \in Slot, LogIn(t, s)
    PROVE  Aligned'
<1>1. Does("login", {})
  BY DEF LogIn
<1>2. /\ Typed(Standard) /\ pending = {} /\ Patches = {} /\ wanted' = wanted
      /\ \A r \in Slot : ~Out(r)
      /\ \A u \in Tab : ~modal[u].open
  BY <1>1, CalmBegins
<1>3. PICK B : /\ Shared(B, B) /\ \A y \in B : Fits(y, wanted)
               /\ Sure => \A y, z \in B : Alike(y, z)
  BY <1>1, CalmBegins
<1>4. PICK d : /\ call' = [call EXCEPT ![s] = d]
               /\ d.stage = "sent" /\ d.op = "merge" /\ d.tab = t
               /\ d.id = storage
  <2>1. Send(s, "merge", t, storage, Empty)
    BY DEF LogIn
  <2> QED BY <2>1, CallSent
<1>5. call'[s] = d /\ \A r \in Slot \ {s} : call'[r] = call[r]
  BY <1>2, <1>4, CallIs
<1>6. UNCHANGED <<carts, storage, pending, drawer, modal>>
  BY DEF LogIn
<1>7. \A r \in Slot \ {s} : ~Out(r)' /\ ~Main(r)
  BY <1>2, <1>5 DEF Out, Main
<1>8. Orderly'
  BY <1>2, <1>4, <1>5, <1>6, <1>7, OrderlyFirst DEF Open
<1>9. CallIn(B, d)' /\ ~Loads(s) /\ d.op \in {"merge", "persist", "start"}
  BY <1>2, <1>4, <1>6 DEF CallIn, Loads
<1>10. storage # 0 => carts'[storage] \in B
  BY <1>3, <1>6 DEF Shared, CartIn
<1> QED BY <1>2, <1>3, <1>5, <1>6, <1>7, <1>8, <1>9, <1>10, NoEditStep

(* submit.                                                                  *)
LEMMA SubmitAligned ==
    ASSUME Steady, calm', NEW t \in Tab, NEW s \in Slot, Submit(t, s)
    PROVE  Aligned'
<1>1. Does("submit", {t})
  BY DEF Submit
<1>2. /\ Typed(Standard) /\ pending = {} /\ Patches = {} /\ wanted' = wanted
      /\ \A r \in Slot : ~Out(r)
  BY <1>1, CalmBegins
<1>3. PICK B : /\ Shared(B, B) /\ \A y \in B : Fits(y, wanted)
               /\ Sure => \A y, z \in B : Alike(y, z)
  BY <1>1, CalmBegins
<1>11. PICK op \in {"persist", "start"} :
          Send(s, op, t, modal[t].cart.id, modal[t].cart.items)
  BY DEF Submit
<1>4. PICK d : /\ call' = [call EXCEPT ![s] = d]
               /\ d.stage = "sent" /\ d.op = op /\ d.tab = t
               /\ d.id = modal[t].cart.id /\ d.items = modal[t].cart.items
  BY <1>11, CallSent
<1>5. call'[s] = d /\ \A r \in Slot \ {s} : call'[r] = call[r]
  BY <1>2, <1>4, CallIs
<1>6. UNCHANGED <<carts, storage, pending, drawer>> /\ modal[t].open
  BY DEF Submit
<1>12. \A u \in Tab : /\ modal'[u].open => modal[u].open
                      /\ modal'[u].cart = modal[u].cart
  BY <1>2 DEF Submit, Typed, Modals
<1>7. \A r \in Slot \ {s} : ~Out(r)' /\ ~Main(r)
  BY <1>2, <1>5 DEF Out, Main
<1>8. Orderly'
  BY <1>2, <1>4, <1>5, <1>6, <1>7, OrderlyFirst
<1>13. modal[t].cart.id = storage /\ modal[t].cart.items \in B
  BY <1>3, <1>6 DEF Shared, ModalsIn
<1>9. CallIn(B, d)' /\ ~Loads(s) /\ d.op \in {"merge", "persist", "start"}
  BY <1>2, <1>4, <1>6, <1>13 DEF CallIn, Loads
<1>10. storage # 0 => carts'[storage] \in B
  BY <1>3, <1>6 DEF Shared, CartIn
<1> QED BY <1>2, <1>3, <1>5, <1>6, <1>7, <1>8, <1>9, <1>10, <1>12, NoEditStep

(* handleCheckoutClick.                                                     *)
LEMMA CheckoutClickAligned ==
    ASSUME Steady, calm', NEW t \in Tab, CheckoutClick(t)
    PROVE  Aligned'
<1>1. Does("checkout", {})
  BY DEF CheckoutClick
<1>2. /\ Typed(Standard) /\ KnownCarts /\ pending = {} /\ wanted' = wanted
      /\ \A r \in Slot : ~Out(r)
      /\ \A u \in Tab : ~modal[u].open
  BY <1>1, CalmBegins
<1>3. PICK B : Shared(B, B) /\ \A u \in Tab : DrawerIn(B, u)
  BY <1>1, CalmBegins
<1>4. PICK new : /\ modal' = [modal EXCEPT ![t] = new]
                 /\ new.cart = drawer[t].cart
  BY DEF CheckoutClick
<1>5. /\ drawer[t].cart.items # Empty
      /\ UNCHANGED <<carts, storage, pending, drawer, call>>
  BY DEF CheckoutClick
<1>6. new.cart.id = storage /\ new.cart.items \in B
  BY <1>2, <1>3, <1>4, <1>5 DEF DrawerIn, KnownCarts, KnownCopy
<1>7. modal'[t] = new /\ \A u \in Tab \ {t} : modal'[u] = modal[u]
  BY <1>2, <1>4 DEF Typed
<1>8. \A r \in Slot : ~Out(r)'
  BY <1>2, <1>5 DEF Out
<1>9. Orderly'
  BY <1>2, <1>5, <1>8, OrderlyAtRest
<1>10. ModalsIn(B)'
  BY <1>2, <1>5, <1>6, <1>7 DEF ModalsIn
<1>11. CartIn(B)' /\ DrawersIn(B)' /\ CallsIn(B)'
  BY <1>3, <1>5, <1>8 DEF Shared, CartIn, DrawersIn, DrawerIn, CallsIn
<1> QED BY <1>2, <1>3, <1>8, <1>9, <1>10, <1>11, RestStep

(* A page is opened again.                                                  *)
LEMMA ReopenAligned ==
    ASSUME Steady, calm', NEW t \in Tab, NEW s \in Slot, Reopen(t, s)
    PROVE  Aligned'
<1>1. Does("reopen", {})
  BY DEF Reopen
<1>2. /\ Typed(Standard) /\ KnownCarts /\ pending = {} /\ wanted' = wanted
      /\ \A r \in Slot : ~Out(r)
      /\ \A u \in Tab : ~modal[u].open
  BY <1>1, CalmBegins
<1>3. PICK B : Shared(B, B) /\ \A u \in Tab : DrawerIn(B, u)
  BY <1>1, CalmBegins
<1>4. /\ pending' = {} /\ UNCHANGED <<carts, storage>>
      /\ drawer' = [drawer EXCEPT ![t] = NewDrawer]
      /\ modal' = [modal EXCEPT ![t] = Closed]
  BY <1>2 DEF Reopen
<1>5. \A u \in Tab : ~modal'[u].open
  BY <1>2, <1>4 DEF Typed, Closed
<1>6. drawer'[t].cart = NoCart /\ \A u \in Tab \ {t} : drawer'[u] = drawer[u]
  BY <1>2, <1>4 DEF Typed, NewDrawer
<1>7. \A r \in Slot \ {s} : ~Out(r)'
  <2> SUFFICES ASSUME NEW r \in Slot \ {s} PROVE call'[r].stage = "none"
    BY DEF Out
  <2>1. call[r].stage = "none" /\ call[r] \in Calls(Standard)
    BY <1>2 DEF Out, Typed
  <2>2. call'[r] = IF call[r].tab = t THEN [call[r] EXCEPT !.tab = NoTab]
                   ELSE call[r]
    BY DEF Reopen
  <2>3. [call[r] EXCEPT !.tab = NoTab].stage = call[r].stage
    BY <2>1 DEF Calls
  <2> QED BY <2>1, <2>2, <2>3
<1>8. CartIn(B)' /\ ModalsIn(B)'
  BY <1>3, <1>4, <1>5 DEF Shared, CartIn, ModalsIn
<1>9. CASE storage = 0
  <2>1. ~Out(s)'
    <3>1. call'[s] = IF call[s].tab = t THEN [call[s] EXCEPT !.tab = NoTab]
                     ELSE call[s]
      BY <1>9 DEF Reopen
    <3>2. call[s].stage = "none" /\ call[s] \in Calls(Standard)
      BY <1>2 DEF Out, Typed
    <3>3. [call[s] EXCEPT !.tab = NoTab].stage = call[s].stage
      BY <3>2 DEF Calls
    <3> QED BY <3>1, <3>2, <3>3 DEF Out
  <2>2. \A r \in Slot : ~Out(r)'
    BY <1>7, <2>1
  <2>3. Orderly'
    BY <1>4, <2>2, OrderlyAtRest
  <2>4. Empty \in B
    BY <1>2, <1>3, <1>9 DEF DrawerIn, KnownCarts, KnownCopy
  <2>5. DrawersIn(B)'
    BY <1>3, <1>4, <1>6, <1>9, <2>4 DEF DrawersIn, DrawerIn, NoCart
  <2>6. CallsIn(B)'
    BY <2>2 DEF CallsIn
  <2> QED BY <1>2, <1>3, <1>8, <2>2, <2>3, <2>5, <2>6, RestStep
<1>10. CASE storage # 0
  <2>1. PICK d : d = [Idle EXCEPT !.stage = "sent", !.tab = t, !.id = storage]
    OBVIOUS
  <2>2. /\ d.stage = "sent" /\ d.op = "get" /\ d.tab = t /\ d.id = storage
    BY <2>1 DEF Idle
  <2>3. call'[s] = d
    BY <1>10, <2>1 DEF Reopen
  <2>4. Orderly'
    BY <1>4, <1>5, <1>7, <2>2, <2>3, OrderlyFirst DEF Open
  <2>5. \A r \in Slot : Out(r)' => r = s /\ call'[r] = d
    BY <1>7, <2>3
  <2>6. LoadsFor(t)'
    BY <2>2, <2>3 DEF LoadsFor, Loads, Out
  <2>7. DrawersIn(B)'
    BY <1>3, <1>4, <1>6, <2>6 DEF DrawersIn, DrawerIn
  <2>8. CallsIn(B)'
    BY <1>4, <2>2, <2>5 DEF CallsIn, CallIn
  <2> QED BY <1>2, <1>3, <1>8, <2>2, <2>4, <2>5, <2>7, <2>8, RestStep
<1> QED BY <1>9, <1>10

(* A checkout is closed.                                                    *)
LEMMA CloseModalAligned ==
    ASSUME Steady, calm', NEW t \in Tab, CloseModal(t)
    PROVE  Aligned'
<1>1. calm /\ UNCHANGED <<carts, storage, pending, drawer, call, wanted>>
  BY DEF CloseModal, ghosts
<1>2. Orderly /\ Editing /\ Typed(Standard) /\ \E B, L : Shared(B, L)
  BY <1>1, CalmIs
<1>3. PICK B, L : Shared(B, L)
  BY <1>2
<1>4. modal'[t] = Closed /\ \A u \in Tab \ {t} : modal'[u] = modal[u]
  BY <1>2 DEF CloseModal, Typed
<1>5. \A u \in Tab : modal'[u].open =>
         modal[u].open /\ modal'[u].cart = modal[u].cart
  BY <1>4 DEF Closed
<1>6. Orderly'
  BY <1>1, <1>2, <1>5, OrderlyKept DEF Open
<1>7. CallsIn(L)' /\ DrawersIn(L)'
  BY <1>1, <1>3 DEF Shared, CallsIn, CallIn, Out, DrawersIn, DrawerIn,
                    LoadsFor, Loads
<1>8. ModalsIn(L)'
  BY <1>1, <1>3, <1>5 DEF Shared, ModalsIn
<1>9. \A u \in Tab : u \in pending' <=> u \in pending
  BY <1>1
<1>10. \A u \in Tab : LoadsFor(u)' <=> LoadsFor(u)
  BY <1>1 DEF LoadsFor, Loads, Out
<1> QED BY <1>1, <1>2, <1>3, <1>6, <1>7, <1>8, <1>9, <1>10, LoadStep

(* _onCartStorage.                                                          *)
LEMMA OnCartStorageAligned ==
    ASSUME Steady, calm', NEW t \in Tab, NEW s \in Slot, OnCartStorage(t, s)
    PROVE  Aligned'
<1>15. calm /\ ~Loading(t) /\ UNCHANGED wanted
  <2>1. PICK calmly \in BOOLEAN : /\ Expect(calmly, wanted)
                                  /\ calmly <=> ~Loading(t)
    BY DEF OnCartStorage, Loading
  <2>2. calm \in BOOLEAN
    BY DEF Steady, Typed
  <2> QED BY <2>1, <2>2, CalmExpects
<1>1. /\ calm /\ UNCHANGED <<carts, storage, drawer, modal, wanted>>
      /\ ~Out(s) /\ t \in pending /\ ~Loading(t) /\ pending' = pending \ {t}
      /\ Load(t, s)
  BY <1>15 DEF OnCartStorage, Out, Free
<1>2. Orderly /\ Editing /\ Typed(Standard) /\ \E B, L : Shared(B, L)
  BY <1>1, CalmIs
<1>3. PICK B, L : Shared(B, L)
  BY <1>2
<1>4. storage # 0
  BY <1>1, <1>2 DEF Orderly
<1>5. PICK d : /\ call' = [call EXCEPT ![s] = d]
               /\ d.stage = "sent" /\ d.op = "get" /\ d.tab = t
               /\ d.id = storage
  <2>1. Send(s, "get", t, storage, Empty)
    BY <1>1, <1>4 DEF Load
  <2> QED BY <2>1, CallSent
<1>6. call'[s] = d /\ \A r \in Slot \ {s} : call'[r] = call[r]
  BY <1>2, <1>5, CallIs
<1>7. ~LoadsFor(t)
  BY <1>1 DEF LoadsFor, Loads, Loading
<1>8. Orderly'
  BY <1>1, <1>2, <1>5, <1>6, <1>7, OrderlyLoad DEF Open
<1>9. LoadsFor(t)'
  BY <1>5, <1>6 DEF LoadsFor, Loads, Out
<1>10. \A r \in Slot : Main(r) \/ Main(r)' => call'[r] = call[r]
  BY <1>1, <1>5, <1>6 DEF Main
<1>11. DrawersIn(L)'
  <2>1. \A u \in Tab : LoadsFor(u) => LoadsFor(u)'
    BY <1>1, <1>6, LoadsStay DEF Loads
  <2>2. \A u \in Tab : u \in pending => u \in pending' \/ u = t
    BY <1>1
  <2> QED BY <1>1, <1>3, <1>9, <2>1, <2>2, DrawersInStay DEF Shared
<1>12. CallsIn(L)'
  <2>1. CallIn(L, d)'
    BY <1>1, <1>5 DEF CallIn
  <2>2. \A r \in Slot \ {s} : Loads(r) => call[r].tab # t
    BY <1>7 DEF LoadsFor
  <2> QED BY <1>1, <1>3, <1>6, <2>1, <2>2, CallsInStay DEF Shared
<1>13. ModalsIn(L)'
  BY <1>1, <1>3, ModalsInStay DEF Shared
<1>14. \A u \in Tab : u \notin pending /\ ~LoadsFor(u) =>
                          u \notin pending' /\ ~LoadsFor(u)'
  BY <1>1, <1>5, <1>6 DEF LoadsFor, Loads, Out
<1> QED BY <1>1, <1>2, <1>3, <1>8, <1>10, <1>11, <1>12, <1>13, <1>14, LoadStep
-----------------------------------------------------------------------------
(* What the server does.                                                    *)

(* A call of a calm shopper is about the cart in storage.                   *)
LEMMA CallFound ==
    ASSUME Steady, Orderly, NEW B, NEW L, Shared(B, L), NEW s \in Slot, Out(s)
    PROVE  /\ CallIn(L, call[s]) /\ KnownCall(call[s])
           /\ call[s] \in Calls(Standard) /\ call[s].tab \in Tab
           /\ call[s].op # "create" =>
                 /\ call[s].id = storage /\ storage # 0
                 /\ storage \in DOMAIN carts /\ carts[storage] \in L
           /\ storage # 0 => storage \in DOMAIN carts /\ carts[storage] \in L
<1>1. CallIn(L, call[s])
  BY DEF Shared, CallsIn
<1>2. /\ KnownCall(call[s]) /\ Known(storage)
      /\ call[s] \in Calls(Standard) /\ carts \in Seq(Standard)
  BY DEF Steady, IInv, KnownCalls, KnownCarts, Typed
<1>3. call[s].op # "create" => call[s].id = storage /\ storage # 0
  BY <1>1, <1>2 DEF CallIn, KnownCall, Out
<1>4. storage # 0 => storage \in DOMAIN carts
  BY <1>2 DEF Known
<1>5. storage # 0 => carts[storage] \in L
  BY DEF Shared, CartIn
<1>6. call[s].tab \in Tab
  BY DEF Orderly
<1> QED BY <1>1, <1>2, <1>3, <1>4, <1>5, <1>6

(* A login or a checkout has the field to itself.                           *)
LEMMA MainFound ==
    ASSUME Orderly, NEW B, NEW L, Shared(B, L), NEW s \in Slot, Main(s),
           call[s].op # "patch"
    PROVE  /\ Patches = {} /\ L = B
           /\ ~Loads(s) /\ \A r \in Slot \ {s} : ~Main(r)
           /\ \A y \in B : Fits(y, wanted)
           /\ Sure => \A y, z \in B : Alike(y, z)
<1>1. Patches = {} /\ \A r \in Slot \ {s} : ~Main(r)
  BY OnlyPatch
<1>2. L = B
  BY <1>1 DEF Shared
<1> QED BY <1>1, <1>2 DEF Shared, Agreed, Main, Loads

(* A call that was answered.                                                *)
LEMMA AnsweredIs ==
    ASSUME NEW H, Typed(H), NEW s \in Slot, NEW id, NEW items,
           Answered(s, id, items)
    PROVE  /\ \A r \in Slot \ {s} : call'[r] = call[r]
           /\ call'[s].stage = "served"
           /\ call'[s].reply.id = id /\ call'[s].reply.items = items
           /\ call'[s].op = call[s].op /\ call'[s].tab = call[s].tab
           /\ call'[s].id = call[s].id /\ call'[s].items = call[s].items
           /\ call'[s].choice = call[s].choice /\ call'[s].want = call[s].want
<1>1. call \in [Slot -> Calls(H)] /\ call[s] \in Calls(H)
  BY DEF Typed
<1>2. PICK c : c = call[s] /\ c \in Calls(H)
  BY <1>1
<1>3. PICK d : d = [c EXCEPT !.stage = "served",
                             !.reply = [id |-> id, items |-> items]]
  OBVIOUS
<1>4. call' = [call EXCEPT ![s] = d]
  BY <1>1, <1>2, <1>3 DEF Answered
<1>5. /\ d.stage = "served" /\ d.reply.id = id /\ d.reply.items = items
      /\ d.op = c.op /\ d.tab = c.tab /\ d.id = c.id /\ d.items = c.items
      /\ d.choice = c.choice /\ d.want = c.want
  BY <1>2, <1>3 DEF Calls
<1>6. call'[s] = d /\ \A r \in Slot \ {s} : call'[r] = call[r]
  BY <1>4, CallIs
<1> QED BY <1>2, <1>5, <1>6

(* A call that has failed.                                                  *)
LEMMA FailedIs ==
    ASSUME NEW H, Typed(H), NEW s \in Slot, Fail(s)
    PROVE  /\ \A r \in Slot \ {s} : call'[r] = call[r]
           /\ call'[s].stage = "failed"
           /\ call'[s].op = call[s].op /\ call'[s].tab = call[s].tab
           /\ call'[s].id = call[s].id /\ call'[s].items = call[s].items
           /\ call'[s].choice = call[s].choice /\ call'[s].want = call[s].want
<1>1. call \in [Slot -> Calls(H)] /\ call[s] \in Calls(H)
  BY DEF Typed
<1>2. PICK c : c = call[s] /\ c \in Calls(H)
  BY <1>1
<1>3. PICK d : d = [c EXCEPT !.stage = "failed", !.reply = NoCart]
  OBVIOUS
<1>4. call' = [call EXCEPT ![s] = d]
  BY <1>1, <1>2, <1>3 DEF Fail
<1>5. /\ d.stage = "failed"
      /\ d.op = c.op /\ d.tab = c.tab /\ d.id = c.id /\ d.items = c.items
      /\ d.choice = c.choice /\ d.want = c.want
  BY <1>2, <1>3 DEF Calls
<1>6. call'[s] = d /\ \A r \in Slot \ {s} : call'[r] = call[r]
  BY <1>4, CallIs
<1> QED BY <1>2, <1>5, <1>6

(* The open checkouts are those there were.                                 *)
LEMMA OpenKept ==
    ASSUME UNCHANGED modal
    PROVE  Open' => Open
BY DEF Open

(* create_embed_cart.                                                       *)
LEMMA ServeCreateAligned ==
    ASSUME Steady, calm', NEW s \in Slot, ServeCreate(s)
    PROVE  Aligned'
<1>1. /\ calm /\ UNCHANGED <<storage, pending, drawer, modal, wanted>>
      /\ call[s].stage = "sent" /\ call[s].op = "create"
      /\ carts' = Append(carts, Empty)
      /\ Answered(s, Len(carts) + 1, Empty)
  BY DEF ServeCreate, Sent, ghosts
<1>2. Orderly /\ Editing /\ Typed(Standard) /\ \E B, L : Shared(B, L)
  BY <1>1, CalmIs
<1>3. PICK B, L : Shared(B, L)
  BY <1>2
<1>4. Out(s) /\ Main(s) /\ Edits(call[s])
  BY <1>1, <1>2 DEF Editing, Out, Main
<1>5. storage # 0 => storage \in DOMAIN carts /\ carts[storage] \in L
  BY <1>2, <1>3, <1>4, CallFound
<1>7. PICK d : d = call'[s]
  OBVIOUS
<1>8. /\ \A r \in Slot \ {s} : call'[r] = call[r]
      /\ d.stage = "served" /\ d.reply.id = Len(carts) + 1
      /\ d.op = "create" /\ d.tab = call[s].tab
      /\ d.id = call[s].id /\ d.items = call[s].items
      /\ d.choice = call[s].choice /\ d.want = call[s].want
  BY <1>1, <1>2, <1>7, AnsweredIs
<1>9. carts \in Seq(Standard)
  BY <1>2 DEF Typed
<1>10. carts'[d.reply.id] = Empty
  BY <1>1, <1>8, <1>9
<1>11. storage # 0 => carts'[storage] \in L
  BY <1>1, <1>5, <1>9
<1>12. Edits(d)'
  BY <1>1, <1>4, <1>8, <1>10 DEF Edits, Puts
<1> QED BY <1>1, <1>2, <1>3, <1>4, <1>7, <1>8, <1>11, <1>12, EditGoesOn

(* update_embed_cart, for an edit.                                          *)
LEMMA ServePatchAligned ==
    ASSUME Steady, calm', NEW s \in Slot, ServeUpdate(s), Sent(s, "patch")
    PROVE  Aligned'
<1>1. /\ calm /\ UNCHANGED <<storage, pending, drawer, modal, wanted>>
      /\ call[s].stage = "sent" /\ call[s].op = "patch"
      /\ carts' = [carts EXCEPT ![call[s].id] = call[s].items]
      /\ Answered(s, call[s].id, call[s].items)
  BY DEF ServeUpdate, Sent, ghosts
<1>2. Orderly /\ Editing /\ Typed(Standard) /\ \E B, L : Shared(B, L)
  BY <1>1, CalmIs
<1>3. PICK B, L : Shared(B, L)
  BY <1>2
<1>4. Out(s) /\ Main(s) /\ Edits(call[s])
  BY <1>1, <1>2 DEF Editing, Out, Main
<1>5. /\ call[s].id = storage /\ storage \in DOMAIN carts
      /\ call[s].tab \in Tab
  BY <1>1, <1>2, <1>3, <1>4, CallFound
<1>7. PICK d : d = call'[s]
  OBVIOUS
<1>8. /\ \A r \in Slot \ {s} : call'[r] = call[r]
      /\ d.stage = "served"
      /\ d.reply.id = call[s].id /\ d.reply.items = call[s].items
      /\ d.op = "patch" /\ d.tab = call[s].tab
      /\ d.id = call[s].id /\ d.items = call[s].items
      /\ d.choice = call[s].choice /\ d.want = call[s].want
  BY <1>1, <1>2, <1>7, AnsweredIs
<1>9. carts'[storage] = call[s].items
  BY <1>1, <1>5
<1>10. call[s].items \in L
  BY <1>1, <1>3, <1>4 DEF Shared, Patches
<1>11. ~LoadsFor(d.tab)' /\ d.tab \notin pending'
  <2>1. ~LoadsFor(d.tab) /\ d.tab \notin pending
    BY <1>1, <1>4, <1>8 DEF Edits
  <2>2. ~Loads(s)'
    BY <1>7, <1>8 DEF Loads
  <2> QED BY <1>1, <1>8, <2>1, <2>2 DEF LoadsFor, Loads, Out
<1>12. Edits(d)'
  BY <1>1, <1>4, <1>5, <1>8, <1>9, <1>11 DEF Edits
<1> QED BY <1>1, <1>2, <1>3, <1>4, <1>7, <1>8, <1>9, <1>10, <1>12, EditGoesOn

(* update_embed_cart, for the attendees.                                    *)
LEMMA ServePersistAligned ==
    ASSUME Steady, calm', NEW s \in Slot, ServeUpdate(s), Sent(s, "persist")
    PROVE  Aligned'
<1>1. /\ calm /\ UNCHANGED <<storage, pending, drawer, modal, wanted>>
      /\ call[s].stage = "sent" /\ call[s].op = "persist"
      /\ carts' = [carts EXCEPT ![call[s].id] = WithAttendees(call[s].items)]
      /\ Answered(s, call[s].id, WithAttendees(call[s].items))
  BY DEF ServeUpdate, Sent, ghosts
<1>2. Orderly /\ Typed(Standard) /\ \E B, L : Shared(B, L)
  BY <1>1, CalmIs
<1>3. PICK B, L : Shared(B, L)
  BY <1>2
<1>4. Out(s) /\ Main(s)
  BY <1>1 DEF Out, Main
<1>5. /\ call[s].id = storage /\ storage \in DOMAIN carts
      /\ call[s].tab \in Tab
      /\ CallIn(L, call[s]) /\ call[s] \in Calls(Standard)
  BY <1>1, <1>2, <1>3, <1>4, CallFound
<1>13. /\ Patches = {} /\ L = B /\ ~Loads(s)
       /\ \A r \in Slot \ {s} : ~Main(r)
       /\ \A y \in B : Fits(y, wanted)
       /\ Sure => \A y, z \in B : Alike(y, z)
  BY <1>1, <1>2, <1>3, <1>4, MainFound
<1>14. PICK x \in Standard : x = call[s].items /\ x \in B
  BY <1>1, <1>5, <1>13 DEF CallIn, Calls
<1>15. PICK rows : rows = WithAttendees(x)
  OBVIOUS
<1>16. Fits(rows, wanted) /\ Alike(rows, x)
  BY <1>13, <1>14, <1>15, QuantityFilled DEF Fits
<1>7. PICK d : d = call'[s]
  OBVIOUS
<1>8. /\ \A r \in Slot \ {s} : call'[r] = call[r]
      /\ d.stage = "served"
      /\ d.reply.id = call[s].id /\ d.reply.items = rows
      /\ d.op = "persist" /\ d.tab = call[s].tab
      /\ d.id = call[s].id /\ d.items = call[s].items
  BY <1>1, <1>2, <1>7, <1>14, <1>15, AnsweredIs
<1>9. carts'[storage] = rows
  BY <1>1, <1>5, <1>14, <1>15
<1>10. PICK K : K = B \cup {rows}
  OBVIOUS
<1>11. CallIn(K, d)'
  BY <1>1, <1>5, <1>8, <1>10, <1>14 DEF CallIn
<1>12. Orderly'
  <2>1. storage' = 0 => pending' = {}
    BY <1>1, <1>2 DEF Orderly
  <2>2. Open' => Open
    BY <1>1, OpenKept
  <2> QED BY <1>1, <1>2, <1>4, <1>7, <1>8, <2>1, <2>2, OrderlyOn DEF Out
<1>17. /\ \A y \in K : Fits(y, wanted)
       /\ Sure => \A y, z \in K : Alike(y, z)
  <2>1. \A y \in K : Fits(y, wanted)
    BY <1>10, <1>13, <1>16
  <2>2. ASSUME Sure PROVE \A y \in K : Alike(y, x)
    BY <1>10, <1>13, <1>14, <1>16, <2>2
  <2> QED BY <2>1, <2>2, AlikeAll
<1>18. \A u \in Tab : modal'[u].open =>
          modal[u].open /\ modal'[u].cart = modal[u].cart
  BY <1>1
<1>19. d.op \in {"merge", "persist", "start"} /\ B \subseteq K /\ rows \in K
  BY <1>8, <1>10
<1>20. \A u \in Tab : drawer'[u].cart = drawer[u].cart
  BY <1>1
<1>21. UNCHANGED <<storage, pending, wanted>>
  BY <1>1
<1> QED BY <1>3, <1>7, <1>8, <1>9, <1>11, <1>12, <1>13, <1>17,
           <1>18, <1>19, <1>20, <1>21, NoEditStep

(* get_embed_cart.                                                          *)
LEMMA ServeGetAligned ==
    ASSUME Steady, calm', NEW s \in Slot, ServeRead(s), Sent(s, "get")
    PROVE  Aligned'
<1>1. /\ calm /\ UNCHANGED <<carts, storage, pending, drawer, modal, wanted>>
      /\ call[s].stage = "sent" /\ call[s].op = "get"
      /\ Answered(s, call[s].id, carts[call[s].id])
  BY DEF ServeRead, Sent, ghosts
<1>2. Orderly /\ Editing /\ Typed(Standard) /\ \E B, L : Shared(B, L)
  BY <1>1, CalmIs
<1>3. PICK B, L : Shared(B, L)
  BY <1>2
<1>4. Out(s) /\ Loads(s)
  BY <1>1 DEF Out, Loads
<1>5. call[s].id = storage /\ carts[storage] \in L
  BY <1>1, <1>2, <1>3, <1>4, CallFound
<1>6. PICK d : d = call'[s]
  OBVIOUS
<1>7. /\ \A r \in Slot \ {s} : call'[r] = call[r]
      /\ d.stage = "served"
      /\ d.reply.id = call[s].id /\ d.reply.items = carts[call[s].id]
      /\ d.op = "get" /\ d.tab = call[s].tab /\ d.id = call[s].id
  BY <1>1, <1>2, <1>6, AnsweredIs
<1>8. Out(s)' /\ Loads(s)'
  BY <1>6, <1>7 DEF Out, Loads
<1>9. Orderly'
  <2>1. storage' = 0 => pending' = {}
    BY <1>1, <1>2 DEF Orderly
  <2>2. Open' => Open
    BY <1>1, OpenKept
  <2> QED BY <1>1, <1>2, <1>4, <1>6, <1>7, <1>8, <2>1, <2>2, OrderlyOn
<1>10. \A r \in Slot : Main(r) \/ Main(r)' => call'[r] = call[r]
  BY <1>1, <1>6, <1>7 DEF Main
<1>11. \A u \in Tab : LoadsFor(u)' <=> LoadsFor(u)
  BY <1>4, <1>6, <1>7, <1>8 DEF LoadsFor, Loads, Out
<1>12. DrawersIn(L)' /\ ModalsIn(L)'
  BY <1>1, <1>3, <1>11 DEF Shared, DrawersIn, DrawerIn, ModalsIn
<1>13. CallsIn(L)'
  <2>1. CallIn(L, d)'
    BY <1>1, <1>5, <1>7 DEF CallIn
  <2> QED BY <1>1, <1>3, <1>6, <1>7, <2>1, CallsInStay DEF Shared
<1>14. \A u \in Tab : u \notin pending /\ ~LoadsFor(u) =>
                          u \notin pending' /\ ~LoadsFor(u)'
  BY <1>1, <1>11
<1> QED BY <1>1, <1>2, <1>3, <1>9, <1>10, <1>12, <1>13, <1>14, LoadStep

(* A login or a checkout goes on at the server, with no other carts.        *)
LEMMA MainGoesOn ==
    ASSUME Orderly, NEW B, NEW L, Shared(B, L), NEW s \in Slot, Main(s),
           call[s].op \in {"merge", "persist", "start"},
           \A r \in Slot \ {s} : call'[r] = call[r],
           NEW d, d = call'[s],
           d.op \in {"merge", "persist", "start"} /\ d.tab = call[s].tab,
           d.op = "merge" <=> call[s].op = "merge",
           d.stage # "none", CallIn(L, d)',
           UNCHANGED <<carts, storage, pending, drawer, wanted>>,
           \A u \in Tab : modal'[u].open =>
              /\ modal[u].open
              /\ \/ modal'[u].cart = modal[u].cart
                 \/ modal'[u].cart.id = storage /\ modal'[u].cart.items \in L
    PROVE  Aligned'
<1>1. /\ Patches = {} /\ L = B /\ ~Loads(s)
      /\ \A r \in Slot \ {s} : ~Main(r)
      /\ \A y \in B : Fits(y, wanted)
      /\ Sure => \A y, z \in B : Alike(y, z)
  BY MainFound
<1>2. Orderly'
  <2>1. storage' = 0 => pending' = {}
    BY DEF Orderly
  <2>2. Open' => Open
    BY DEF Open
  <2>3. Out(s) /\ Out(s)'
    BY DEF Main, Out
  <2> QED BY <2>1, <2>2, <2>3, OrderlyOn
<1>3. storage # 0 => carts'[storage] \in B
  BY <1>1 DEF Shared, CartIn
<1>4. \A u \in Tab : drawer'[u].cart = drawer[u].cart
  OBVIOUS
<1> QED BY <1>1, <1>2, <1>3, <1>4, NoEditStep

(* merge_embed_cart.                                                        *)
LEMMA ServeMergeAligned ==
    ASSUME Steady, calm', NEW s \in Slot, ServeRead(s), Sent(s, "merge")
    PROVE  Aligned'
<1>1. /\ calm /\ UNCHANGED <<carts, storage, pending, drawer, modal, wanted>>
      /\ call[s].stage = "sent" /\ call[s].op = "merge"
      /\ Answered(s, call[s].id, carts[call[s].id])
  BY DEF ServeRead, Sent, ghosts
<1>2. Orderly /\ Typed(Standard) /\ \E B, L : Shared(B, L)
  BY <1>1, CalmIs
<1>3. PICK B, L : Shared(B, L)
  BY <1>2
<1>4. Out(s) /\ Main(s)
  BY <1>1 DEF Out, Main
<1>5. call[s].id = storage /\ carts[storage] \in L
  BY <1>1, <1>2, <1>3, <1>4, CallFound
<1>6. PICK d : d = call'[s]
  OBVIOUS
<1>7. /\ \A r \in Slot \ {s} : call'[r] = call[r]
      /\ d.stage = "served"
      /\ d.reply.id = call[s].id /\ d.reply.items = carts[call[s].id]
      /\ d.op = "merge" /\ d.tab = call[s].tab /\ d.id = call[s].id
  BY <1>1, <1>2, <1>6, AnsweredIs
<1>8. CallIn(L, d)'
  BY <1>1, <1>5, <1>7 DEF CallIn
<1>9. \A u \in Tab : modal'[u] = modal[u]
  BY <1>1
<1> QED BY <1>1, <1>2, <1>3, <1>4, <1>6, <1>7, <1>8, <1>9, MainGoesOn

(* start_embed_checkout.                                                    *)
LEMMA ServeCheckoutAligned ==
    ASSUME Steady, calm', NEW s \in Slot, ServeCheckout(s)
    PROVE  Aligned'
<1>1. /\ calm /\ UNCHANGED <<carts, storage, pending, drawer, modal, wanted>>
      /\ call[s].stage = "sent" /\ call[s].op = "start"
  BY DEF ServeCheckout, Sent, ghosts
<1>2. Orderly /\ Typed(Standard) /\ \E B, L : Shared(B, L)
  BY <1>1, CalmIs
<1>3. PICK B, L : Shared(B, L)
  BY <1>2
<1>4. Out(s) /\ Main(s)
  BY <1>1 DEF Out, Main
<1>5. /\ call[s].id = storage /\ CallIn(L, call[s])
      /\ call[s] \in Calls(Standard)
  BY <1>1, <1>2, <1>3, <1>4, CallFound
<1>6. PICK d : d = call'[s]
  OBVIOUS
<1>7. /\ \A r \in Slot \ {s} : call'[r] = call[r]
      /\ d.stage \in {"served", "failed"}
      /\ d.op = "start" /\ d.tab = call[s].tab
      /\ d.id = call[s].id /\ d.items = call[s].items
  <2>1. CASE carts[call[s].id] = Empty
    <3>1. PICK c : c = [call[s] EXCEPT !.stage = "failed"]
      OBVIOUS
    <3>2. call' = [call EXCEPT ![s] = c]
      BY <2>1, <3>1 DEF ServeCheckout
    <3>3. /\ c.stage = "failed" /\ c.op = call[s].op /\ c.tab = call[s].tab
          /\ c.id = call[s].id /\ c.items = call[s].items
      BY <1>5, <3>1 DEF Calls
    <3>4. c = d /\ \A r \in Slot \ {s} : call'[r] = call[r]
      BY <1>2, <1>6, <3>2, CallIs
    <3> QED BY <1>1, <3>3, <3>4
  <2>2. CASE carts[call[s].id] # Empty
    <3>1. Answered(s, Len(orders) + 1, Empty)
      BY <2>2 DEF ServeCheckout
    <3> QED BY <1>1, <1>2, <1>6, <3>1, AnsweredIs
  <2> QED BY <2>1, <2>2
<1>8. CallIn(L, d)'
  BY <1>1, <1>5, <1>7 DEF CallIn
<1>9. \A u \in Tab : modal'[u] = modal[u]
  BY <1>1
<1> QED BY <1>1, <1>2, <1>3, <1>4, <1>6, <1>7, <1>8, <1>9, MainGoesOn

(* A call fails, which is not the loading of a cart.                        *)
LEMMA FailAligned ==
    ASSUME Steady, calm', NEW s \in Slot, Fail(s)
    PROVE  Aligned'
<1>10. calm /\ call[s].op # "get" /\ UNCHANGED wanted
  <2>1. PICK calmly \in BOOLEAN : /\ Expect(calmly, wanted)
                                  /\ calmly <=> call[s].op # "get"
    BY DEF Fail
  <2>2. calm \in BOOLEAN
    BY DEF Steady, Typed
  <2> QED BY <2>1, <2>2, CalmExpects
<1>1. /\ calm /\ UNCHANGED <<carts, storage, pending, drawer, modal, wanted>>
      /\ call[s].stage \in {"sent", "served"} /\ call[s].op # "get"
  BY <1>10 DEF Fail
<1>2. Orderly /\ Editing /\ Typed(Standard) /\ \E B, L : Shared(B, L)
  BY <1>1, CalmIs
<1>3. PICK B, L : Shared(B, L)
  BY <1>2
<1>4. Out(s) /\ Main(s)
  BY <1>1 DEF Out, Main
<1>5. /\ CallIn(L, call[s]) /\ call[s] \in Calls(Standard)
      /\ storage # 0 => carts[storage] \in L
  BY <1>1, <1>2, <1>3, <1>4, CallFound
<1>6. PICK d : d = call'[s]
  OBVIOUS
<1>7. /\ \A r \in Slot \ {s} : call'[r] = call[r]
      /\ d.stage = "failed"
      /\ d.op = call[s].op /\ d.tab = call[s].tab
      /\ d.id = call[s].id /\ d.items = call[s].items
      /\ d.choice = call[s].choice /\ d.want = call[s].want
  BY <1>1, <1>2, <1>6, FailedIs
<1>8. CASE call[s].op \in {"create", "patch"}
  <2>1. Edits(call[s])
    BY <1>2, <1>4, <1>8 DEF Editing
  <2>2. ~LoadsFor(d.tab) => ~LoadsFor(d.tab)'
    <3>1. ~Loads(s)'
      BY <1>1, <1>6, <1>7 DEF Loads
    <3> QED BY <1>7, <3>1 DEF LoadsFor, Loads, Out
  <2>3. Edits(d)'
    BY <1>1, <1>7, <2>1, <2>2 DEF Edits, Puts
  <2>4. /\ d.stage \in {"served", "failed"}
        /\ storage # 0 => carts'[storage] \in L
    BY <1>1, <1>5, <1>7
  <2> QED BY <1>1, <1>2, <1>3, <1>4, <1>6, <1>7, <1>8, <2>3, <2>4, EditGoesOn
<1>9. CASE call[s].op \notin {"create", "patch"}
  <2>1. call[s].op \in {"merge", "persist", "start"}
    BY <1>1, <1>5, <1>9 DEF Calls, Op
  <2>2. CallIn(L, d)'
    BY <1>1, <1>5, <1>7, <2>1 DEF CallIn
  <2>3. \A u \in Tab : modal'[u] = modal[u]
    BY <1>1
  <2> QED BY <1>1, <1>2, <1>3, <1>4, <1>6, <1>7, <2>1, <2>2, <2>3, MainGoesOn
<1> QED BY <1>8, <1>9
-----------------------------------------------------------------------------
(* What the answers do.                                                     *)

(* A call that has ended.                                                   *)
LEMMA Finished ==
    ASSUME NEW H, Typed(H), NEW s \in Slot, Finish(s)
    PROVE  /\ ~Out(s)' /\ ~Loads(s)' /\ ~Main(s)'
           /\ \A r \in Slot \ {s} : call'[r] = call[r]
<1>1. PICK d : d = Idle
  OBVIOUS
<1>2. call'[s] = d /\ \A r \in Slot \ {s} : call'[r] = call[r]
  BY <1>1, CallIs DEF Finish
<1>3. d.stage = "none"
  BY <1>1 DEF Idle
<1> QED BY <1>2, <1>3 DEF Out, Loads, Main

(* A tab loads what the others load, when a call that is no load ends.      *)
LEMMA LoadsEnd ==
    ASSUME NEW s \in Slot, \A r \in Slot \ {s} : call'[r] = call[r], ~Out(s)'
    PROVE  \A t \in Tab : \/ LoadsFor(t)' <=> LoadsFor(t)
                          \/ Loads(s) /\ call[s].tab = t
BY DEF LoadsFor, Loads, Out

(* A login or a checkout ends.                                              *)
LEMMA MainEnds ==
    ASSUME Orderly, NEW B, NEW L, Shared(B, L), NEW s \in Slot, Main(s),
           call[s].op \in {"merge", "persist", "start"},
           Typed(Standard), Finish(s),
           UNCHANGED <<carts, storage, pending, wanted>>,
           \A u \in Tab : \/ drawer'[u].cart = drawer[u].cart
                          \/ DrawerIn(L, u)',
           \A u \in Tab : modal'[u].open =>
              modal[u].open /\ modal'[u].cart = modal[u].cart
    PROVE  Aligned'
<1>1. /\ Patches = {} /\ L = B /\ ~Loads(s)
      /\ \A r \in Slot \ {s} : ~Main(r)
      /\ \A y \in B : Fits(y, wanted)
      /\ Sure => \A y, z \in B : Alike(y, z)
  BY MainFound
<1>2. ~Out(s)' /\ \A r \in Slot \ {s} : call'[r] = call[r]
  BY Finished
<1>3. Orderly'
  <2>1. storage' = 0 => pending' = {}
    BY DEF Orderly
  <2>2. (Open' => Open) /\ Out(s)
    BY DEF Open, Main
  <2> QED BY <1>2, <2>1, <2>2, OrderlyEnd
<1>4. storage # 0 => carts'[storage] \in B
  BY <1>1 DEF Shared, CartIn
<1>5. PICK d : d = call'[s]
  OBVIOUS
<1> QED BY <1>1, <1>2, <1>3, <1>4, <1>5, NoEditStep

(* addItem goes on.                                                         *)
LEMMA CreatedAligned ==
    ASSUME Steady, calm', NEW s \in Slot, Created(s)
    PROVE  Aligned'
<1>27. PICK t, id : t = call[s].tab /\ id = call[s].reply.id
  OBVIOUS
<1>1. /\ calm /\ UNCHANGED <<carts, drawer, modal, wanted>>
      /\ call[s].stage = "served" /\ call[s].op = "create" /\ t \in Tab
      /\ storage' = id
      /\ pending' = IF storage = id THEN pending ELSE pending \cup (Tab \ {t})
  BY <1>27 DEF Created, Got, Store, ghosts
<1>2. /\ Orderly /\ Editing /\ Typed(Standard) /\ KnownCarts
      /\ \E B, L : Shared(B, L)
  BY <1>1, CalmIs
<1>3. PICK B, L : Shared(B, L)
  BY <1>2
<1>4. Out(s) /\ Main(s) /\ Edits(call[s])
  BY <1>1, <1>2 DEF Editing, Out, Main
<1>5. KnownCall(call[s]) /\ call[s] \in Calls(Standard)
  BY <1>2, <1>3, <1>4, CallFound
<1>6. /\ Patches = {} /\ L = B /\ pending = {} /\ ~Open
      /\ \A r \in Slot : ~Loads(r)
      /\ \A r \in Slot \ {s} : ~Main(r)
      /\ Empty \in B
  <2>1. ~Open
    BY <1>1, <1>2, <1>4 DEF Orderly
  <2>2. pending = {} /\ \A r \in Slot : ~Loads(r)
    BY <1>1, <1>2, <1>4 DEF Orderly
  <2>3. Empty \in B
    BY <1>1, <1>3, <1>4 DEF Shared, Agreed
  <2> QED BY <1>1, <1>2, <1>3, <1>4, <2>1, <2>2, <2>3, MainFound
<1>7. \A r \in Slot \ {s} : ~Out(r)
  BY <1>6 DEF Main, Loads
<1>8. /\ id # 0 /\ carts[id] = Empty /\ call[s].reply.items = Empty
      /\ drawer[t].cart.id = 0 /\ drawer[t].cart.items = Empty
  BY <1>1, <1>2, <1>4, <1>5, <1>27 DEF Edits, KnownCall, KnownCarts, KnownCopy
<1>9. PICK x \in Choice :
         call[s].choice = {x} /\ Fits(WithItem(Empty, x), call[s].want)
  BY <1>1, <1>4 DEF Edits, Puts
<1>10. (CHOOSE c \in call[s].choice : TRUE) = x
  BY <1>9
<1>11. PICK d : d = [call[s] EXCEPT !.op = "patch", !.stage = "sent",
                        !.id = id, !.items = WithItem(Empty, x),
                        !.reply = NoCart]
  OBVIOUS
<1>12. call' = [call EXCEPT ![s] = d]
  BY <1>8, <1>10, <1>11, <1>27 DEF Created
<1>13. /\ d.op = "patch" /\ d.stage = "sent" /\ d.id = id
       /\ d.items = WithItem(Empty, x) /\ d.want = call[s].want /\ d.tab = t
  BY <1>5, <1>11, <1>27 DEF Calls
<1>14. call'[s] = d /\ \A r \in Slot \ {s} : call'[r] = call[r]
  BY <1>2, <1>12, CallIs
<1>15. Out(s)' /\ Main(s)' /\ \A r \in Slot \ {s} : ~Out(r)' /\ ~Main(r)'
  BY <1>7, <1>13, <1>14 DEF Out, Main
<1>16. Orderly'
  <2>1. storage' # 0 /\ (Open' => Open)
    BY <1>1, <1>8 DEF Open
  <2> QED BY <1>1, <1>2, <1>4, <1>13, <1>14, <1>15, <1>27, <2>1, OrderlyOn
<1>17. ~LoadsFor(t)' /\ t \notin pending'
  <2>1. ~Loads(s)' /\ \A r \in Slot \ {s} : ~Loads(r)'
    BY <1>13, <1>14, <1>15 DEF Loads
  <2> QED BY <1>1, <1>6, <2>1 DEF LoadsFor
<1>18. Edits(d)'
  <2>1. \E l \in Line : \E v \in wanted[l] : \E w \in d.want[l] : v # w
    BY <1>4, <1>13 DEF Edits
  <2>2. Fits(d.items, d.want)
    BY <1>9, <1>13
  <2>3. d.op = "patch" /\ d.stage = "sent" /\ d.tab = t
    BY <1>13
  <2> QED BY <1>1, <1>17, <2>1, <2>2, <2>3 DEF Edits
<1>19. Editing'
  BY <1>14, <1>15, <1>18 DEF Editing, Edits
<1>20. Agreed(B)'
  BY <1>1, <1>3, <1>13, <1>14, <1>15 DEF Shared, Agreed, Sure
<1>21. PICK K : K = B \cup Patches'
  OBVIOUS
<1>22. CartIn(K)'
  BY <1>1, <1>6, <1>8, <1>21 DEF CartIn
<1>23. DrawersIn(K)'
  <2> SUFFICES ASSUME NEW u \in Tab, u \notin pending' PROVE DrawerIn(K, u)'
    BY DEF DrawersIn
  <2>1. CASE u = t
    BY <1>1, <1>6, <1>8, <1>21, <2>1 DEF DrawerIn
  <2>2. CASE u # t
    <3>1. storage = id
      BY <1>1, <2>2
    <3>2. DrawerIn(B, u)
      BY <1>3, <1>6 DEF Shared, DrawersIn, LoadsFor
    <3> QED BY <1>1, <1>21, <3>1, <3>2 DEF DrawerIn
  <2> QED BY <2>1, <2>2
<1>24. ModalsIn(K)'
  BY <1>1, <1>6 DEF ModalsIn, Open
<1>25. CallsIn(K)'
  BY <1>1, <1>13, <1>14, <1>15 DEF CallsIn, CallIn
<1>26. Shared(B, K)'
  BY <1>20, <1>21, <1>22, <1>23, <1>24, <1>25 DEF Shared
<1> QED BY <1>16, <1>19, <1>26 DEF Aligned

(* addItem and updateItemQuantity end.                                      *)
LEMMA UpdatedAligned ==
    ASSUME Steady, calm', NEW s \in Slot, Updated(s)
    PROVE  Aligned'
<1>21. PICK t, items : t = call[s].tab /\ items = call[s].items
  OBVIOUS
<1>1. /\ UNCHANGED <<carts, storage, modal>>
      /\ call[s].stage = "served" /\ call[s].op = "patch" /\ t \in Tab
      /\ pending' = pending \cup (Tab \ {t})
      /\ Finish(s) /\ Expect(TRUE, call[s].want)
      /\ drawer' = [drawer EXCEPT ![t] =
                       [cart |-> call[s].reply, syncing |-> FALSE]]
  BY <1>21 DEF Updated, Got, Touch
<1>2. calm /\ wanted' = call[s].want
  BY <1>1 DEF Expect, Steady, Typed
<1>3. Orderly /\ Editing /\ Typed(Standard) /\ \E B, L : Shared(B, L)
  BY <1>2, CalmIs
<1>4. PICK B, L : Shared(B, L)
  BY <1>3
<1>5. Out(s) /\ Main(s) /\ Edits(call[s])
  BY <1>1, <1>3 DEF Editing, Out, Main
<1>6. storage # 0
  BY <1>1, <1>3, <1>4, <1>5, CallFound
<1>7. /\ carts[storage] = items /\ Fits(items, wanted')
      /\ call[s].reply.id = storage /\ call[s].reply.items = items
      /\ t \notin pending /\ ~LoadsFor(t)
  BY <1>1, <1>2, <1>5, <1>21 DEF Edits
<1>8. ~Open /\ \A r \in Slot \ {s} : ~Main(r)
  BY <1>1, <1>3, <1>5, OnlyPatch DEF Orderly
<1>9. ~Out(s)' /\ \A r \in Slot \ {s} : call'[r] = call[r]
  BY <1>1, <1>3, Finished
<1>10. ~Open'
  BY <1>1, <1>8 DEF Open
<1>11. Orderly'
  BY <1>1, <1>3, <1>5, <1>6, <1>9, <1>10, OrderlyEnd
<1>12. drawer'[t].cart = call[s].reply
  BY <1>1, <1>3 DEF Typed
<1>13. PICK K : K = {items}
  OBVIOUS
<1>14. \A r \in Slot : ~Main(r)'
  BY <1>8, <1>9 DEF Main, Out
<1>15. Editing' /\ Patches' = {}
  BY <1>14 DEF Editing, Patches, Main
<1>16. Agreed(K)'
  BY <1>7, <1>13, <1>14 DEF Agreed, Alike, Main
<1>17. CartIn(K)' /\ ModalsIn(K)'
  BY <1>1, <1>7, <1>10, <1>13 DEF CartIn, ModalsIn, Open
<1>18. DrawersIn(K)'
  <2>1. DrawerIn(K, t)'
    BY <1>1, <1>7, <1>12, <1>13 DEF DrawerIn
  <2>2. \A u \in Tab : u = t \/ u \in pending'
    BY <1>1
  <2> QED BY <2>1, <2>2 DEF DrawersIn
<1>19. CallsIn(K)'
  <2> SUFFICES ASSUME NEW r \in Slot, Out(r)' PROVE CallIn(K, call[r])'
    BY DEF CallsIn
  <2>1. r # s /\ call'[r] = call[r] /\ Out(r)
    BY <1>9 DEF Out
  <2>2. Loads(r) /\ call[r].tab \in Tab
    BY <1>3, <1>8, <2>1 DEF Loads, Main, Orderly
  <2>3. call[r].tab \in pending'
    BY <1>1, <1>7, <2>2 DEF LoadsFor
  <2>4. CallIn(L, call[r])
    BY <1>4, <2>1 DEF Shared, CallsIn
  <2> QED BY <1>1, <2>1, <2>2, <2>3, <2>4 DEF CallIn, Loads
<1>20. Shared(K, K)'
  BY <1>15, <1>16, <1>17, <1>18, <1>19 DEF Shared
<1> QED BY <1>11, <1>15, <1>20 DEF Aligned

(* Either ends with an error.                                               *)
LEMMA EditFailedAligned ==
    ASSUME Steady, calm', NEW s \in Slot, EditFailed(s)
    PROVE  Aligned'
<1>1. /\ UNCHANGED <<carts, storage, pending, modal>>
      /\ call[s].stage = "failed" /\ call[s].op \in {"create", "patch"}
      /\ Finish(s)
      /\ Expect(TRUE, IF calm
                      THEN [l \in Line |-> wanted[l] \cup call[s].want[l]]
                      ELSE wanted)
      /\ drawer' = [drawer EXCEPT ![call[s].tab].syncing = FALSE]
  BY DEF EditFailed, Lost
<1>2. calm /\ wanted' = [l \in Line |-> wanted[l] \cup call[s].want[l]]
  BY <1>1 DEF Expect, Steady, Typed
<1>3. Orderly /\ Editing /\ Typed(Standard) /\ \E B, L : Shared(B, L)
  BY <1>2, CalmIs
<1>4. PICK B, L : Shared(B, L)
  BY <1>3
<1>5. Out(s) /\ Main(s) /\ Edits(call[s])
  BY <1>1, <1>3 DEF Editing, Out, Main
<1>6. /\ call[s].op = "patch" => Patches = {call[s].items}
      /\ call[s].op # "patch" => Patches = {}
      /\ \A r \in Slot \ {s} : ~Main(r)
  BY <1>3, <1>5, OnlyPatch
<1>7. ~Out(s)' /\ ~Loads(s) /\ \A r \in Slot \ {s} : call'[r] = call[r]
  BY <1>1, <1>3, Finished DEF Loads
<1>8. Open' => Open
  BY <1>1, OpenKept
<1>9. Orderly'
  <2>1. storage' = 0 => pending' = {}
    BY <1>1, <1>3 DEF Orderly
  <2> QED BY <1>1, <1>3, <1>5, <1>7, <1>8, <2>1, OrderlyEnd
<1>10. \A r \in Slot : ~Main(r)'
  BY <1>6, <1>7 DEF Main, Out
<1>11. Editing' /\ Patches' = {}
  BY <1>10 DEF Editing, Patches, Main
<1>12. \A u \in Tab : drawer'[u].cart = drawer[u].cart
  BY <1>1, <1>3 DEF Typed, Drawers
<1>13. \A y \in L : Fits(y, wanted')
  <2> SUFFICES ASSUME NEW y \in L, NEW l \in Line
               PROVE  Quantity(y, l) \in wanted[l] \cup call[s].want[l]
    BY <1>2 DEF Fits
  <2>1. CASE y \in B
    BY <1>4, <2>1 DEF Shared, Agreed, Fits
  <2>2. CASE y \in Patches
    BY <1>5, <1>6, <2>2 DEF Edits, Fits
  <2> QED BY <1>4, <2>1, <2>2 DEF Shared
<1>14. ~Sure'
  <2>1. PICK l \in Line : \E v \in wanted[l] : \E w \in call[s].want[l] : v # w
    BY <1>5 DEF Edits
  <2>2. \E v, w \in wanted'[l] : v # w
    BY <1>2, <2>1
  <2> QED BY <2>2 DEF Sure
<1>15. Agreed(L)'
  BY <1>10, <1>13, <1>14 DEF Agreed, Main
<1>16. CartIn(L)' /\ ModalsIn(L)'
  BY <1>1, <1>4 DEF Shared, CartIn, ModalsIn
<1>17. \A u \in Tab : LoadsFor(u)' <=> LoadsFor(u)
  BY <1>7, LoadsEnd
<1>18. DrawersIn(L)'
  BY <1>1, <1>4, <1>12, <1>17 DEF Shared, DrawersIn, DrawerIn
<1>19. CallsIn(L)'
  <2>1. PICK d : d = call'[s]
    OBVIOUS
  <2> QED BY <1>1, <1>4, <1>7, <2>1, CallsInStay DEF Shared
<1>20. Shared(L, L)'
  BY <1>11, <1>15, <1>16, <1>18, <1>19 DEF Shared
<1> QED BY <1>9, <1>11, <1>20 DEF Aligned

(* loadPersistedCart ends.                                                  *)
LEMMA LoadedAligned ==
    ASSUME Steady, calm', NEW s \in Slot, Loaded(s)
    PROVE  Aligned'
<1>1. PICK t : t = call[s].tab
  OBVIOUS
<1>2. /\ calm /\ UNCHANGED <<carts, modal, wanted>> /\ Finish(s)
      /\ call[s].stage \in {"served", "failed"} /\ call[s].op = "get"
      /\ t \in Tab
  BY <1>1 DEF Loaded, Got, Lost, ghosts
<1>3. Orderly /\ Editing /\ Typed(Standard) /\ \E B, L : Shared(B, L)
  BY <1>2, CalmIs
<1>4. PICK B, L : Shared(B, L)
  BY <1>3
<1>5. Out(s) /\ Loads(s)
  BY <1>2 DEF Out, Loads
<1>6. call[s].stage = "served"
  BY <1>2, <1>3, <1>5 DEF Orderly
<1>7. /\ drawer' = [drawer EXCEPT ![t].cart = call[s].reply]
      /\ UNCHANGED <<storage, pending>>
  BY <1>1, <1>6 DEF Loaded, Lost
<1>8. ~Out(s)' /\ ~Loads(s)' /\ \A r \in Slot \ {s} : call'[r] = call[r]
  BY <1>2, <1>3, Finished
<1>9. Orderly'
  <2>1. storage' = 0 => pending' = {}
    BY <1>3, <1>7 DEF Orderly
  <2>2. Open' => Open
    BY <1>2, OpenKept
  <2> QED BY <1>3, <1>5, <1>7, <1>8, <2>1, <2>2, OrderlyEnd
<1>10. \A r \in Slot : Main(r) \/ Main(r)' => call'[r] = call[r]
  BY <1>2, <1>8 DEF Main, Out
<1>11. /\ drawer'[t].cart = call[s].reply
       /\ \A u \in Tab \ {t} : drawer'[u].cart = drawer[u].cart
  BY <1>2, <1>3, <1>7 DEF Typed, Drawers
<1>12. DrawersIn(L)'
  <2>1. CallIn(L, call[s])
    BY <1>4, <1>5 DEF Shared, CallsIn
  <2>2. t \in pending' \/ DrawerIn(L, t)'
    BY <1>1, <1>2, <1>6, <1>7, <1>11, <2>1 DEF CallIn, DrawerIn
  <2>3. \A u \in Tab \ {t} : LoadsFor(u)' <=> LoadsFor(u)
    BY <1>1, <1>8, LoadsEnd
  <2> QED BY <1>4, <1>7, <1>11, <2>2, <2>3, DrawersInStay DEF Shared
<1>13. CallsIn(L)'
  <2>1. PICK d : d = call'[s]
    OBVIOUS
  <2> QED BY <1>4, <1>7, <1>8, <2>1, CallsInStay DEF Shared
<1>14. ModalsIn(L)'
  BY <1>2, <1>4, <1>7 DEF Shared, ModalsIn
<1>15. \A u \in Tab : u \notin pending /\ ~LoadsFor(u) =>
                          u \notin pending' /\ ~LoadsFor(u)'
  BY <1>7, <1>8 DEF LoadsFor, Loads, Out
<1>16. ~\E r \in Slot : Out(r) /\ call[r].op = "create"
  BY <1>3, <1>5 DEF Orderly
<1> QED BY <1>2, <1>3, <1>4, <1>7, <1>9, <1>10, <1>12, <1>13, <1>14, <1>15,
           <1>16, LoadStep

(* _handleCustomerLoggedIn ends.                                            *)
LEMMA MergedAligned ==
    ASSUME Steady, calm', NEW s \in Slot, Merged(s)
    PROVE  Aligned'
<1>1. PICK t : t = call[s].tab
  OBVIOUS
<1>2. /\ calm /\ UNCHANGED <<carts, modal, wanted>> /\ Finish(s)
      /\ call[s].stage \in {"served", "failed"} /\ call[s].op = "merge"
      /\ t \in Tab
  BY <1>1 DEF Merged, Got, Lost, ghosts
<1>3. Orderly /\ Typed(Standard) /\ \E B, L : Shared(B, L)
  BY <1>2, CalmIs
<1>4. PICK B, L : Shared(B, L)
  BY <1>3
<1>5. Out(s) /\ Main(s)
  BY <1>2 DEF Out, Main
<1>6. CallIn(L, call[s])
  BY <1>4, <1>5 DEF Shared, CallsIn
<1>7. UNCHANGED <<storage, pending>>
  <2>1. CASE call[s].stage = "served"
    <3>1. call[s].reply.id = storage
      BY <1>2, <1>6, <2>1 DEF CallIn
    <3> QED BY <2>1, <3>1 DEF Merged, Lost, Store
  <2>2. CASE call[s].stage = "failed"
    BY <2>2 DEF Merged, Got
  <2> QED BY <1>2, <2>1, <2>2
<1>8. \A u \in Tab : \/ drawer'[u].cart = drawer[u].cart
                     \/ DrawerIn(L, u)'
  <2>1. CASE call[s].stage = "served"
    <3>1. drawer' = [drawer EXCEPT ![t].cart = call[s].reply]
      BY <1>1, <2>1 DEF Merged, Lost
    <3>2. /\ drawer'[t].cart = call[s].reply
          /\ \A u \in Tab \ {t} : drawer'[u].cart = drawer[u].cart
      BY <1>2, <1>3, <3>1 DEF Typed, Drawers
    <3>3. DrawerIn(L, t)'
      BY <1>2, <1>6, <1>7, <2>1, <3>2 DEF CallIn, DrawerIn
    <3> QED BY <3>2, <3>3
  <2>2. CASE call[s].stage = "failed"
    BY <2>2 DEF Merged, Got
  <2> QED BY <1>2, <2>1, <2>2
<1>9. \A u \in Tab : modal'[u] = modal[u]
  BY <1>2
<1> QED BY <1>2, <1>3, <1>4, <1>5, <1>7, <1>8, <1>9, MainEnds

(* submit goes on.                                                          *)
LEMMA PersistedAligned ==
    ASSUME Steady, calm', NEW s \in Slot, Persisted(s)
    PROVE  Aligned'
<1>1. PICK t : t = call[s].tab
  OBVIOUS
<1>2. /\ calm /\ UNCHANGED <<carts, storage, pending, drawer, wanted>>
      /\ call[s].stage \in {"served", "failed"} /\ call[s].op = "persist"
      /\ t \in Tab
  BY <1>1 DEF Persisted, Got, Lost, ghosts
<1>3. Orderly /\ Typed(Standard) /\ \E B, L : Shared(B, L)
  BY <1>2, CalmIs
<1>4. PICK B, L : Shared(B, L)
  BY <1>3
<1>5. Out(s) /\ Main(s)
  BY <1>2 DEF Out, Main
<1>6. CallIn(L, call[s]) /\ call[s] \in Calls(Standard)
  BY <1>3, <1>4, <1>5, CallFound
<1>7. PICK d : d = call'[s]
  OBVIOUS
<1>8. /\ \A r \in Slot \ {s} : call'[r] = call[r]
      /\ d.op = "start" /\ d.stage = "sent" /\ d.tab = call[s].tab
      /\ d.id = call[s].id /\ d.items = call[s].items
  <2>1. PICK c : c = [call[s] EXCEPT !.op = "start", !.stage = "sent",
                                     !.reply = NoCart]
    OBVIOUS
  <2>2. call \in [Slot -> Calls(Standard)]
    BY <1>3 DEF Typed
  <2>3. call' = [call EXCEPT ![s] = c]
    BY <2>1, <2>2 DEF Persisted
  <2>4. /\ c.op = "start" /\ c.stage = "sent" /\ c.tab = call[s].tab
        /\ c.id = call[s].id /\ c.items = call[s].items
    BY <1>6, <2>1 DEF Calls
  <2>5. c = d /\ \A r \in Slot \ {s} : call'[r] = call[r]
    BY <1>3, <1>7, <2>3, CallIs
  <2> QED BY <2>4, <2>5
<1>9. CallIn(L, d)'
  BY <1>2, <1>6, <1>8 DEF CallIn
<1>10. \A u \in Tab : modal'[u].open =>
          /\ modal[u].open
          /\ \/ modal'[u].cart = modal[u].cart
             \/ modal'[u].cart.id = storage /\ modal'[u].cart.items \in L
  <2>1. CASE call[s].stage = "served"
    <3>1. modal' = [modal EXCEPT ![t].cart =
                       IF modal[t].open THEN call[s].reply ELSE @]
      BY <1>1, <2>1 DEF Persisted, Lost
    <3>2. /\ modal'[t].open = modal[t].open
          /\ modal[t].open => modal'[t].cart = call[s].reply
          /\ \A u \in Tab \ {t} : modal'[u] = modal[u]
      BY <1>2, <1>3, <3>1 DEF Typed, Modals
    <3>3. call[s].reply.id = storage /\ call[s].reply.items \in L
      BY <1>2, <1>6, <2>1 DEF CallIn
    <3> QED BY <3>2, <3>3
  <2>2. CASE call[s].stage = "failed"
    BY <2>2 DEF Persisted, Got
  <2> QED BY <1>2, <2>1, <2>2
<1> QED BY <1>2, <1>3, <1>4, <1>5, <1>7, <1>8, <1>9, <1>10, MainGoesOn

(* submit ends.                                                             *)
LEMMA SubmittedAligned ==
    ASSUME Steady, calm', NEW s \in Slot, Submitted(s)
    PROVE  Aligned'
<1>1. PICK t : t = call[s].tab
  OBVIOUS
<1>2. /\ calm /\ UNCHANGED <<carts, storage, pending, drawer, wanted>>
      /\ call[s].stage \in {"served", "failed"} /\ call[s].op = "start"
      /\ t \in Tab /\ Finish(s)
  BY <1>1 DEF Submitted, Got, Lost, ghosts
<1>3. Orderly /\ Typed(Standard) /\ \E B, L : Shared(B, L)
  BY <1>2, CalmIs
<1>4. PICK B, L : Shared(B, L)
  BY <1>3
<1>5. Out(s) /\ Main(s)
  BY <1>2 DEF Out, Main
<1>6. PICK status : Becomes(t, status)
  BY <1>1 DEF Submitted
<1>7. \A u \in Tab : modal'[u].open =>
         modal[u].open /\ modal'[u].cart = modal[u].cart
  BY <1>2, <1>3, <1>6 DEF Becomes, Typed, Modals
<1>8. \A u \in Tab : drawer'[u].cart = drawer[u].cart
  BY <1>2
<1> QED BY <1>2, <1>3, <1>4, <1>5, <1>7, <1>8, MainEnds

-----------------------------------------------------------------------------
(* The two properties.                                                      *)

(* Every step of a shopper keeps the lists aligned, ...                     *)
LEMMA ShopperAligned ==
    ASSUME Steady, calm', NEW t \in Tab, Shopper(t)
    PROVE  Aligned'
<1>1. ASSUME NEW o \in DOMAIN orders, PaymentDone(t, o)
      PROVE  FALSE
  BY <1>1 DEF PaymentDone, Expect
<1>2. ASSUME NEW s \in Slot,
             \/ \E choice \in Choice : Add(t, choice, s)
             \/ \E i \in DOMAIN drawer[t].cart.items : SetQuantity(t, i, s)
      PROVE  Aligned'
  BY <1>2, AddAligned, SetQuantityAligned
<1>3. ASSUME NEW s \in Slot,
             \/ LogIn(t, s) \/ OnCartStorage(t, s)
             \/ Reopen(t, s) \/ Submit(t, s)
      PROVE  Aligned'
  BY <1>3, LogInAligned, OnCartStorageAligned, ReopenAligned, SubmitAligned
<1>4. CASE CheckoutClick(t) \/ CloseModal(t)
  BY <1>4, CheckoutClickAligned, CloseModalAligned
<1> QED BY <1>1, <1>2, <1>3, <1>4 DEF Shopper

(* ... every step of the server, ...                                        *)
LEMMA ServerAligned ==
    ASSUME Steady, calm', NEW s \in Slot, Server(s)
    PROVE  Aligned'
<1>1. CASE ServeUpdate(s)
  <2>1. Sent(s, "patch") \/ Sent(s, "persist")
    BY <1>1 DEF ServeUpdate
  <2> QED BY <1>1, <2>1, ServePatchAligned, ServePersistAligned
<1>2. CASE ServeRead(s)
  <2>1. Sent(s, "get") \/ Sent(s, "merge")
    BY <1>2 DEF ServeRead
  <2> QED BY <1>2, <2>1, ServeGetAligned, ServeMergeAligned
<1>3. CASE ServeCreate(s)
  BY <1>3, ServeCreateAligned
<1>4. CASE ServeCheckout(s)
  BY <1>4, ServeCheckoutAligned
<1>5. CASE Fail(s)
  BY <1>5, FailAligned
<1> QED BY <1>1, <1>2, <1>3, <1>4, <1>5 DEF Server

(* ... and every answer: none is ignored, as long as a page is not left     *)
(* while it has a call under way.                                           *)
LEMMA AnswerAligned ==
    ASSUME Steady, calm', NEW s \in Slot, Answer(s)
    PROVE  Aligned'
<1>1. ASSUME Ignored(s) PROVE FALSE
  <2>1. calm /\ call[s].tab = NoTab /\ Out(s)
    BY <1>1 DEF Ignored, ghosts, Out
  <2>2. call[s].tab \in Tab
    BY <2>1, CalmIs DEF Orderly
  <2> QED BY <2>1, <2>2, TabAssumption
<1>2. CASE Created(s)
  BY <1>2, CreatedAligned
<1>3. CASE Updated(s)
  BY <1>3, UpdatedAligned
<1>4. CASE EditFailed(s)
  BY <1>4, EditFailedAligned
<1>5. CASE Loaded(s)
  BY <1>5, LoadedAligned
<1>6. CASE Merged(s)
  BY <1>6, MergedAligned
<1>7. CASE Persisted(s)
  BY <1>7, PersistedAligned
<1>8. CASE Submitted(s)
  BY <1>8, SubmittedAligned
<1> QED BY <1>1, <1>2, <1>3, <1>4, <1>5, <1>6, <1>7, <1>8 DEF Answer

LEMMA NextAligned ==
    ASSUME Steady, [Next]_vars
    PROVE  Aligned'
<1> SUFFICES ASSUME calm' PROVE Aligned'
  BY DEF Aligned
<1>1. CASE UNCHANGED vars
  <2>1. /\ calm
        /\ UNCHANGED <<carts, storage, pending, drawer, modal, call, wanted>>
    BY <1>1 DEF vars, ghosts
  <2>2. Orderly /\ Editing /\ \E B, L : Shared(B, L)
    BY <2>1, CalmIs
  <2>3. PICK B, L : Shared(B, L)
    BY <2>2
  <2>4. Orderly'
    BY <2>1, <2>2, OrderlyKept, OpenKept
  <2>5. \A u \in Tab : LoadsFor(u)' <=> LoadsFor(u)
    BY <2>1 DEF LoadsFor, Loads, Out
  <2>6. DrawersIn(L)' /\ ModalsIn(L)' /\ CallsIn(L)'
    BY <2>1, <2>3, <2>5
       DEF Shared, DrawersIn, DrawerIn, ModalsIn, CallsIn, CallIn, Out
  <2>7. \A u \in Tab : u \notin pending /\ ~LoadsFor(u) =>
                           u \notin pending' /\ ~LoadsFor(u)'
    BY <2>1, <2>5
  <2> QED BY <2>1, <2>2, <2>3, <2>4, <2>6, <2>7, LoadStep
<1>2. ASSUME NEW t \in Tab, Shopper(t)
      PROVE  Aligned'
  BY <1>2, ShopperAligned
<1>3. ASSUME NEW s \in Slot, Server(s) \/ Answer(s)
      PROVE  Aligned'
  BY <1>3, ServerAligned, AnswerAligned
<1> QED BY <1>1, <1>2, <1>3 DEF Next

(* As long as the shopper is calm, the state is steady.                     *)
Calmly == IInv /\ (calm => Steady)

LEMMA NextCalmly ==
    ASSUME Calmly, [Next]_vars
    PROVE  Calmly'
<1>1. IInv /\ IInv'
  BY Invariance DEF Calmly
<1>2. ASSUME calm'
      PROVE  Steady'
  <2>1. calm
    BY <1>1, <1>2, NextGrows DEF Grows
  <2>2. Steady /\ Typed(Standard) /\ Unrequested
    BY <2>1 DEF Calmly, Steady
  <2>3. NoRequest
    BY <1>2 DEF NoRequest
  <2>4. Typed(Standard)' /\ Unrequested'
    BY <1>1, <2>2, <2>3, NextStandard, NextUnrequested
  <2>5. Aligned'
    BY <2>2, NextAligned
  <2> QED BY <1>1, <2>4, <2>5 DEF Steady
<1> QED BY <1>1, <1>2 DEF Calmly

(* It is so at first.                                                       *)
LEMMA InitSteady ==
    ASSUME Init
    PROVE  Steady
<1>1. IInv
  BY InitIInv
<1>2. Typed(Standard) /\ Unrequested
  BY InitStandard
<1>3. \A s \in Slot : ~Out(s)
  BY DEF Init, Idle, Out
<1>4. Orderly /\ Editing /\ Patches = {}
  BY <1>3 DEF Init, Orderly, Editing, Patches, Main, Loads, Open, Closed
<1>5. PICK B : B = {Empty}
  OBVIOUS
<1>6. Agreed(B)
  BY <1>3, <1>5, QuantityOfEmpty DEF Init, Agreed, Alike, Fits
<1>7. CartIn(B) /\ DrawersIn(B) /\ ModalsIn(B) /\ CallsIn(B)
  BY <1>3, <1>5
     DEF Init, CartIn, DrawersIn, DrawerIn, ModalsIn, CallsIn, NewDrawer,
         NoCart, Closed
<1>8. Shared(B, B)
  BY <1>4, <1>6, <1>7 DEF Shared
<1> QED BY <1>1, <1>2, <1>4, <1>8 DEF Steady, Aligned

(* What is aligned fits what the shopper expects.                           *)
LEMMA SteadyTabs ==
    ASSUME calm => Steady
    PROVE  TabsStayAligned
<1> SUFFICES ASSUME calm, Settled(Tab), storage # 0
             PROVE  \A l \in Line :
                       /\ Quantity(carts[storage], l) \in wanted[l]
                       /\ \A t \in Tab :
                             /\ drawer[t].cart.id \in {0, storage}
                             /\ Quantity(drawer[t].cart.items, l) \in wanted[l]
  BY DEF TabsStayAligned
<1>1. Orderly /\ \E B, L : Shared(B, L)
  BY CalmIs
<1>2. PICK B, L : Shared(B, L)
  BY <1>1
<1>3. /\ L = B
      /\ \A t \in Tab : DrawerIn(B, t)
      /\ \A y \in B : Fits(y, wanted)
  BY <1>1, <1>2, AtRest
<1>4. carts[storage] \in B
  BY <1>2, <1>3 DEF Shared, CartIn
<1> QED BY <1>3, <1>4 DEF Fits, DrawerIn

(* An order is of the rows the checkout shows.                              *)
LEMMA NextAsShown ==
    ASSUME Calmly, OrderAsShown, [Next]_vars
    PROVE  OrderAsShown'
<1>1. PICK H : H = Held(asked)
  OBVIOUS
<1>2. orders \in Seq(Orders(H)) /\ KnownCalls
  BY <1>1 DEF Calmly, IInv, Typed
<1>3. ASSUME NEW o \in DOMAIN orders, NEW p,
             orders' = [orders EXCEPT ![o].popup = p]
      PROVE  OrderAsShown'
  <2>1. DOMAIN orders' = DOMAIN orders
    BY <1>3
  <2>2. \A q \in DOMAIN orders : orders'[q].items = orders[q].items
                                 /\ orders'[q].shown = orders[q].shown
    BY <1>2, <1>3 DEF Orders
  <2> QED BY <2>1, <2>2 DEF OrderAsShown
<1>4. CASE orders' = orders
  BY <1>4 DEF OrderAsShown
<1>5. ASSUME NEW s \in Slot, Server(s)
      PROVE  OrderAsShown'
  <2>1. CASE orders' # orders
    <3>1. ServeCheckout(s)
      BY <1>5, <2>1
         DEF Server, ServeCreate, ServeUpdate, ServeRead, Fail
    <3>2. PICK new :
             /\ orders' = Append(orders, new)
             /\ new.items = carts[call[s].id]
             /\ new.shown = IF calm /\ Sure THEN {call[s].items} ELSE {}
      <4>1. carts[call[s].id] # Empty
        <5> SUFFICES ASSUME carts[call[s].id] = Empty PROVE FALSE
          OBVIOUS
        <5>1. UNCHANGED orders
          BY <3>1, Zenon DEF ServeCheckout
        <5> QED BY <2>1, <5>1
      <4>2. PICK new : new = [items |-> carts[call[s].id], popup |-> NoTab,
                              shown |-> IF calm /\ Sure THEN {call[s].items}
                                        ELSE {}]
        OBVIOUS
      <4>3. orders' = Append(orders,
               [items |-> carts[call[s].id], popup |-> NoTab,
                shown |-> IF calm /\ Sure THEN {call[s].items} ELSE {}])
        BY <3>1, <4>1, Zenon DEF ServeCheckout
      <4>4. orders' = Append(orders, new)
        BY <4>2, <4>3
      <4>5. /\ new.items = carts[call[s].id]
            /\ new.shown = IF calm /\ Sure THEN {call[s].items} ELSE {}
        BY <4>2
      <4> QED BY <4>4, <4>5
    <3>3. call[s].stage = "sent" /\ call[s].op = "start"
      BY <3>1 DEF ServeCheckout, Sent
    <3>4. ASSUME calm, Sure
          PROVE  Alike(carts[call[s].id], call[s].items)
      <4>6. Steady
        BY <3>4 DEF Calmly
      <4>1. Orderly /\ Typed(Standard) /\ \E B, L : Shared(B, L)
        BY <3>4, <4>6, CalmIs
      <4>2. PICK B, L : Shared(B, L)
        BY <4>1
      <4>3. Out(s) /\ Main(s)
        BY <3>3 DEF Out, Main
      <4>4. L = B /\ \A y, z \in B : Alike(y, z)
        BY <3>3, <3>4, <4>1, <4>2, <4>3, <4>6, MainFound
      <4>5. carts[call[s].id] \in L /\ call[s].items \in L
        BY <3>3, <4>1, <4>2, <4>3, <4>6, CallFound DEF CallIn
      <4> QED BY <4>4, <4>5
    <3>5. \A rows \in new.shown : Alike(new.items, rows)
      BY <3>2, <3>4
    <3>6. /\ DOMAIN orders' = DOMAIN orders \cup {Len(orders) + 1}
          /\ \A q \in DOMAIN orders : orders'[q] = orders[q]
          /\ orders'[Len(orders) + 1] = new
      BY <1>2, <3>2
    <3> QED BY <3>5, <3>6 DEF OrderAsShown
  <2> QED BY <1>4, <2>1
<1>6. ASSUME NEW s \in Slot, Answer(s)
      PROVE  OrderAsShown'
  <2>1. CASE orders' # orders
    <3>1. Submitted(s)
      BY <1>6, <2>1
         DEF Answer, Created, Updated, EditFailed, Loaded, Merged, Persisted,
             Ignored
    <3>2. /\ call[s].stage = "served" /\ call[s].op = "start"
          /\ \E o, p : o = call[s].reply.id
                       /\ orders' = [orders EXCEPT ![o].popup = p]
      BY <2>1, <3>1 DEF Submitted, Got
    <3>3. call[s].reply.id \in DOMAIN orders
      BY <1>2, <3>2 DEF KnownCalls, KnownCall
    <3> QED BY <1>3, <3>2, <3>3
  <2> QED BY <1>4, <2>1
<1>7. ASSUME NEW t \in Tab, Shopper(t)
      PROVE  OrderAsShown'
  <2>1. ASSUME NEW s \in Slot,
               \/ \E choice \in Choice : Add(t, choice, s)
               \/ \E i \in DOMAIN drawer[t].cart.items : SetQuantity(t, i, s)
        PROVE  orders' = orders
    BY <2>1, Zenon DEF Add, SetQuantity
  <2>2. ASSUME NEW s \in Slot, LogIn(t, s) \/ OnCartStorage(t, s)
        PROVE  orders' = orders
    BY <2>2 DEF LogIn, OnCartStorage
  <2>3. ASSUME NEW s \in Slot, Reopen(t, s) \/ Submit(t, s)
        PROVE  orders' = orders
    BY <2>3, Zenon DEF Reopen, Submit
  <2>4. CASE CheckoutClick(t) \/ CloseModal(t)
    <3>1. orders' = orders
      BY <2>4 DEF CheckoutClick, CloseModal
    <3> QED BY <1>4, <3>1
  <2>5. CASE \E o \in DOMAIN orders : PaymentDone(t, o)
    BY <1>3, <2>5 DEF PaymentDone
  <2> QED BY <1>4, <1>7, <2>1, <2>2, <2>3, <2>4, <2>5 DEF Shopper
<1>8. CASE UNCHANGED vars
  BY <1>4, <1>8 DEF vars
<1> QED BY <1>5, <1>6, <1>7, <1>8 DEF Next

(* A shopper who does one thing at a time keeps what he was told is in his  *)
(* cart, and sees it in every tab, whichever edits, logins and checkouts    *)
(* fail: until he asks for something on request, or the loading of a cart   *)
(* fails or overtakes another.                                              *)
THEOREM TabsAligned == Spec => []TabsStayAligned
<1>1. Init => Calmly
  BY InitSteady DEF Calmly, Steady
<1>2. Calmly /\ [Next]_vars => Calmly'
  BY NextCalmly
<1>3. Calmly => TabsStayAligned
  BY SteadyTabs DEF Calmly
<1> QED BY <1>1, <1>2, <1>3, PTL DEF Spec

(* He orders the rows his checkout shows, whatever fails and overlaps       *)
(* before and afterwards.                                                   *)
THEOREM OrdersAsShown == Spec => []OrderAsShown
<1>1. Init => Calmly /\ OrderAsShown
  BY InitSteady DEF Calmly, Steady, Init, OrderAsShown
<1>2. Calmly /\ [Next]_vars => Calmly'
  BY NextCalmly
<1>3. Calmly /\ OrderAsShown /\ [Next]_vars => OrderAsShown'
  BY NextAsShown
<1> QED BY <1>1, <1>2, <1>3, PTL DEF Spec

==============================================================================
