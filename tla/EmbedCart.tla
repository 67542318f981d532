------------------------------ MODULE EmbedCart ------------------------------
(***************************************************************************)
(* The cart of the embed widget: several tabs of one browser, each with a  *)
(* cart drawer and a checkout modal (apps/embed-sdk), one localStorage key *)
(* with the id of the cart, and the carts and orders of the server         *)
(* (routers/embed_public.py).  A drawer edits by sending the whole list of *)
(* rows it makes from its own copy; a tab that has changed the cart        *)
(* touches a storage key, and the others load the cart again.              *)
(*                                                                         *)
(* Every call is sent, served and answered in steps of their own, and may  *)
(* fail before or after it was served.  The products, prices and slots of  *)
(* a row are its line; retries of a call are in IdempotencyGate.           *)
(***************************************************************************)
EXTENDS Naturals, Sequences

LOCAL INSTANCE Functions

CONSTANTS Tab,        \* open tabs
          NoTab,      \* where the answers of a closed page go
          Slot,       \* bound: calls in flight at once
          Choice,     \* what can be put in the cart: line, request, extras
          Ticket,     \* lines that are tickets with attendees
          Hasty,      \* bound: what is done while other things go on
          MaxAsked,   \* bound: how much is asked for, of all lines
          MaxCarts, MaxOrders  \* bounds

ASSUME TabAssumption == NoTab \notin Tab

Line == {c.line : c \in Choice}

ASSUME ChoiceAssumption ==
    \A c \in Choice : c.request \in BOOLEAN /\ c.extras \in BOOLEAN

VARIABLES carts,    \* server: the rows of each cart, by number
          orders,   \* server: the orders placed
          storage,  \* localStorage: the id of the cart, 0 without one
          pending,  \* tabs with a storage event to handle
          drawer,   \* afianco-cart-drawer of each tab
          modal,    \* afianco-checkout-button of each tab
          call,     \* calls in flight
          asked,    \* ghost: how much of each line was ever asked for
          wanted,   \* ghost: what the shopper may expect of each line
          calm      \* ghost: one thing at a time so far, nothing on request,
                    \* no load failed, nothing paid yet

ghosts == <<asked, wanted, calm>>
vars == <<carts, orders, storage, pending, drawer, modal, call, ghosts>>

-----------------------------------------------------------------------------
(* Rows and copies of a cart.                                               *)

(* The rows of a cart are numbered in the order they were pushed.           *)
Empty == [i \in {} |-> 0]
NoCart == [id |-> 0, items |-> Empty]

Row == [line : Line, request : BOOLEAN, extras : BOOLEAN,
        quantity : Nat \ {0}]
AreRows(items) == \A i \in DOMAIN items : items[i] \in Row

(* Mutant: the slot of a row is left out of its signature.                  *)
Signature_NoSlot(row) == row.request

(* buildItemSignature.                                                      *)
Signature(row) == <<row.line, row.request>>

Same(items, row) == {i \in DOMAIN items : Signature(items[i]) = Signature(row)}

First(S) == CHOOSE i \in S : \A j \in S : i <= j
Last(items) == CHOOSE n \in DOMAIN items \cup {0} :
                  \A i \in DOMAIN items : i <= n

(* Mutant: no row is looked for.                                            *)
WithItem_Always(items, choice) ==
    [i \in DOMAIN items \cup {Last(items) + 1} |->
        IF i \in DOMAIN items THEN items[i]
        ELSE [line |-> choice.line, request |-> choice.request,
              extras |-> choice.extras, quantity |-> 1]]

(* addItem: one more in the first row of its signature, or a row of its     *)
(* own at the end.                                                          *)
WithItem(items, choice) ==
    LET row == [line |-> choice.line, request |-> choice.request,
                extras |-> choice.extras, quantity |-> 1] IN
    IF Same(items, row) # {}
    THEN [items EXCEPT ![First(Same(items, row))].quantity = @ + 1]
    ELSE [i \in DOMAIN items \cup {Last(items) + 1} |->
             IF i \in DOMAIN items THEN items[i] ELSE row]

(* updateItemQuantity: the new quantity in every row of the signature, a    *)
(* row of none removed; service_custom_request is not sent.                 *)
WithQuantity(items, row, n) ==
    LET after(i) == IF i \in Same(items, row) THEN n ELSE items[i].quantity
    IN  [i \in {i \in DOMAIN items : after(i) > 0} |->
            [items[i] EXCEPT !.quantity = after(i), !.request = FALSE]]

(* Mutant: only the rows with attendees are sent.                           *)
WithAttendees_Only(items) ==
    [i \in {i \in DOMAIN items : items[i].line \in Ticket} |-> items[i]]

(* persistAttendeesInCart: the rows of the modal with the attendees filled  *)
(* in; neither service_custom_request nor extra_selections is sent.         *)
WithAttendees(items) ==
    [i \in DOMAIN items |->
        [items[i] EXCEPT !.request = FALSE, !.extras = FALSE]]

-----------------------------------------------------------------------------
(* State.                                                                   *)

Op == {"create", "patch", "get", "merge", "persist", "start"}
Stage == {"none", "sent", "served", "failed"}

(* A call: where its answer goes, the cart it is about, the rows it sends   *)
(* (for a checkout: the rows the modal shows) and what came back.  choice   *)
(* waits for the cart that is created, want is the ghost of its success.    *)
Idle == [op |-> "get", stage |-> "none", tab |-> NoTab, id |-> 0,
         items |-> Empty, choice |-> {}, want |-> <<>>, reply |-> NoCart]

Closed == [open |-> FALSE, status |-> "idle", cart |-> NoCart,
           tickets |-> FALSE]
NewDrawer == [cart |-> NoCart, syncing |-> FALSE]

IsCopy(c) == c.id \in Nat /\ AreRows(c.items)

TypeOK ==
    /\ \A n \in DOMAIN carts : AreRows(carts[n])
    /\ \A o \in DOMAIN orders : AreRows(orders[o].items)
    /\ storage \in Nat
    /\ pending \subseteq Tab
    /\ \A t \in Tab :
          /\ IsCopy(drawer[t].cart) /\ drawer[t].syncing \in BOOLEAN
          /\ IsCopy(modal[t].cart)
          /\ modal[t].open \in BOOLEAN /\ modal[t].tickets \in BOOLEAN
          /\ modal[t].status \in {"idle", "submitting", "awaiting_payment",
                                  "completed"}
    /\ \A s \in Slot :
          /\ call[s].op \in Op /\ call[s].stage \in Stage
          /\ call[s].tab \in Tab \cup {NoTab}
          /\ IsCopy(call[s]) /\ IsCopy(call[s].reply)
          /\ call[s].choice \subseteq Choice
    /\ asked \in [Line -> Nat]
    /\ calm \in BOOLEAN

Init ==
    /\ carts = <<>>
    /\ orders = <<>>
    /\ storage = 0
    /\ pending = {}
    /\ drawer = [t \in Tab |-> NewDrawer]
    /\ modal = [t \in Tab |-> Closed]
    /\ call = [s \in Slot |-> Idle]
    /\ asked = [l \in Line |-> 0]
    /\ wanted = [l \in Line |-> {0}]
    /\ calm = TRUE

-----------------------------------------------------------------------------
(* The parts of the handlers.                                               *)

Free(s) == call[s].stage = "none"

Send(s, op, t, id, items) ==
    call' = [call EXCEPT ![s] = [Idle EXCEPT !.op = op, !.stage = "sent",
                 !.tab = t, !.id = id, !.items = items]]

(* The same, for an edit: want is what its success makes of wanted.         *)
SendEdit(s, op, t, id, items, choice, want) ==
    call' = [call EXCEPT ![s] = [Idle EXCEPT !.op = op, !.stage = "sent",
                 !.tab = t, !.id = id, !.items = items, !.choice = choice,
                 !.want = IF calm' THEN want ELSE <<>>]]

Finish(s) == call' = [call EXCEPT ![s] = Idle]

Asks == SumFunction(asked)

Submitting(t) ==
    \E s \in Slot : call[s].tab = t /\ call[s].op \in {"persist", "start"}

(* Nothing is on its way, and no checkout is open but in the given tabs.    *)
Settled(open) ==
    /\ \A s \in Slot : Free(s)
    /\ pending = {}
    /\ \A t \in Tab \ open : ~modal[t].open

(* The ghosts: once two things have overlapped, nothing is expected.        *)
Expect(calmly, want) ==
    /\ calm' = (calm /\ calmly)
    /\ wanted' = IF calm' THEN want ELSE [l \in Line |-> {0}]

(* The shopper does something, with the checkout open in the given tabs.    *)
Does(what, open) ==
    /\ what \in Hasty \/ Settled(open)
    /\ Expect(Settled(open), wanted)

(* Every edit so far is known to be made or not.                            *)
Sure == \A l \in Line : \A v, w \in wanted[l] : v = w

(* writeCartIdToStorage: the other tabs get an event if the value changes.  *)
Store(t, id) ==
    /\ storage' = id
    /\ pending' = IF storage = id THEN pending ELSE pending \cup (Tab \ {t})

(* Mutant: the other tabs are not told.                                     *)
Touch_Never(t) == UNCHANGED pending

(* _broadcastCartTouch.                                                     *)
Touch(t) == pending' = pending \cup (Tab \ {t})

-----------------------------------------------------------------------------
(* What the shopper does in the drawer.                                     *)

(* addItem, up to its first await: a drawer without a cart has to create    *)
(* one first.                                                               *)
Add(t, choice, s) ==
    /\ Free(s)
    /\ Asks < MaxAsked
    /\ asked' = [asked EXCEPT ![choice.line] = @ + 1]
    /\ drawer' = [drawer EXCEPT ![t].syncing = TRUE]
    /\ "add" \in Hasty \/ Settled({})
    /\ Expect(Settled({}) /\ ~choice.request, wanted)
    /\ LET cart == drawer[t].cart
           want == [wanted EXCEPT ![choice.line] = {w + 1 : w \in @}] IN
       IF cart.id = 0
       THEN SendEdit(s, "create", t, 0, Empty, {choice}, want)
       ELSE SendEdit(s, "patch", t, cart.id, WithItem(cart.items, choice),
                     {choice}, want)
    /\ UNCHANGED <<carts, orders, storage, pending, modal>>

(* updateItemQuantity, from the buttons of a row: one more, one less, none. *)
(* They are disabled while the drawer is syncing.                           *)
SetQuantity(t, i, s) ==
    /\ Free(s)
    /\ ~drawer[t].syncing
    /\ i \in DOMAIN drawer[t].cart.items
    /\ LET cart == drawer[t].cart
           row == cart.items[i] IN
       \E n \in {0, row.quantity - 1, row.quantity + 1} :
          /\ n > row.quantity => Asks < MaxAsked
          /\ asked' = [asked EXCEPT ![row.line] =
                          IF n > row.quantity THEN @ + 1 ELSE @]
          /\ Does("edit", {})
          /\ SendEdit(s, "patch", t, cart.id,
                      WithQuantity(cart.items, row, n),
                      {}, [wanted EXCEPT ![row.line] = {n}])
    /\ drawer' = [drawer EXCEPT ![t].syncing = TRUE]
    /\ UNCHANGED <<carts, orders, storage, pending, modal>>

(* _handleCustomerLoggedIn: the cart of the storage key is bound to the     *)
(* account.                                                                 *)
LogIn(t, s) ==
    /\ Free(s)
    /\ storage # 0
    /\ drawer[t].cart.items # Empty
    /\ Send(s, "merge", t, storage, Empty)
    /\ Does("login", {})
    /\ UNCHANGED <<carts, orders, storage, pending, drawer, modal, asked>>

(* loadPersistedCart, up to its await.                                      *)
Load(t, s) ==
    IF storage = 0 THEN UNCHANGED call ELSE Send(s, "get", t, storage, Empty)

Loading(t) == \E s \in Slot : call[s].tab = t /\ call[s].op = "get"

(* _onCartStorage: of two loads of a tab, the first may be answered last.   *)
(* Two answered in their order end as two loads one after the other would.  *)
OnCartStorage(t, s) ==
    /\ Free(s)
    /\ t \in pending
    /\ pending' = pending \ {t}
    /\ Load(t, s)
    /\ Expect(~Loading(t), wanted)
    /\ UNCHANGED <<carts, orders, storage, drawer, modal, asked>>

(* The page of a tab is left and another opened: what it had in flight goes *)
(* on at the server, and the new drawer loads the cart.                     *)
Reopen(t, s) ==
    /\ Free(s)
    /\ drawer' = [drawer EXCEPT ![t] = NewDrawer]
    /\ modal' = [modal EXCEPT ![t] = Closed]
    /\ pending' = pending \ {t}
    /\ call' = [r \in Slot |->
                  IF r = s /\ storage # 0
                  THEN [Idle EXCEPT !.stage = "sent", !.tab = t, !.id = storage]
                  ELSE IF call[r].tab = t THEN [call[r] EXCEPT !.tab = NoTab]
                  ELSE call[r]]
    /\ Does("reopen", {})
    /\ UNCHANGED <<carts, orders, storage, asked>>

-----------------------------------------------------------------------------
(* What the shopper does in the checkout modal.                             *)

(* handleCheckoutClick, openWithCart and loadProductFields: tickets says    *)
(* whether attendees are asked for, which they are not if the products      *)
(* cannot be loaded or do not require it.                                   *)
CheckoutClick(t) ==
    /\ ~drawer[t].syncing
    /\ drawer[t].cart.items # Empty
    /\ \E tickets \in BOOLEAN :
          /\ tickets => \E i \in DOMAIN drawer[t].cart.items :
                           drawer[t].cart.items[i].line \in Ticket
          /\ modal' = [modal EXCEPT ![t] =
                [open |-> TRUE, status |-> "idle", cart |-> drawer[t].cart,
                 tickets |-> tickets]]
    /\ Does("checkout", {})
    /\ UNCHANGED <<carts, orders, storage, pending, drawer, call, asked>>

(* submit, up to its first await: the rows with their attendees are sent    *)
(* to the cart first, if there are any.                                     *)
Submit(t, s) ==
    /\ Free(s)
    /\ modal[t].open
    /\ modal[t].status = "idle"
    /\ ~Submitting(t)
    /\ modal' = [modal EXCEPT ![t].status = "submitting"]
    /\ Send(s, IF modal[t].tickets THEN "persist" ELSE "start",
            t, modal[t].cart.id, modal[t].cart.items)
    /\ Does("submit", {t})
    /\ UNCHANGED <<carts, orders, storage, pending, drawer, asked>>

(* closeModal, by the shopper or by the timer after an order.  What the     *)
(* modal holds is not looked at until it is opened with another cart.       *)
CloseModal(t) ==
    /\ modal[t].open
    /\ modal' = [modal EXCEPT ![t] = Closed]
    /\ UNCHANGED <<carts, orders, storage, pending, drawer, call, ghosts>>

(* The modal of a tab that shows it goes on to a status.                    *)
Becomes(t, status) ==
    modal' = [modal EXCEPT ![t].status = IF modal[t].open THEN status ELSE @]

(* _handlePostMessage: the popup reports that the order is paid.            *)
PaymentDone(t, o) ==
    /\ orders[o].popup = t
    /\ orders' = [orders EXCEPT ![o].popup = NoTab]
    /\ Becomes(t, "completed")
    /\ Store(t, 0)
    /\ Expect(FALSE, wanted)
    /\ UNCHANGED <<carts, drawer, call, asked>>

-----------------------------------------------------------------------------
(* The server: one step serves a call.                                      *)

Answered(s, id, items) ==
    call' = [call EXCEPT ![s].stage = "served",
                         ![s].reply = [id |-> id, items |-> items]]

Sent(s, op) == call[s].stage = "sent" /\ call[s].op = op

(* create_embed_cart.                                                       *)
ServeCreate(s) ==
    /\ Sent(s, "create")
    /\ Len(carts) < MaxCarts
    /\ carts' = Append(carts, Empty)
    /\ Answered(s, Len(carts) + 1, Empty)
    /\ UNCHANGED <<orders, storage, pending, drawer, modal, ghosts>>

(* update_embed_cart: the list sent replaces the rows of the cart.          *)
ServeUpdate(s) ==
    LET rows == IF call[s].op = "persist" THEN WithAttendees(call[s].items)
                ELSE call[s].items
    IN  /\ Sent(s, "patch") \/ Sent(s, "persist")
        /\ carts' = [carts EXCEPT ![call[s].id] = rows]
        /\ Answered(s, call[s].id, rows)
        /\ UNCHANGED <<orders, storage, pending, drawer, modal, ghosts>>

(* get_embed_cart and merge_embed_cart: the owner of a cart is not          *)
(* modelled, and a merge changes nothing else.                              *)
ServeRead(s) ==
    /\ Sent(s, "get") \/ Sent(s, "merge")
    /\ Answered(s, call[s].id, carts[call[s].id])
    /\ UNCHANGED <<carts, orders, storage, pending, drawer, modal, ghosts>>

(* start_embed_checkout: the order is made of the rows the cart has now;    *)
(* that the cart was ordered before is not looked at.                       *)
ServeCheckout(s) ==
    /\ Sent(s, "start")
    /\ IF carts[call[s].id] = Empty
       THEN /\ call' = [call EXCEPT ![s].stage = "failed"]
            /\ UNCHANGED orders
       ELSE /\ Len(orders) < MaxOrders
            /\ orders' = Append(orders,
                  [items |-> carts[call[s].id], popup |-> NoTab,
                   shown |-> IF calm /\ Sure THEN {call[s].items} ELSE {}])
            /\ Answered(s, Len(orders) + 1, Empty)
    /\ UNCHANGED <<carts, storage, pending, drawer, modal, ghosts>>

(* A call fails: refused, or cut off before or after it was served.         *)
Fail(s) ==
    /\ call[s].stage \in {"sent", "served"}
    /\ call' = [call EXCEPT ![s].stage = "failed", ![s].reply = NoCart]
    /\ Expect(call[s].op # "get", wanted)
    /\ UNCHANGED <<carts, orders, storage, pending, drawer, modal, asked>>

-----------------------------------------------------------------------------
(* The answers, in the tab that waits for them.                             *)

Got(s, op) == call[s].stage = "served" /\ call[s].op = op /\ call[s].tab \in Tab
Lost(s, op) == call[s].stage = "failed" /\ call[s].op = op /\ call[s].tab \in Tab

(* addItem goes on: the id is kept, and the first row sent.                 *)
Created(s) ==
    LET t == call[s].tab
        choice == CHOOSE c \in call[s].choice : TRUE
    IN  /\ Got(s, "create")
        /\ Store(t, call[s].reply.id)
        /\ call' = [call EXCEPT ![s] = [@ EXCEPT !.op = "patch",
                       !.stage = "sent", !.id = call[s].reply.id,
                       !.items = WithItem(call[s].reply.items, choice),
                       !.reply = NoCart]]
        /\ UNCHANGED <<carts, orders, drawer, modal, ghosts>>

(* addItem and updateItemQuantity end: the answer is the cart, and the      *)
(* other tabs are told.                                                     *)
Updated(s) ==
    LET t == call[s].tab
    IN  /\ Got(s, "patch")
        /\ drawer' = [drawer EXCEPT ![t] =
                         [cart |-> call[s].reply, syncing |-> FALSE]]
        /\ Touch(t)
        /\ Expect(TRUE, call[s].want)
        /\ Finish(s)
        /\ UNCHANGED <<carts, orders, storage, modal, asked>>

(* Either ends with an error: the drawer keeps the cart it has.             *)
EditFailed(s) ==
    /\ Lost(s, "create") \/ Lost(s, "patch")
    /\ drawer' = [drawer EXCEPT ![call[s].tab].syncing = FALSE]
    /\ Expect(TRUE, IF calm THEN [l \in Line |-> wanted[l] \cup call[s].want[l]]
                    ELSE wanted)
    /\ Finish(s)
    /\ UNCHANGED <<carts, orders, storage, pending, modal, asked>>

(* loadPersistedCart ends; after an error the id is dropped.                *)
Loaded(s) ==
    LET t == call[s].tab
    IN  /\ \/ /\ Got(s, "get")
              /\ drawer' = [drawer EXCEPT ![t].cart = call[s].reply]
              /\ UNCHANGED <<storage, pending>>
           \/ /\ Lost(s, "get")
              /\ drawer' = [drawer EXCEPT ![t].cart = NoCart]
              /\ Store(t, 0)
        /\ Finish(s)
        /\ UNCHANGED <<carts, orders, modal, ghosts>>

(* _handleCustomerLoggedIn ends; after an error nothing changes.            *)
Merged(s) ==
    LET t == call[s].tab
    IN  /\ \/ /\ Got(s, "merge")
              /\ drawer' = [drawer EXCEPT ![t].cart = call[s].reply]
              /\ Store(t, call[s].reply.id)
           \/ /\ Lost(s, "merge")
              /\ UNCHANGED <<drawer, storage, pending>>
        /\ Finish(s)
        /\ UNCHANGED <<carts, orders, modal, ghosts>>

(* submit goes on, whether or not the attendees were kept.                  *)
Persisted(s) ==
    LET t == call[s].tab
    IN  /\ \/ /\ Got(s, "persist")
              /\ modal' = [modal EXCEPT ![t].cart =
                              IF modal[t].open THEN call[s].reply ELSE @]
           \/ /\ Lost(s, "persist")
              /\ UNCHANGED modal
        /\ call' = [call EXCEPT ![s].op = "start", ![s].stage = "sent",
                                ![s].reply = NoCart]
        /\ UNCHANGED <<carts, orders, storage, pending, drawer, ghosts>>

(* submit ends: a popup to pay in, unless it is blocked; or no payment is   *)
(* needed; or an error.                                                     *)
Submitted(s) ==
    LET t == call[s].tab
        o == call[s].reply.id
    IN  /\ \/ /\ Got(s, "start")
              /\ Becomes(t, "awaiting_payment")
              /\ orders' = [orders EXCEPT ![o].popup = t]
           \/ /\ Got(s, "start")
              /\ Becomes(t, "completed") \/ Becomes(t, "idle")
              /\ UNCHANGED orders
           \/ /\ Lost(s, "start")
              /\ Becomes(t, "idle")
              /\ UNCHANGED orders
        /\ Finish(s)
        /\ UNCHANGED <<carts, storage, pending, drawer, ghosts>>

(* The answer for a page that was left goes nowhere.                        *)
Ignored(s) ==
    /\ call[s].tab = NoTab
    /\ call[s].stage \in {"served", "failed"}
    /\ Finish(s)
    /\ UNCHANGED <<carts, orders, storage, pending, drawer, modal, ghosts>>

-----------------------------------------------------------------------------
(* The specification.                                                       *)

Shopper(t) ==
    \/ \E s \in Slot :
          \/ \E choice \in Choice : Add(t, choice, s)
          \/ \E i \in DOMAIN drawer[t].cart.items : SetQuantity(t, i, s)
          \/ LogIn(t, s)
          \/ OnCartStorage(t, s)
          \/ Reopen(t, s)
          \/ Submit(t, s)
    \/ CheckoutClick(t)
    \/ CloseModal(t)
    \/ \E o \in DOMAIN orders : PaymentDone(t, o)

Server(s) ==
    ServeCreate(s) \/ ServeUpdate(s) \/ ServeRead(s) \/ ServeCheckout(s)
    \/ Fail(s)

Answer(s) ==
    Created(s) \/ Updated(s) \/ EditFailed(s) \/ Loaded(s) \/ Merged(s)
    \/ Persisted(s) \/ Submitted(s) \/ Ignored(s)

Next ==
    \/ \E t \in Tab : Shopper(t)
    \/ \E s \in Slot : Server(s) \/ Answer(s)

Spec == Init /\ [][Next]_vars

-----------------------------------------------------------------------------
(* Properties.                                                              *)

(* No cart, no tab and no order ever has more in a row than was asked for   *)
(* of its line, in however many tabs, and whatever overlaps or is lost.     *)
NeverMoreThanAsked ==
    LET within(items) ==
            \A i \in DOMAIN items : items[i].quantity <= asked[items[i].line]
    IN  /\ \A n \in DOMAIN carts : within(carts[n])
        /\ \A o \in DOMAIN orders : within(orders[o].items)
        /\ \A t \in Tab : within(drawer[t].cart.items)

Quantity(items, line) ==
    IF \E i \in DOMAIN items : items[i].line = line
    THEN items[CHOOSE i \in DOMAIN items : items[i].line = line].quantity
    ELSE 0

(* A shopper who does one thing at a time, in whichever tab, keeps what he  *)
(* was told is in his cart, and sees the same cart in every tab: "un'altra  *)
(* tab ha mutato il cart -> rifetch per restare allineati".  An edit that   *)
(* ended in an error may or may not have been made.                         *)
TabsStayAligned ==
    calm /\ Settled(Tab) /\ storage # 0 =>
        \A l \in Line :
            /\ Quantity(carts[storage], l) \in wanted[l]
            /\ \A t \in Tab :
                  /\ drawer[t].cart.id \in {0, storage}
                  /\ Quantity(drawer[t].cart.items, l) \in wanted[l]

(* Rows of a cart differ in their signature: "una richiesta personalizzata  *)
(* e' una riga distinta da uno slot standard".                              *)
RowsStayDistinct ==
    \A n \in DOMAIN carts : \A i, j \in DOMAIN carts[n] :
        Signature(carts[n][i]) = Signature(carts[n][j]) => i = j

(* The same rows, whatever the extra selections.                            *)
Alike(x, y) ==
    /\ DOMAIN x = DOMAIN y
    /\ \A i \in DOMAIN x : /\ Signature(x[i]) = Signature(y[i])
                           /\ x[i].quantity = y[i].quantity

(* A shopper who does one thing at a time, and was told the outcome of      *)
(* each, orders exactly the rows his modal showed, though not the extra     *)
(* selections, which the modal does not send.                               *)
OrderAsShown ==
    \A o \in DOMAIN orders : \A rows \in orders[o].shown :
        Alike(orders[o].items, rows)

=============================================================================
