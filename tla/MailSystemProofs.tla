-------------------------- MODULE MailSystemProofs --------------------------
(***************************************************************************)
(* Proofs about MailSystem, for every set of users and names, every way    *)
(* the client writes them, and any number of deliveries of other sessions. *)
(* What is known of the parts comes from their own proofs.                 *)
(***************************************************************************)
EXTENDS MailSystem, TLAPS

\* The obligations carry all the parts' definitions: more time for SMT, a second try, then Zenon.
USE SMTT(30), SMTT(60), ZenonT(60)

\* A least number is the minimum, and a greatest the maximum.
LEMMA MinMax ==
  ASSUME NEW N \in SUBSET Nat, NEW k \in N
  PROVE  /\ (\A j \in N : k <= j) => Min(N) = k
         /\ (\A j \in N : j <= k) => Max(N) = k
<1>1. ASSUME \A j \in N : k <= j PROVE Min(N) = k
  <2>1. Min(N) \in N /\ \A j \in N : Min(N) <= j
    BY <1>1, Zenon DEF Min
  <2>2. Min(N) \in Nat /\ k \in Nat /\ Min(N) <= k /\ k <= Min(N)
    BY <1>1, <2>1, Zenon
  <2> QED  BY <2>2
<1>2. ASSUME \A j \in N : j <= k PROVE Max(N) = k
  <2>1. Max(N) \in N /\ \A j \in N : Max(N) >= j
    BY <1>2, Zenon DEF Max
  <2>2. Max(N) \in Nat /\ k \in Nat /\ Max(N) <= k /\ k <= Max(N)
    BY <1>2, <2>1, Zenon
  <2> QED  BY <2>2
<1> QED  BY <1>1, <1>2

\* The characters.
Char == STRING \cup {Space, "@", "<", ">"}

\* "@" and the brackets that extractAddress and parseAddress look for are characters,
\* and TrimSpace keeps the brackets.
LEMMA CharFacts ==
  /\ <<"@">> \in Seq(Char) /\ <<"<">> \in Seq(Char) /\ <<">">> \in Seq(Char)
  /\ "<" # Space /\ ">" # Space
<1>1. "<" # Space /\ ">" # Space
  BY Zenon DEF Space
<1>2. "@" \in Char /\ "<" \in Char /\ ">" \in Char
  BY DEF Char
<1>3. ASSUME NEW c \in Char PROVE <<c>> \in Seq(Char)
  OBVIOUS
<1> QED  BY <1>1, <1>2, <1>3

\* SubSeq cuts a piece out of a text.
LEMMA Window ==
  ASSUME NEW t \in Seq(Char), NEW piece \in Seq(Char), NEW m \in Nat,
         m + Len(piece) <= Len(t), \A i \in 1..Len(piece) : t[m + i] = piece[i]
  PROVE  SubSeq(t, m + 1, m + Len(piece)) = piece
<1> DEFINE k == Len(piece)
           sub == SubSeq(t, m + 1, m + k)
<1>1. k \in Nat /\ Len(t) \in Nat /\ m + 1 \in Int /\ m + k \in Int
  OBVIOUS
<1>2. \A i \in (m + 1)..(m + k) : t[i] \in Char
  BY <1>1
<1>3. /\ sub \in Seq(Char)
      /\ Len(sub) = IF m + 1 <= m + k THEN m + k - (m + 1) + 1 ELSE 0
      /\ \A i \in 1..(m + k - (m + 1) + 1) : sub[i] = t[m + 1 + i - 1]
  BY <1>1, <1>2
<1> HIDE DEF sub
<1>4. Len(sub) = k
  BY <1>1, <1>3
<1>5. ASSUME NEW i \in 1..k PROVE sub[i] = piece[i]
  <2>1. i \in 1..(m + k - (m + 1) + 1) /\ m + 1 + i - 1 = m + i
    BY <1>1
  <2> QED  BY <1>3, <2>1
<1>6. sub = piece
  BY <1>3, <1>4, <1>5
<1> QED  BY <1>6 DEF sub

\* t is a, b and c in a row, as its entries and SubSeq see it.
InPieces(t, a, b, c) ==
  /\ t \in Seq(Char) /\ Len(t) = Len(a) + Len(b) + Len(c)
  /\ \A i \in 1..Len(a) : t[i] = a[i]
  /\ \A i \in 1..Len(b) : t[Len(a) + i] = b[i]
  /\ \A i \in 1..Len(c) : t[Len(a) + Len(b) + i] = c[i]
  /\ SubSeq(t, 1, Len(a)) = a
  /\ SubSeq(t, Len(a) + 1, Len(a) + Len(b)) = b
  /\ SubSeq(t, Len(a) + Len(b) + 1, Len(t)) = c

\* A text put together from three, as spaces, form, spaces or local, "@", domain are, has
\* their characters in order, and SubSeq, the slicing of the parsers, gets each back.
LEMMA Pieces ==
  ASSUME NEW a \in Seq(Char), NEW b \in Seq(Char), NEW c \in Seq(Char)
  PROVE  InPieces(a \o b \o c, a, b, c)
<1> DEFINE t == a \o b \o c
<1>1. Len(a) \in Nat /\ Len(b) \in Nat /\ Len(c) \in Nat
  OBVIOUS
<1>2. /\ a \o b \in Seq(Char) /\ Len(a \o b) = Len(a) + Len(b)
      /\ \A i \in 1..(Len(a) + Len(b)) :
           (a \o b)[i] = IF i <= Len(a) THEN a[i] ELSE b[i - Len(a)]
  OBVIOUS
<1>3. /\ t \in Seq(Char) /\ Len(t) = Len(a) + Len(b) + Len(c)
      /\ \A i \in 1..(Len(a) + Len(b) + Len(c)) :
           t[i] = IF i <= Len(a) + Len(b) THEN (a \o b)[i] ELSE c[i - (Len(a) + Len(b))]
  BY <1>2
<1> HIDE DEF t
<1>4. \A i \in 1..Len(a) : t[i] = a[i]
  BY <1>1, <1>2, <1>3
<1>5. \A i \in 1..Len(b) : t[Len(a) + i] = b[i]
  <2> TAKE i \in 1..Len(b)
  <2>1. /\ Len(a) + i \in 1..(Len(a) + Len(b)) /\ ~(Len(a) + i <= Len(a))
        /\ Len(a) + i - Len(a) = i
    BY <1>1
  <2> QED  BY <1>1, <1>2, <1>3, <2>1
<1>6. \A i \in 1..Len(c) : t[Len(a) + Len(b) + i] = c[i]
  <2> TAKE i \in 1..Len(c)
  <2>1. /\ Len(a) + Len(b) + i \in 1..(Len(a) + Len(b) + Len(c))
        /\ ~(Len(a) + Len(b) + i <= Len(a) + Len(b))
        /\ Len(a) + Len(b) + i - (Len(a) + Len(b)) = i
    BY <1>1
  <2> QED  BY <1>3, <2>1
<1>7. SubSeq(t, 1, Len(a)) = a
  <2>1. SubSeq(t, 0 + 1, 0 + Len(a)) = a
    BY <1>1, <1>3, <1>4, Window
  <2> QED  BY <1>1, <2>1
<1>8. SubSeq(t, Len(a) + 1, Len(a) + Len(b)) = b
  BY <1>1, <1>3, <1>5, Window
<1>9. SubSeq(t, Len(a) + Len(b) + 1, Len(t)) = c
  BY <1>1, <1>3, <1>6, Window, Len(a) + Len(b) \in Nat
<1>10. InPieces(t, a, b, c)
  BY <1>3, <1>4, <1>5, <1>6, <1>7, <1>8, <1>9, Zenon DEF InPieces
<1> QED  BY <1>10 DEF t

\* What is written between the spaces.
LEMMA SpacedText ==
  ASSUME NEW n, NEW form, NEW to \in Spaced(form, n)
  PROVE  \E before \in Spaces(n), after \in Spaces(n) : to = before \o form \o after
  BY DEF Spaced

\* TrimSpace removes spaces around a text that neither begins nor ends with one.
LEMMA TrimsSpaces ==
  ASSUME NEW n \in Nat, NEW before \in Spaces(n), NEW after \in Spaces(n),
         NEW form \in Seq(Char), Len(form) > 0,
         form[1] # Space, form[Len(form)] # Space
  PROVE  TrimSpace(before \o form \o after) = form
<1> DEFINE t == before \o form \o after
           solid == {i \in 1..Len(t) : t[i] # Space}
           p == Len(before)
           f == Len(form)
<1>1. /\ before \in Seq(Char) /\ \A i \in 1..p : before[i] = Space
      /\ after \in Seq(Char) /\ \A i \in 1..Len(after) : after[i] = Space
  BY DEF Spaces, Char
<1>2. /\ t \in Seq(Char) /\ Len(t) = p + f + Len(after)
      /\ \A i \in 1..p : t[i] = Space
      /\ \A i \in 1..f : t[p + i] = form[i]
      /\ \A i \in 1..Len(after) : t[p + f + i] = Space
      /\ SubSeq(t, p + 1, p + f) = form
  <2>1. InPieces(t, before, form, after)
    BY <1>1, Pieces
  <2> HIDE DEF t
  <2>2. /\ t \in Seq(Char) /\ Len(t) = p + f + Len(after)
        /\ \A i \in 1..p : t[i] = before[i]
        /\ \A i \in 1..f : t[p + i] = form[i]
        /\ \A i \in 1..Len(after) : t[p + f + i] = after[i]
        /\ SubSeq(t, p + 1, p + f) = form
    BY <2>1 DEF InPieces
  <2> QED  BY <1>1, <2>2, ZenonT(60)
<1>3. p \in Nat /\ f \in Nat /\ f > 0 /\ Len(after) \in Nat
  BY <1>1
<1> HIDE DEF t, p, f
<1>4. p + 1 \in solid /\ p + f \in solid
  <2>1. p + 1 \in 1..Len(t) /\ p + f \in 1..Len(t) /\ 1 \in 1..f /\ f \in 1..f
    BY <1>2, <1>3
  <2> QED  BY <1>2, <2>1 DEF f
<1>5. \A i \in solid : p + 1 <= i /\ i <= p + f
  <2> SUFFICES ASSUME NEW i \in 1..Len(t), t[i] # Space PROVE p + 1 <= i /\ i <= p + f
    OBVIOUS
  <2>1. ~(i <= p)
    <3>1. i \in 1..p => t[i] = Space
      BY <1>2
    <3> QED  BY <1>3, <3>1
  <2>2. ~(i > p + f)
    <3> SUFFICES ASSUME i > p + f PROVE FALSE
      OBVIOUS
    <3>1. i - (p + f) \in 1..Len(after) /\ p + f + (i - (p + f)) = i
      BY <1>2, <1>3
    <3> QED  BY <1>2, <3>1
  <2> QED  BY <1>2, <1>3, <2>1, <2>2
<1>6. Min(solid) = p + 1 /\ Max(solid) = p + f
  <2>1. solid \in SUBSET Nat
    BY <1>2
  <2> HIDE DEF solid
  <2> QED  BY <1>4, <1>5, <2>1, MinMax, Zenon
<1>7. TrimSpace(t) = SubSeq(t, Min(solid), Max(solid))
  BY <1>4, ZenonT(60) DEF TrimSpace
<1> QED  BY <1>2, <1>6, <1>7, Zenon DEF t

\* Where the pieces of local@domain lie.
LEMMA WrittenFacts ==
  ASSUME NEW local, NEW domain, Mailable(local, domain)
  PROVE  LET w == Written(local, domain)
             at == Len(local) + 1
         IN  /\ w \in Seq(Char)
             /\ at \in Nat /\ 1 < at /\ at < Len(w)
             /\ w[1] \notin {Space, "<"} /\ w[Len(w)] # Space
             /\ w[at] = "@" /\ \A i \in 1..Len(w) : w[i] = "@" => at <= i
             /\ SubSeq(w, 1, at - 1) = local
             /\ SubSeq(w, at + 1, Len(w)) = domain
<1> DEFINE w == Written(local, domain)
           a == Len(local)
           d == Len(domain)
<1>1. local \in Seq(Char) /\ domain \in Seq(Char) /\ local # <<>> /\ domain # <<>>
  <2>1. local \in Seq(STRING) /\ domain \in Seq(STRING) /\ local # <<>> /\ domain # <<>>
    BY DEF Mailable
  <2> QED  BY <2>1, STRING \subseteq Char DEF Char
<1>2. a \in Nat /\ d \in Nat /\ a > 0 /\ d > 0
  BY <1>1
<1>4. /\ w \in Seq(Char) /\ Len(w) = a + 1 + d
      /\ \A i \in 1..a : w[i] = local[i]
      /\ w[a + 1] = "@"
      /\ \A i \in 1..d : w[a + 1 + i] = domain[i]
      /\ SubSeq(w, 1, a) = local
      /\ SubSeq(w, a + 1 + 1, Len(w)) = domain
  <2> DEFINE b == <<"@">>
  <2>1. b \in Seq(Char) /\ Len(b) = 1 /\ b[1] = "@"
    BY CharFacts
  <2>2. InPieces(w, local, b, domain)
    BY <1>1, <2>1, Pieces, Zenon DEF Written
  <2> HIDE DEF b, w
  <2>3. /\ w \in Seq(Char) /\ Len(w) = a + Len(b) + d
        /\ \A i \in 1..a : w[i] = local[i]
        /\ \A i \in 1..Len(b) : w[a + i] = b[i]
        /\ \A i \in 1..d : w[a + Len(b) + i] = domain[i]
        /\ SubSeq(w, 1, a) = local
        /\ SubSeq(w, a + Len(b) + 1, Len(w)) = domain
    BY <2>2 DEF InPieces
  <2> QED  BY <2>1, <2>3, 1 \in 1..1
<1> HIDE DEF w
<1>5. w[1] \notin {Space, "<"} /\ w[Len(w)] # Space
  <2>1. 1 \in 1..a /\ d \in 1..d
    BY <1>2
  <2> QED  BY <1>4, <2>1 DEF Mailable
<1>6. \A i \in 1..Len(w) : w[i] = "@" => a + 1 <= i
  <2> SUFFICES ASSUME NEW i \in 1..Len(w), w[i] = "@", ~(a + 1 <= i) PROVE FALSE
    OBVIOUS
  <2>1. i \in 1..a
    BY <1>2, <1>4
  <2> QED  BY <1>4, <2>1 DEF Mailable
<1>7. a + 1 \in Nat /\ 1 < a + 1 /\ a + 1 < Len(w) /\ a + 1 - 1 = a
  BY <1>2, <1>4
<1> QED  BY <1>4, <1>5, <1>6, <1>7 DEF w

\* parseAddress takes a written address apart.
LEMMA ParsesWritten ==
  ASSUME NEW local, NEW domain, Mailable(local, domain)
  PROVE  parseAddress(Written(local, domain)) = <<local, domain>>
<1> DEFINE w == Written(local, domain)
           k == Len(local) + 1
           at == {i \in 1..Len(w) : w[i] = "@"}
<1>1. /\ w \in Seq(Char) /\ k \in Nat /\ 1 < k /\ k < Len(w)
      /\ w[k] = "@" /\ \A i \in 1..Len(w) : w[i] = "@" => k <= i
      /\ SubSeq(w, 1, k - 1) = local /\ SubSeq(w, k + 1, Len(w)) = domain
  BY WrittenFacts
<1> HIDE DEF w, k
<1>2. k \in at /\ at \in SUBSET Nat /\ \A i \in at : k <= i
  BY <1>1
<1>3. Min(at) = k
  <2> HIDE DEF at
  <2> QED  BY <1>2, MinMax
<1>4. at # {} /\ Min(at) \notin {1, Len(w)}
  BY <1>1, <1>2, <1>3
<1>5. parseAddress(w) = <<SubSeq(w, 1, Min(at) - 1), SubSeq(w, Min(at) + 1, Len(w))>>
  BY <1>4, Zenon DEF parseAddress
<1> QED  BY <1>1, <1>3, <1>5, ZenonT(60) DEF w

\* From RCPT TO: to the lookups of deliverTo: in whatever way the client writes a
\* mailbox, with any number of spaces around it and with or without brackets,
\* extractAddress returns the bare address, and parseAddress its two sides.
THEOREM AddressRoundTrip ==
  ASSUME NEW local, NEW domain, Mailable(local, domain), NEW n \in Nat,
         NEW to \in Forms(local, domain, n)
  PROVE  /\ extractAddress(to) = Written(local, domain)
         /\ parseAddress(extractAddress(to)) = <<local, domain>>
<1> DEFINE w == Written(local, domain)
           l == <<"<">>
           g == <<">">>
           bracketed == l \o w \o g
<1>1. PICK form \in {w, bracketed} : to \in Spaced(form, n)
  BY DEF Forms
<1>2. /\ w \in Seq(Char) /\ Len(w) \in Nat /\ Len(w) > 0
      /\ w[1] \notin {Space, "<"} /\ w[Len(w)] # Space
  <2>1. /\ w \in Seq(Char) /\ Len(local) + 1 \in Nat
        /\ 1 < Len(local) + 1 /\ Len(local) + 1 < Len(w)
        /\ w[1] \notin {Space, "<"} /\ w[Len(w)] # Space
    BY WrittenFacts
  <2> HIDE DEF w
  <2> QED  BY <2>1
<1>3. /\ l \in Seq(Char) /\ Len(l) = 1 /\ l[1] = "<"
      /\ g \in Seq(Char) /\ Len(g) = 1 /\ g[1] = ">"
  BY CharFacts
<1> HIDE DEF w, l, g
<1>4. /\ bracketed \in Seq(Char) /\ Len(bracketed) = Len(w) + 2
      /\ bracketed[1] = "<" /\ bracketed[Len(bracketed)] = ">"
      /\ SubSeq(bracketed, 2, Len(bracketed) - 1) = w
  <2>1. InPieces(bracketed, l, w, g)
    BY <1>2, <1>3, Pieces
  <2> HIDE DEF bracketed
  <2>2. /\ bracketed \in Seq(Char) /\ Len(bracketed) = Len(l) + Len(w) + Len(g)
        /\ \A i \in 1..Len(l) : bracketed[i] = l[i]
        /\ \A i \in 1..Len(g) : bracketed[Len(l) + Len(w) + i] = g[i]
        /\ SubSeq(bracketed, Len(l) + 1, Len(l) + Len(w)) = w
    BY <2>1 DEF InPieces
  <2>3. /\ bracketed \in Seq(Char) /\ Len(bracketed) = 1 + Len(w) + 1
        /\ \A i \in 1..1 : bracketed[i] = l[i]
        /\ \A i \in 1..1 : bracketed[1 + Len(w) + i] = g[i]
        /\ SubSeq(bracketed, 1 + 1, 1 + Len(w)) = w
    BY <1>3, <2>2
  <2>4. /\ 1 \in 1..1 /\ Len(bracketed) - 1 = 1 + Len(w) /\ 1 + 1 = 2
        /\ Len(bracketed) = Len(w) + 2
    BY <1>2, <2>3
  <2> QED  BY <1>3, <2>3, <2>4
<1> HIDE DEF bracketed
<1>5. form \in Seq(Char) /\ Len(form) > 0 /\ form[1] # Space /\ form[Len(form)] # Space
  BY <1>2, <1>4, CharFacts
<1>6. TrimSpace(to) = form /\ form # <<>>
  <2>1. PICK before \in Spaces(n), after \in Spaces(n) : to = before \o form \o after
    BY <1>1, SpacedText
  <2> QED  BY <1>5, <2>1, TrimsSpaces
<1>7. extractAddress(to) = w
  <2>1. CASE form = w
    BY <1>2, <1>6, <2>1 DEF extractAddress
  <2>2. CASE form = bracketed
    BY <1>4, <1>6, <2>2 DEF extractAddress
  <2> QED  BY <2>1, <2>2
<1> QED  BY <1>7, ParsesWritten DEF w

----------------------------------------------------------------------------
\* A call serves the recipients of its event in order, each with the INBOX of its own.
Serves(d) == dpc[d] \in M!Running \ {"next"}

OrderInv ==
  /\ dpc \in [Delivery -> M!Running \cup {"idle", "returned", "dead"}]
  /\ devent \in [Delivery -> Seq(Addr)]
  /\ nth \in [Delivery -> Nat \ {0}] /\ inbox \in [Delivery -> Mailbox \cup {NoMailbox}]
  /\ \A d \in Delivery :
       /\ dpc[d] = "idle" => nth[d] = 1
       /\ dpc[d] = "returned" => nth[d] > Len(devent[d])
       /\ Serves(d) => /\ nth[d] <= Len(devent[d])
                       /\ inbox[d] \in Mailbox /\ inbox[d] = InboxOf[devent[d][nth[d]]]

\* A row lies in the INBOX of the entry of event.To that it was stored for.
Filed(r) ==
  /\ r.body \in Delivery /\ r.mailbox \in Mailbox
  /\ dpc[r.body] # "idle"
  /\ r.nth \in 1..Len(devent[r.body])
  /\ r.mailbox = InboxOf[devent[r.body][r.nth]]

RowInv == uidNext \in [Mailbox -> Nat] /\ \A r \in rows : Filed(r)

\* While MySQL is open, a call leaves no recipient behind that has an INBOX with
\* UIDs left, and for whom no statement failed.
Done(d, i) == i < nth[d] \/ (i = nth[d] /\ dpc[d] = "cache")

Kept(d, m) == (\E r \in rows : r.body = d /\ r.mailbox = m) \/ uidNext[m] >= MaxUID

Served(d, m) == Kept(d, m) \/ <<d, m>> \in failed

ServedInv ==
  MySQLOpen =>
    \A d \in Delivery : \A i \in 1..Len(devent[d]) :
      Done(d, i) /\ InboxOf[devent[d][i]] # NoMailbox => Served(d, InboxOf[devent[d][i]])

\* A call that is past "idle" keeps its event; returned stays returned.
CallsGoOn ==
  /\ \A d \in Delivery : dpc[d] # "idle" => dpc'[d] # "idle" /\ devent'[d] = devent[d]
  /\ \A d \in Delivery : dpc[d] = "returned" => dpc'[d] = "returned"

\* The lists of recipients are those of Deliver: sequences of addresses.
LEMMA RecipientLists == Recipients \subseteq Seq(Addr)
  BY DEF Recipients

\* What the lookups of deliverTo find.
LEMMA InboxFacts == InboxOf \in [Addr -> Mailbox \cup {NoMailbox}]
  BY UsersAssumption DEF InboxOf

\* An entry of event.To that resolves does so to a mailbox.
LEMMA EntryInbox ==
  ASSUME NEW s \in Seq(Addr), NEW n \in Nat \ {0}, n <= Len(s), InboxOf[s[n]] # NoMailbox
  PROVE  InboxOf[s[n]] \in Mailbox
<1>1. s[n] \in Addr
  OBVIOUS
<1> QED  BY <1>1, InboxFacts, Zenon

\* deliverTo has returned, and Deliver turns to the next recipient.
LEMMA AdvanceOrder ==
  ASSUME OrderInv, NEW d \in Delivery, dpc[d] \in M!Running, M!NextRecipient(d),
         UNCHANGED <<devent, inbox>>
  PROVE  OrderInv' /\ CallsGoOn
<1>1. /\ dpc' = [dpc EXCEPT ![d] = "next"] /\ nth' = [nth EXCEPT ![d] = @ + 1]
      /\ dpc[d] \notin {"idle", "returned"}
  BY DEF M!NextRecipient, M!goto, M!Running, M!InTx
<1>2. nth' \in [Delivery -> Nat \ {0}]
  BY <1>1 DEF OrderInv
<1>3. dpc' \in [Delivery -> M!Running \cup {"idle", "returned", "dead"}] /\ dpc'[d] = "next"
  BY <1>1 DEF OrderInv, M!Running
<1>4. \A e \in Delivery : e # d => dpc'[e] = dpc[e] /\ nth'[e] = nth[e]
  BY <1>1 DEF OrderInv
<1>5. CallsGoOn
  BY <1>1, <1>3, <1>4, Zenon DEF CallsGoOn
<1>6. ASSUME NEW e \in Delivery
      PROVE  /\ dpc'[e] = "idle" => nth'[e] = 1
             /\ dpc'[e] = "returned" => nth'[e] > Len(devent[e])
             /\ Serves(e)' => /\ nth'[e] <= Len(devent[e])
                              /\ inbox[e] \in Mailbox
                              /\ inbox[e] = InboxOf[devent[e][nth'[e]]]
  <2>1. CASE e = d
    BY <1>3, <2>1, ZenonT(60) DEF Serves
  <2>2. CASE e # d
    BY <1>4, <2>2, Zenon DEF Serves, OrderInv
  <2> QED  BY <2>1, <2>2
<1>7. OrderInv'
  BY <1>2, <1>3, <1>6 DEF OrderInv
<1> QED  BY <1>5, <1>7

\* One statement of a call, whatever comes of it.
LEMMA StatementOrder ==
  ASSUME OrderInv, NEW d \in Delivery, M!Step(d) \/ M!Fault(d)
  PROVE  OrderInv' /\ CallsGoOn
<1> USE DEF OrderInv, CallsGoOn, Serves, M!Running, M!InTx, M!goto, M!mysql, M!locals, M!EndTx,
            M!NextRecipient
<1>1. CASE M!ResolveInbox(d)
  <2>1. /\ nth[d] \in Nat \ {0} /\ nth[d] <= Len(devent[d]) /\ devent[d] \in Seq(Addr)
        /\ InboxOf[devent[d][nth[d]]] # NoMailbox
    BY <1>1, Zenon DEF M!ResolveInbox
  <2>2. InboxOf[devent[d][nth[d]]] \in Mailbox
    BY <2>1, EntryInbox, Zenon
  <2> QED  BY <1>1, <2>2 DEF M!ResolveInbox
<1>2. CASE M!Return(d)
  BY <1>2 DEF M!Return
<1>3. CASE M!BeginTx(d) \/ M!SelectForUpdate(d) \/ M!UpdateUIDNext(d)
  BY <1>3, ZenonT(60) DEF M!BeginTx, M!SelectForUpdate, M!UpdateUIDNext
<1>4. CASE M!CommitTx(d) \/ M!InsertMessage(d)
  BY <1>4, ZenonT(60) DEF M!CommitTx, M!InsertMessage
<1>5. CASE M!SetMessageBody(d) \/ M!Fault(d)
  <2>1. dpc[d] \in M!Running /\ M!NextRecipient(d) /\ UNCHANGED <<devent, inbox>>
    BY <1>5, ZenonT(60) DEF M!SetMessageBody, M!Fault, M!SetMessageBodyFails, M!ResolveFails,
                M!BeginTxFails, M!TxFails, M!CommitUnknown, M!InsertFails, M!InsertUnknown
  <2> QED  BY <2>1, AdvanceOrder
<1> QED  BY <1>1, <1>2, <1>3, <1>4, <1>5, Zenon DEF M!Step

\* What a statement does to the tables.
LEMMA StatementTables ==
  ASSUME OrderInv, RowInv, NEW d \in Delivery, M!Step(d) \/ M!Fault(d)
  PROVE  /\ uidNext' \in [Mailbox -> Nat] /\ \A m \in Mailbox : uidNext'[m] >= uidNext[m]
         /\ rows' = rows \/ (dpc[d] = "insert" /\ rows' = rows \cup {M!Row(d)})
<1>1. CASE M!CommitTx(d) \/ M!CommitUnknown(d)
  <2>1. /\ uidNext' = [uidNext EXCEPT ![inbox[d]] = @ + 1] /\ rows' = rows
        /\ inbox[d] \in Mailbox
    BY <1>1, Zenon DEF M!CommitTx, M!CommitUnknown, OrderInv, Serves, M!Running, M!InTx
  <2>2. uidNext \in [Mailbox -> Nat]
    BY DEF RowInv
  <2> QED  BY <2>1, <2>2
<1>2. CASE M!InsertMessage(d) \/ M!InsertUnknown(d)
  BY <1>2 DEF M!InsertMessage, M!InsertUnknown, RowInv
<1>3. CASE UNCHANGED <<uidNext, rows>>
  BY <1>3 DEF RowInv
<1>4. CASE ~(M!CommitTx(d) \/ M!CommitUnknown(d) \/ M!InsertMessage(d) \/ M!InsertUnknown(d))
  <2>1. UNCHANGED <<uidNext, rows>>
    BY <1>4, ZenonT(60) DEF M!Step, M!Fault, M!mysql, M!ResolveInbox, M!BeginTx, M!SelectForUpdate,
                M!UpdateUIDNext, M!SetMessageBody, M!Return, M!ResolveFails, M!BeginTxFails,
                M!TxFails, M!InsertFails, M!SetMessageBodyFails
  <2> QED  BY <1>3, <2>1
<1> QED  BY <1>1, <1>2, <1>4, Zenon

\* A row stays filed where it is.
LEMMA FiledStays ==
  ASSUME RowInv, CallsGoOn, NEW r \in rows
  PROVE  Filed(r)'
<1>1. Filed(r)
  BY ZenonT(60) DEF RowInv
<1>2. dpc'[r.body] # "idle" /\ devent'[r.body] = devent[r.body]
  BY <1>1 DEF Filed, CallsGoOn
<1> QED  BY <1>1, <1>2 DEF Filed

\* A statement files a row, if any, for the recipient being served.
LEMMA StatementRows ==
  ASSUME OrderInv, RowInv, NEW d \in Delivery, M!Step(d) \/ M!Fault(d)
  PROVE  RowInv'
<1>1. CallsGoOn
  BY StatementOrder
<1>2. /\ uidNext' \in [Mailbox -> Nat]
      /\ rows' = rows \/ (dpc[d] = "insert" /\ rows' = rows \cup {M!Row(d)})
  BY StatementTables, ZenonT(60)
<1>3. ASSUME NEW r \in rows', r \notin rows PROVE Filed(r)'
  <2>1. dpc[d] = "insert" /\ r = M!Row(d)
    BY <1>2, <1>3
  <2>2. r.body = d /\ r.mailbox = inbox[d] /\ r.nth = nth[d]
    BY <2>1, Zenon DEF M!Row
  <2>3. Serves(d)
    BY <2>1, ZenonT(60) DEF Serves, M!Running
  <2>4. /\ nth[d] \in 1..Len(devent[d]) /\ inbox[d] \in Mailbox
        /\ inbox[d] = InboxOf[devent[d][nth[d]]]
    BY <2>3 DEF OrderInv
  <2>5. dpc'[d] # "idle" /\ devent'[d] = devent[d]
    BY <1>1, <2>1 DEF CallsGoOn
  <2> QED  BY <2>2, <2>4, <2>5 DEF Filed
<1>4. ASSUME NEW r \in rows' PROVE Filed(r)'
  BY <1>1, <1>3, FiledStays
<1> QED  BY <1>2, <1>4 DEF RowInv

\* A call of Deliver begins with the first recipient.
LEMMA DeliverOrder ==
  ASSUME OrderInv, RowInv, NEW d \in Delivery, M!Deliver(d)
  PROVE  OrderInv' /\ RowInv' /\ CallsGoOn
<1>1. PICK to \in Recipients : devent' = [devent EXCEPT ![d] = to]
  BY Zenon DEF M!Deliver
<1>2. to \in Seq(Addr)
  BY RecipientLists, Zenon
<1>3. /\ dpc[d] = "idle" /\ dpc' = [dpc EXCEPT ![d] = "next"]
      /\ UNCHANGED <<nth, inbox, uidNext, rows>>
  BY ZenonT(60) DEF M!Deliver, M!goto, M!mysql
<1>4. OrderInv' /\ CallsGoOn
  BY <1>1, <1>2, <1>3 DEF OrderInv, CallsGoOn, Serves, M!Running
<1>5. RowInv'
  BY <1>3, <1>4, FiledStays DEF RowInv
<1> QED  BY <1>4, <1>5

\* The exit of the process stops the calls where they are.
LEMMA CrashOrder ==
  ASSUME OrderInv, RowInv, M!Crash
  PROVE  OrderInv' /\ RowInv' /\ CallsGoOn
<1>1. /\ dpc' = [d \in Delivery |-> IF dpc[d] \in M!Running THEN "dead" ELSE dpc[d]]
      /\ UNCHANGED <<devent, nth, inbox, uidNext, rows>>
  BY ZenonT(60) DEF M!Crash, M!locals
<1>2. OrderInv' /\ CallsGoOn
  BY <1>1 DEF OrderInv, CallsGoOn, Serves, M!Running, M!InTx
<1>3. RowInv'
  BY <1>1, <1>2, FiledStays, Zenon DEF RowInv
<1> QED  BY <1>2, <1>3

\* Neither a row nor an exhausted UID range goes away.
LEMMA KeptStays ==
  ASSUME NEW d, NEW m \in Mailbox, Kept(d, m), RowInv, rows \subseteq rows',
         uidNext' \in [Mailbox -> Nat], \A k \in Mailbox : uidNext'[k] >= uidNext[k]
  PROVE  Kept(d, m)'
<1>1. CASE \E r \in rows : r.body = d /\ r.mailbox = m
  BY <1>1 DEF Kept
<1>2. CASE uidNext[m] >= MaxUID
  <2>1. uidNext[m] \in Nat /\ uidNext'[m] \in Nat /\ uidNext'[m] >= uidNext[m]
    BY DEF RowInv
  <2> QED  BY <1>2, <2>1, StoreAssumption DEF Kept
<1> QED  BY <1>1, <1>2 DEF Kept

\* What a statement of the composition is to the store, and to everything else.
LEMMA StatementEffect ==
  ASSUME NEW d \in Delivery, Statement(d)
  PROVE  /\ M!Step(d) \/ M!Fault(d)
         /\ failed \subseteq failed' /\ UNCHANGED <<session, process, cur, meant, acked>>
<1>1. CASE Works(d)
  <2>1. M!Step(d) \/ M!Fault(d)
    BY <1>1, ZenonT(60) DEF Works, M!Step, M!Fault, M!Refused
  <2> QED  BY <1>1, <2>1, Zenon DEF Works, history
<1>2. CASE FailsClosed(d)
  <2>1. M!Fault(d)
    BY <1>2, ZenonT(60) DEF FailsClosed, M!Fault
  <2> QED  BY <1>2, <2>1, Zenon DEF FailsClosed, history
<1>3. CASE Fails(d)
  <2>1. M!Fault(d)
    BY <1>3, ZenonT(60) DEF Fails, M!Fault
  <2> QED  BY <1>3, <2>1, Zenon DEF Fails
<1> QED  BY <1>1, <1>2, <1>3, Zenon DEF Statement

\* While MySQL is open, the only statements that make a call give a recipient up are
\* the refusal of an address without INBOX and of a mailbox without UIDs, and those
\* whose failure is remembered.
LEMMA GivenUp ==
  ASSUME OrderInv, NEW d \in Delivery, Statement(d), MySQLOpen
  PROVE  /\ UNCHANGED devent
         /\ \/ nth' = nth /\ dpc'[d] # "cache"
            \/ nth' = nth /\ dpc[d] = "insert" /\ rows' = rows \cup {M!Row(d)}
            \/ /\ M!NextRecipient(d)
               /\ \/ dpc[d] = "cache"
                  \/ dpc[d] = "next" /\ InboxOf[devent[d][nth[d]]] = NoMailbox
                  \/ dpc[d] = "update" /\ uidNext[inbox[d]] >= MaxUID /\ uidNext' = uidNext
                  \/ <<d, InboxOf[devent[d][nth[d]]]>> \in failed'
<1>1. CASE M!InsertMessage(d)
  BY <1>1, Zenon DEF M!InsertMessage
<1>2. CASE M!SetMessageBody(d) \/ M!SetMessageBodyFails(d)
  BY <1>2, Zenon DEF M!SetMessageBody, M!SetMessageBodyFails
<1>3. CASE M!Refused(d)
  BY <1>3, ZenonT(60) DEF M!Refused, M!ResolveFails, M!TxFails
<1>4. CASE M!ResolveInbox(d) \/ M!BeginTx(d) \/ M!SelectForUpdate(d) \/ M!UpdateUIDNext(d)
             \/ M!CommitTx(d) \/ M!Return(d)
  <2>1. \E label \in {"begin", "select", "update", "commit", "insert", "returned"} :
          dpc' = [dpc EXCEPT ![d] = label]
    BY <1>4, ZenonT(60) DEF M!ResolveInbox, M!BeginTx, M!SelectForUpdate, M!UpdateUIDNext, M!CommitTx,
                M!Return, M!goto
  <2>2. dpc'[d] # "cache"
    BY <2>1 DEF OrderInv
  <2>3. UNCHANGED <<devent, nth>>
    BY <1>4, Zenon DEF M!ResolveInbox, M!BeginTx, M!SelectForUpdate, M!UpdateUIDNext, M!CommitTx,
                M!Return, M!locals
  <2> QED  BY <2>2, <2>3
<1>5. CASE /\ M!ResolveFails(d) \/ M!BeginTxFails(d) \/ M!TxFails(d) \/ M!CommitUnknown(d)
                \/ M!InsertFails(d) \/ M!InsertUnknown(d)
           /\ failed' = failed \cup {<<d, InboxOf[devent[d][nth[d]]]>>}
  <2>1. UNCHANGED devent /\ M!NextRecipient(d)
    BY <1>5, ZenonT(60) DEF M!ResolveFails, M!BeginTxFails, M!TxFails, M!CommitUnknown,
                M!InsertFails, M!InsertUnknown
  <2> QED  BY <1>5, <2>1, Zenon
<1>6. CASE Works(d)
  BY <1>1, <1>2, <1>3, <1>4, <1>6, ZenonT(60) DEF Works
<1>7. CASE FailsClosed(d) \/ Fails(d)
  BY <1>2, <1>5, <1>7, ZenonT(60) DEF FailsClosed, Fails
<1> QED  BY <1>6, <1>7, Zenon DEF Statement

\* A statement keeps the promise to the recipients passed, and to the one it passes.
LEMMA StatementServes ==
  ASSUME OrderInv, RowInv, ServedInv, NEW d \in Delivery, Statement(d), MySQLOpen
  PROVE  ServedInv'
<1>1. /\ UNCHANGED devent
      /\ \/ nth' = nth /\ dpc'[d] # "cache"
         \/ nth' = nth /\ dpc[d] = "insert" /\ rows' = rows \cup {M!Row(d)}
         \/ /\ M!NextRecipient(d)
            /\ \/ dpc[d] = "cache"
               \/ dpc[d] = "next" /\ InboxOf[devent[d][nth[d]]] = NoMailbox
               \/ dpc[d] = "update" /\ uidNext[inbox[d]] >= MaxUID /\ uidNext' = uidNext
               \/ <<d, InboxOf[devent[d][nth[d]]]>> \in failed'
  BY GivenUp, Zenon
<1>7. (M!Step(d) \/ M!Fault(d)) /\ failed \subseteq failed'
  BY StatementEffect, Zenon
<1>2. /\ uidNext' \in [Mailbox -> Nat] /\ \A m \in Mailbox : uidNext'[m] >= uidNext[m]
      /\ rows \subseteq rows'
  BY <1>7, StatementTables
<1>3. \A e \in Delivery : e # d => dpc'[e] = dpc[e] /\ nth'[e] = nth[e]
  BY <1>7, Zenon DEF M!Step, M!Fault, M!ResolveInbox, M!BeginTx, M!SelectForUpdate,
       M!UpdateUIDNext, M!CommitTx, M!InsertMessage, M!SetMessageBody, M!Return,
       M!ResolveFails, M!BeginTxFails, M!TxFails, M!CommitUnknown, M!InsertFails,
       M!InsertUnknown, M!SetMessageBodyFails, M!NextRecipient, M!goto, M!locals, OrderInv
<1>4. ASSUME NEW e \in Delivery, NEW i \in 1..Len(devent[e]),
             InboxOf[devent[e][i]] # NoMailbox
      PROVE  InboxOf[devent[e][i]] \in Mailbox
  <2>1. devent[e][i] \in Addr
    BY DEF OrderInv
  <2> QED  BY <1>4, <2>1, InboxFacts, ZenonT(60)
<1> SUFFICES ASSUME NEW e \in Delivery, NEW i \in 1..Len(devent[e]), Done(e, i)',
                    NEW m \in Mailbox, m = InboxOf[devent[e][i]], m # NoMailbox
             PROVE  Served(e, m)'
  BY <1>1, <1>4, ZenonT(60) DEF ServedInv, InboxOf, Served, Kept
<1>5. CASE Done(e, i)
  <2>1. Served(e, m)
    BY <1>5, Zenon DEF ServedInv
  <2>2. CASE Kept(e, m)
    BY <1>2, <2>2, KeptStays, Zenon DEF Served
  <2>3. CASE <<e, m>> \in failed
    BY <1>7, <2>3, Zenon DEF Served
  <2> QED  BY <2>1, <2>2, <2>3, Zenon DEF Served
<1>6. CASE ~Done(e, i)
  <2>1. e = d
    BY <1>3, <1>6, Zenon DEF Done
  <2>2. nth[d] \in Nat /\ i \in Nat
    BY DEF OrderInv
  <2>3. CASE nth' = nth /\ dpc'[d] # "cache"
    BY <1>6, <2>1, <2>3, Zenon DEF Done
  <2>4. CASE nth' = nth /\ dpc[d] = "insert" /\ rows' = rows \cup {M!Row(d)}
    <3>1. i = nth[d]
      BY <1>6, <2>1, <2>4 DEF Done
    <3>2. M!Row(d).body = d /\ M!Row(d).mailbox = inbox[d] /\ M!Row(d) \in rows'
      BY <2>4, Zenon DEF M!Row
    <3>3. inbox[d] = m
      BY <2>1, <2>4, <3>1, Zenon DEF OrderInv, Serves, M!Running
    <3> QED  BY <1>1, <2>1, <3>2, <3>3, Zenon DEF Served, Kept
  <2>5. CASE M!NextRecipient(d)
    <3>1. nth'[d] = nth[d] + 1 /\ dpc'[d] = "next"
      BY <2>5, ZenonT(60) DEF M!NextRecipient, M!goto, OrderInv
    <3>2. nth' # nth
      BY <2>2, <3>1
    <3>3. i = nth[d] /\ dpc[d] # "cache"
      BY <1>6, <2>1, <2>2, <3>1 DEF Done
    <3>4. CASE dpc[d] = "update" /\ uidNext[inbox[d]] >= MaxUID /\ uidNext' = uidNext
      <4>1. inbox[d] = m
        BY <2>1, <3>3, <3>4, Zenon DEF OrderInv, Serves, M!Running, M!InTx
      <4> QED  BY <3>4, <4>1, Zenon DEF Served, Kept
    <3>5. CASE <<d, InboxOf[devent[d][nth[d]]]>> \in failed'
      BY <2>1, <3>3, <3>5, Zenon DEF Served
    <3> QED  BY <1>1, <2>1, <3>2, <3>3, <3>4, <3>5, Zenon
  <2> QED  BY <1>1, <2>3, <2>4, <2>5, Zenon
<1> QED  BY <1>5, <1>6, ZenonT(60)

----------------------------------------------------------------------------
\* Every step of the composition is a step of the store, or none.
LEMMA StoreStep == [MailNext]_mail => [M!Next]_store
<1> SUFFICES ASSUME [MailNext]_mail PROVE M!Next \/ UNCHANGED store
  BY ZenonT(60)
<1>1. CASE SessionReads \/ ReadsRecipient \/ Answered \/ SessionEnds \/ ProcessStep
  BY <1>1 DEF SessionReads, ReadsRecipient, Answered, SessionEnds, ProcessStep
<1>2. CASE CallDeliver
  <2>1. cur' \in Mine /\ M!Deliver(cur')
    BY <1>2 DEF CallDeliver, Unused
  <2> QED  BY <2>1, StoreAssumption DEF M!Next
<1>3. CASE OtherCalls
  BY <1>3 DEF OtherCalls, M!Next
<1>4. CASE \E d \in Delivery : Statement(d)
  BY <1>4, StatementEffect, Zenon DEF M!Next
<1>5. CASE ProcessExits
  BY <1>5 DEF ProcessExits, M!Next
<1>6. CASE UNCHANGED mail
  BY <1>6 DEF mail
<1> QED  BY <1>1, <1>2, <1>3, <1>4, <1>5, <1>6, Zenon DEF MailNext

\* ... and of the process.
LEMMA LifeStep == [MailNext]_mail => [L!LifeNext]_process
<1> SUFFICES ASSUME [MailNext]_mail PROVE L!LifeNext \/ UNCHANGED process
  OBVIOUS
<1>1. CASE SessionReads \/ ReadsRecipient \/ CallDeliver \/ Answered \/ OtherCalls
             \/ \E d \in Delivery : Statement(d)
  BY <1>1, StatementEffect, Zenon DEF SessionReads, ReadsRecipient, CallDeliver, Answered, OtherCalls
<1>2. CASE SessionEnds
  BY <1>2 DEF SessionEnds, L!LifeNext
<1>3. CASE ProcessStep
  BY <1>3 DEF ProcessStep, L!LifeNext, L!Boot, L!Stop, L!Listener
<1>4. CASE ProcessExits
  BY <1>4 DEF ProcessExits, L!LifeNext, L!Stop
<1>5. CASE UNCHANGED mail
  BY <1>5 DEF mail
<1> QED  BY <1>1, <1>2, <1>3, <1>4, <1>5 DEF MailNext

\* The plain accept loop runs only while main is in Start, so that main, once past
\* it, does not come back to before the stores are closed.
LoopInv ==
  /\ loop \in [L!Listener -> {"off", "accept", "failed", "returned"}]
  /\ loop["plain"] \in {"accept", "failed"} => main = "serve"

\* main does not come back to a point where MySQL is open.
LEMMA MySQLStaysClosed ==
  ASSUME LoopInv, [MailNext]_mail
  PROVE  LoopInv' /\ (MySQLOpen' => MySQLOpen)
<1>1. loop \in [{"plain", "tls"} -> {"off", "accept", "failed", "returned"}]
  BY DEF LoopInv, L!Listener
<1> USE DEF LoopInv, MySQLOpen, L!Listener
<1>2. CASE UNCHANGED <<main, loop>>
  BY <1>2
<1>3. CASE SessionReads \/ ReadsRecipient \/ CallDeliver \/ Answered \/ OtherCalls
             \/ (\E d \in Delivery : Statement(d)) \/ SessionEnds
  <2>1. UNCHANGED <<main, loop>>
    BY <1>3, StatementEffect, Zenon DEF SessionReads, ReadsRecipient, CallDeliver, Answered,
                OtherCalls, SessionEnds, L!Finish, process
  <2> QED  BY <1>2, <2>1
<1>4. CASE ProcessStep
  <2>1. CASE L!Signal \/ L!CloseListeners \/ \E c \in Conn : L!Accept("plain", c)
    BY <1>2, <2>1 DEF L!Signal, L!CloseListeners, L!Accept
  <2>2. CASE L!OpenStores \/ L!LoadTLS \/ L!CloseStores
    BY <2>2, Zenon DEF L!OpenStores, L!LoadTLS, L!CloseStores
  <2>3. CASE L!ListenPlain
    BY <1>1, <2>3 DEF L!ListenPlain
  <2>4. CASE L!AcceptFails("plain")
    BY <1>1, <2>4 DEF L!AcceptFails
  <2>5. CASE L!AfterAcceptError("plain")
    BY <1>1, <2>5 DEF L!AfterAcceptError
  <2> QED  BY <1>4, <2>1, <2>2, <2>3, <2>4, <2>5, Zenon DEF ProcessStep
<1>5. CASE ProcessExits
  BY <1>5 DEF ProcessExits, L!Exit
<1>6. CASE UNCHANGED mail
  BY <1>2, <1>6 DEF mail, process
<1> QED  BY <1>3, <1>4, <1>5, <1>6 DEF MailNext

\* The calls keep their order and their rows.
LEMMA StoreKept ==
  ASSUME OrderInv, RowInv, [MailNext]_mail
  PROVE  OrderInv' /\ RowInv' /\ CallsGoOn
<1>1. M!Next \/ UNCHANGED store
  BY StoreStep
<1>2. CASE \E d \in Delivery : M!Deliver(d)
  BY <1>2, DeliverOrder
<1>3. CASE \E d \in Delivery : M!Step(d) \/ M!Fault(d)
  BY <1>3, StatementOrder, StatementRows
<1>4. CASE M!Crash
  BY <1>4, CrashOrder
<1>5. CASE M!Expire \/ UNCHANGED store
  <2>1. UNCHANGED <<dpc, devent, nth, inbox, uidNext, rows>>
    BY <1>5 DEF M!Expire, M!mysql, M!locals, store
  <2> QED  BY <2>1, Zenon DEF OrderInv, Serves, RowInv, Filed, CallsGoOn
<1> QED  BY <1>1, <1>2, <1>3, <1>4, <1>5 DEF M!Next

\* No step of the system takes a row out of the table or a UID back.
LEMMA TablesGrow ==
  ASSUME OrderInv, RowInv, [MailNext]_mail
  PROVE  /\ rows \subseteq rows' /\ uidNext' \in [Mailbox -> Nat]
         /\ \A m \in Mailbox : uidNext'[m] >= uidNext[m]
<1>1. M!Next \/ UNCHANGED store
  BY StoreStep, Zenon
<1>2. CASE \E d \in Delivery : M!Step(d) \/ M!Fault(d)
  <2>1. PICK d \in Delivery : M!Step(d) \/ M!Fault(d)
    BY <1>2, Zenon
  <2>2. /\ uidNext' \in [Mailbox -> Nat] /\ \A m \in Mailbox : uidNext'[m] >= uidNext[m]
        /\ rows' = rows \/ rows' = rows \cup {M!Row(d)}
    BY <2>1, StatementTables, Zenon
  <2> QED  BY <2>2, Zenon
<1>3. CASE (\E d \in Delivery : M!Deliver(d)) \/ M!Crash \/ M!Expire \/ UNCHANGED store
  <2>1. UNCHANGED <<rows, uidNext>>
    BY <1>3, Zenon DEF M!Deliver, M!Crash, M!Expire, M!mysql, store
  <2>2. uidNext \in [Mailbox -> Nat]
    BY Zenon DEF RowInv
  <2> QED  BY <2>1, <2>2
<1> QED  BY <1>1, <1>2, <1>3, Zenon DEF M!Next

\* A new call has passed no recipient.
LEMMA DeliverServes ==
  ASSUME OrderInv, ServedInv, NEW d \in Delivery, M!Deliver(d), failed' = failed, MySQLOpen
  PROVE  ServedInv'
<1>1. /\ nth[d] = 1 /\ dpc'[d] = "next" /\ UNCHANGED <<nth, rows, uidNext>>
      /\ \A e \in Delivery : e # d => dpc'[e] = dpc[e] /\ devent'[e] = devent[e]
  BY Zenon DEF M!Deliver, M!goto, M!mysql, OrderInv
<1>2. ASSUME NEW e \in Delivery, NEW i \in 1..Len(devent'[e]), Done(e, i)',
             InboxOf[devent'[e][i]] # NoMailbox
      PROVE  Served(e, InboxOf[devent'[e][i]])
  <2>1. CASE e = d
    BY <1>1, <1>2, <2>1 DEF Done
  <2>2. CASE e # d
    <3>1. Done(e, i) /\ devent'[e] = devent[e]
      BY <1>1, <1>2, <2>2, Zenon DEF Done
    <3> QED  BY <1>2, <3>1 DEF ServedInv
  <2> QED  BY <2>1, <2>2, ZenonT(60)
<1> QED  BY <1>1, <1>2, Zenon DEF ServedInv, Served, Kept, InboxOf

\* The composition gives the store nothing but what MessageStore allows, and the
\* process nothing but what Lifecycle allows: what is proved of them holds of it.
THEOREM PartsAreUsedAsSpecified ==
  MailSpec => M!Spec /\ L!LifeInit /\ [][L!LifeNext]_(L!life)
<1>1. MailInit => M!Init /\ L!LifeInit
  BY DEF MailInit
<1>2. [MailNext]_mail => [M!Next]_(M!vars)
  BY StoreStep DEF store, M!vars
<1>3. [MailNext]_mail => [L!LifeNext]_(L!life)
  BY LifeStep DEF process, L!life
<1> QED  BY <1>1, <1>2, <1>3, PTL DEF MailSpec, M!Spec

----------------------------------------------------------------------------
AddressOf(who) == Written(who[1], who[2])

\* s holds nothing but acknowledged recipients; s holds all of names.
AllAcked(s) == \A i \in 1..Len(s) : \E who \in acked : s[i] = AddressOf(who)

HoldsAll(s, names) == \A who \in names : \E i \in 1..Len(s) : s[i] = AddressOf(who)

\* A mailbox once acknowledged stays so: the entries of a list remain accounted for
\* when the session acknowledges another recipient.
LEMMA AckedStays ==
  ASSUME acked \subseteq acked', NEW s, AllAcked(s)
  PROVE  \A i \in 1..Len(s) : \E who \in acked' : s[i] = AddressOf(who)
  BY ZenonT(60) DEF AllAcked

\* A recipient added at the end of a list: the list then has it, and what it had.
LEMMA AppendedName ==
  ASSUME NEW s \in Seq(Addr), NEW who, AddressOf(who) \in Addr
  PROVE  /\ AllAcked(s) /\ acked' = acked \cup {who} =>
              \A i \in 1..Len(Append(s, AddressOf(who))) :
                \E w \in acked' : Append(s, AddressOf(who))[i] = AddressOf(w)
         /\ \A names : HoldsAll(s, names) =>
              HoldsAll(Append(s, AddressOf(who)), names \cup {who})
<1> DEFINE a == AddressOf(who)
           t == Append(s, a)
<1>1. Len(s) \in Nat /\ Len(t) = Len(s) + 1
  OBVIOUS
<1>2. t[Len(s) + 1] = a /\ \A i \in 1..Len(s) : t[i] = s[i]
  OBVIOUS
<1>3. \A i \in 1..Len(t) : i \in 1..Len(s) \/ i = Len(s) + 1
  BY <1>1
<1>4. Len(s) + 1 \in 1..Len(t) /\ \A i \in 1..Len(s) : i \in 1..Len(t)
  BY <1>1
<1> HIDE DEF t, a
<1>5. ASSUME AllAcked(s), acked' = acked \cup {who}, NEW i \in 1..Len(t)
      PROVE  \E w \in acked' : t[i] = AddressOf(w)
  <2>1. CASE i \in 1..Len(s)
    BY <1>2, <1>5, <2>1, ZenonT(60) DEF AllAcked
  <2>2. CASE i = Len(s) + 1
    BY <1>2, <1>5, <2>2 DEF a
  <2> QED  BY <1>3, <2>1, <2>2
<1>6. ASSUME NEW names, HoldsAll(s, names) PROVE HoldsAll(t, names \cup {who})
  <2> SUFFICES ASSUME NEW w \in names \cup {who} PROVE \E i \in 1..Len(t) : t[i] = AddressOf(w)
    BY DEF HoldsAll
  <2>1. CASE w \in names
    BY <1>2, <1>4, <1>6, <2>1, Zenon DEF HoldsAll
  <2>2. CASE w = who
    BY <1>2, <1>4, <2>2 DEF a
  <2> QED  BY <2>1, <2>2
<1> QED  BY <1>5, <1>6 DEF t, a

\* The code that the session writes.
LEMMA WritesCode ==
  ASSUME NEW cmd, NEW c, S!write(cmd, c)
  PROVE  reply'.code = c
  BY DEF S!write

\* What the lookups find for a name that the client can mean.
LEMMA InboxOfName ==
  ASSUME NEW who \in Names
  PROVE  /\ AddressOf(who) \in Addr
         /\ InboxOf[AddressOf(who)] = IF who \in DOMAIN Users THEN Users[who] ELSE NoMailbox
<1>1. who = <<who[1], who[2]>> /\ Mailable(who[1], who[2]) /\ AddressOf(who) \in Addr
  BY NamesAssumption DEF AddressOf
<1>2. parseAddress(AddressOf(who)) = who
  BY <1>1, ParsesWritten, Zenon DEF AddressOf
<1> QED  BY <1>1, <1>2 DEF InboxOf

----------------------------------------------------------------------------
\* What is needed of the session's own invariant: the types of envelope and transaction,
\* and that an event ends with the recipients acknowledged since MAIL.
SessionInv ==
  /\ envelope \in [From: Addr \cup {NoAddr}, To: Seq(Addr), Data: Seq(S!Line)]
  /\ tx \in [from: Addr \cup {NoAddr}, to: Seq(Addr)]
  /\ sevent.To \in Seq(Addr)
  /\ spc = "deliver" =>
       /\ Len(tx.to) <= Len(sevent.To)
       /\ \A i \in 1..Len(tx.to) : tx.to[i] = sevent.To[Len(sevent.To) - Len(tx.to) + i]

\* What the client means is what extractAddress has left in envelope and event.
MeaningInv ==
  /\ acked \subseteq Names /\ meant \subseteq Names
  /\ AllAcked(envelope.To)
  /\ \A d \in Mine : AllAcked(devent[d])
  /\ HoldsAll(tx.to, meant)

\* The session waits for the call it made, and answers when that has returned.
CallInv ==
  /\ spc = "deliver" => cur \in Mine /\ dpc[cur] # "idle" /\ devent[cur] = sevent.To
  /\ reply.code = "accepted" =>
       cur \in Mine /\ dpc[cur] = "returned" /\ HoldsAll(devent[cur], meant)

\* What holds between the parts, and of the calls of Deliver under way.
LinkInv == MeaningInv /\ CallInv /\ OrderInv /\ RowInv /\ ServedInv /\ LoopInv

\* The line of a recipient, as the session sees it.
RcptLine(who) == [dots |-> 0, verb |-> "RCPT", arg |-> AddressOf(who)]

\* What extractAddress makes of a recipient that the client names.
LEMMA RecipientLine ==
  ASSUME NEW who \in Names, NEW to \in Forms(who[1], who[2], 1)
  PROVE  /\ extractAddress(to) = AddressOf(who) /\ AddressOf(who) \in Addr
         /\ [dots |-> 0, verb |-> "RCPT", arg |-> extractAddress(to)] = RcptLine(who)
         /\ RcptLine(who) \in S!Line
<1>1. extractAddress(to) = AddressOf(who)
  BY AddressRoundTrip, NamesAssumption, 1 \in Nat, Zenon DEF AddressOf
<1>2. AddressOf(who) \in Addr
  BY NamesAssumption DEF AddressOf
<1>3. RcptLine(who) \in S!Line
  BY <1>2, Zenon DEF RcptLine, S!Line, S!Verb
<1> QED  BY <1>1, <1>2, <1>3, Zenon DEF RcptLine

\* What the session does with any line but RCPT: no recipient is added, and the
\* recipients acknowledged so far are forgotten only with a new MAIL.
LEMMA ReadsEffect ==
  ASSUME SessionInv, SessionReads
  PROVE  /\ envelope'.To = envelope.To \/ envelope'.To = <<>>
         /\ meant' = {} \/ (meant' = meant /\ tx' = tx)
         /\ reply'.code # "accepted" /\ spc' # "deliver"
         /\ UNCHANGED <<store, process, cur, acked>>
<1>1. UNCHANGED <<store, process, cur, acked>>
  BY DEF SessionReads
<1>2. envelope \in [From: Addr \cup {NoAddr}, To: Seq(Addr), Data: Seq(S!Line)]
  BY Zenon DEF SessionInv
<1> DEFINE Effect ==
      /\ envelope'.To = envelope.To \/ envelope'.To = <<>>
      /\ tx' = tx \/ reply' = [cmd |-> "MAIL", code |-> "250"]
      /\ reply'.code # "accepted" /\ spc' # "deliver"
<1>3. ASSUME NEW l, l.verb # "RCPT", S!Handle(l) PROVE Effect
  <2> USE DEF S!Refuse, S!BadSequence, S!write
  <2>1. spc = "loop"
    BY <1>3, ZenonT(60) DEF S!Handle
  <2>2. CASE S!handleEHLO(l.arg)
    BY <2>1, <2>2 DEF S!handleEHLO, S!Reset
  <2>3. CASE S!handleMAIL(l.arg)
    BY <1>2, <2>1, <2>3 DEF S!handleMAIL
  <2>4. CASE S!handleRSET \/ S!handleQUIT
    BY <2>1, <2>4 DEF S!handleRSET, S!handleQUIT, S!Reset
  <2>5. CASE S!handleSTARTTLS \/ S!handleDATA
    <3>1. CASE S!handleSTARTTLS
      BY <2>1, <3>1 DEF S!handleSTARTTLS
    <3>2. CASE S!handleDATA
      BY <2>1, <3>2 DEF S!handleDATA
    <3> QED  BY <2>5, <3>1, <3>2, Zenon
  <2>6. CASE \E cmd \in {"NOOP", "other", ""}, c \in {"250", "500", ""} : S!Refuse(cmd, c)
    <3> HIDE DEF S!write
    <3>1. PICK cmd \in {"NOOP", "other", ""}, c \in {"250", "500", ""} : S!Refuse(cmd, c)
      BY <2>6, Zenon
    <3>2. envelope' = envelope /\ tx' = tx /\ spc' = spc /\ S!write(cmd, c)
      BY <3>1, Zenon
    <3>3. reply'.code = c /\ c # "accepted"
      BY <3>2, WritesCode, Zenon
    <3> QED  BY <2>1, <3>2, <3>3, Zenon
  <2>7. S!Command(l) # "RCPT"
    BY <1>3 DEF S!Command
  <2> QED  BY <1>3, <2>2, <2>3, <2>4, <2>5, <2>6, <2>7, ZenonT(60) DEF S!Handle
<1>4. ASSUME NEW l, S!DataLine(l) \/ S!DataTooBig(l) PROVE Effect
  <2>1. /\ envelope' = envelope \/ envelope' = S!Reset
        /\ tx' = tx /\ spc' \in {"data", "loop"}
        /\ S!write("DATA", "") \/ S!write("DATA", "552")
    BY <1>4, Zenon DEF S!DataLine, S!DataTooBig
  <2>2. reply'.code # "accepted"
    BY <2>1, WritesCode, Zenon
  <2>3. S!Reset.To = <<>>
    BY DEF S!Reset
  <2>4. envelope'.To = envelope.To \/ envelope'.To = <<>>
    BY <2>1, <2>3, Zenon
  <2>5. spc' # "deliver" /\ tx' = tx
    BY <2>1, Zenon
  <2> QED  BY <2>2, <2>4, <2>5, Zenon
<1>5. ASSUME S!DataReadError \/ S!ReadError PROVE Effect
  <2>1. /\ envelope' = envelope /\ tx' = tx /\ spc' \in {"loop", "closed"}
        /\ S!write("DATA", "") \/ S!write("", "")
    BY <1>5, Zenon DEF S!DataReadError, S!ReadError
  <2>2. reply'.code # "accepted"
    BY <2>1, WritesCode, ZenonT(60)
  <2> QED  BY <2>1, <2>2, Zenon
<1>6. Effect
  BY <1>3, <1>4, <1>5 DEF SessionReads
<1>7. meant' = IF reply' = [cmd |-> "MAIL", code |-> "250"] THEN {} ELSE meant
  BY DEF SessionReads
<1> QED  BY <1>1, <1>6, <1>7, Zenon

\* What it does with RCPT: the recipient is added everywhere, or nowhere.
LEMMA RcptEffect ==
  ASSUME SessionInv, ReadsRecipient
  PROVE  /\ \E who \in Names :
              \/ /\ envelope'.To = Append(envelope.To, AddressOf(who))
                 /\ tx'.to = Append(tx.to, AddressOf(who))
                 /\ meant' = meant \cup {who} /\ acked' = acked \cup {who}
              \/ envelope' = envelope /\ tx' = tx /\ meant' = meant /\ acked' = acked
         /\ reply'.code # "accepted" /\ spc' # "deliver"
         /\ UNCHANGED <<store, process, cur>>
<1>1. UNCHANGED <<store, process, cur>>
  BY DEF ReadsRecipient
<1> PICK who \in Names : \E to \in Forms(who[1], who[2], 1) :
        /\ S!Handle([dots |-> 0, verb |-> "RCPT", arg |-> extractAddress(to)])
        /\ meant' = meant \cup IF reply'.code = "250" THEN {who} ELSE {}
        /\ acked' = acked \cup IF reply'.code = "250" THEN {who} ELSE {}
  BY DEF ReadsRecipient
<1>2. PICK to \in Forms(who[1], who[2], 1) :
        /\ S!Handle([dots |-> 0, verb |-> "RCPT", arg |-> extractAddress(to)])
        /\ meant' = meant \cup IF reply'.code = "250" THEN {who} ELSE {}
        /\ acked' = acked \cup IF reply'.code = "250" THEN {who} ELSE {}
  BY ZenonT(60)
<1>3. S!Handle(RcptLine(who)) /\ AddressOf(who) \in Addr
  BY <1>2, RecipientLine
<1>4. spc = "loop" /\ S!handleRCPT(AddressOf(who))
  <2>1. S!Command(RcptLine(who)) = "RCPT" /\ RcptLine(who).arg = AddressOf(who)
    BY DEF S!Command, RcptLine
  <2> QED  BY <1>3, <2>1, ZenonT(60) DEF S!Handle
<1>5. AddressOf(who) # NoAddr
  BY <1>3, SessionAssumption
<1>6. /\ envelope \in [From: Addr \cup {NoAddr}, To: Seq(Addr), Data: Seq(S!Line)]
      /\ tx \in [from: Addr \cup {NoAddr}, to: Seq(Addr)]
  BY Zenon DEF SessionInv
<1>7. CASE \E c \in {"452", "503"} : S!Refuse("RCPT", c)
  <2>1. /\ reply'.code \in {"452", "503"} /\ envelope' = envelope /\ tx' = tx /\ spc' = spc
    BY <1>7 DEF S!Refuse, S!write
  <2>2. meant' = meant /\ acked' = acked
    BY <1>2, <2>1, Zenon
  <2> QED  BY <1>1, <1>4, <2>1, <2>2, Zenon
<1>8. CASE /\ envelope' = S!AddRecipient(AddressOf(who)) /\ S!write("RCPT", "250")
           /\ tx' = [tx EXCEPT !.to = Append(@, AddressOf(who))] /\ spc' = spc
  <2>1. /\ envelope'.To = Append(envelope.To, AddressOf(who))
        /\ tx'.to = Append(tx.to, AddressOf(who))
    BY <1>6, <1>8 DEF S!AddRecipient
  <2>2. reply'.code = "250"
    BY <1>8, Zenon DEF S!write
  <2>3. meant' = meant \cup {who} /\ acked' = acked \cup {who}
    BY <1>2, <2>2, Zenon
  <2> QED  BY <1>1, <1>4, <1>8, <2>1, <2>2, <2>3, Zenon
<1> QED  BY <1>4, <1>5, <1>7, <1>8, Zenon DEF S!handleRCPT, S!BadSequence

\* What it does at the end marker: the envelope's recipients become those of a new call.
LEMMA CallEffect ==
  ASSUME SessionInv, OrderInv, CallDeliver
  PROVE  /\ cur' \in Mine /\ cur' \in Delivery /\ M!Deliver(cur')
         /\ dpc'[cur'] = "next" /\ devent'[cur'] = envelope.To /\ sevent'.To = envelope.To
         /\ \A d \in Delivery : d # cur' => devent'[d] = devent[d]
         /\ envelope'.To = envelope.To /\ tx' = tx /\ reply'.code # "accepted"
         /\ UNCHANGED <<process, meant, acked, failed>>
<1>1. /\ cur' \in Mine /\ M!Deliver(cur') /\ devent'[cur'] = sevent'.To
      /\ UNCHANGED <<process, meant, acked, failed>>
  BY DEF CallDeliver, Unused, history
<1>2. cur' \in Delivery
  BY <1>1, StoreAssumption, ZenonT(60)
<1>3. PICK l \in Input : S!DataEnd(l)
  BY DEF CallDeliver
<1>4. envelope \in [From: Addr \cup {NoAddr}, To: Seq(Addr), Data: Seq(S!Line)]
  BY Zenon DEF SessionInv
<1>5. /\ sevent'.To = envelope.To /\ envelope'.To = envelope.To /\ tx' = tx
      /\ reply'.code # "accepted"
  BY <1>3, <1>4, Zenon DEF S!DataEnd, S!write
<1>6. ASSUME NEW c \in Delivery, M!Deliver(c)
      PROVE  dpc'[c] = "next" /\ \A d \in Delivery : d # c => devent'[d] = devent[d]
  BY <1>6, Zenon DEF M!Deliver, M!goto, OrderInv
<1> QED  BY <1>1, <1>2, <1>5, <1>6, Zenon

\* What it does when Deliver has returned.
LEMMA AnswerEffect ==
  ASSUME Answered
  PROVE  /\ spc = "deliver" /\ dpc[cur] = "returned" /\ spc' = "loop"
         /\ UNCHANGED <<store, process, cur, meant, acked, envelope, tx>>
  BY DEF Answered, S!DeliverOK, history

----------------------------------------------------------------------------
\* The calls of the session hold acknowledged recipients only.
LEMMA MeaningKept ==
  ASSUME SessionInv, LinkInv, [MailNext]_mail, CallsGoOn
  PROVE  MeaningInv'
<1>1. /\ envelope.To \in Seq(Addr) /\ tx.to \in Seq(Addr)
  BY Zenon DEF SessionInv
<1>2. /\ acked \subseteq Names /\ meant \subseteq Names /\ AllAcked(envelope.To)
      /\ \A d \in Mine : AllAcked(devent[d])
      /\ HoldsAll(tx.to, meant)
  BY Zenon DEF LinkInv, MeaningInv
<1>3. ASSUME UNCHANGED devent, acked \subseteq acked'
      PROVE  \A d \in Mine : AllAcked(devent[d])'
  BY <1>2, <1>3, AckedStays, Zenon DEF AllAcked
<1>4. CASE SessionReads
  <2>1. /\ envelope'.To = envelope.To \/ envelope'.To = <<>>
        /\ meant' = {} \/ (meant' = meant /\ tx' = tx)
        /\ acked' = acked /\ devent' = devent
    BY <1>4, ReadsEffect, ZenonT(60) DEF LinkInv, store
  <2>2. AllAcked(envelope.To)'
    BY <1>2, <2>1 DEF AllAcked
  <2>3. HoldsAll(tx.to, meant)'
    BY <1>2, <2>1, Zenon DEF HoldsAll
  <2> QED  BY <1>2, <1>3, <2>1, <2>2, <2>3, Zenon DEF MeaningInv
<1>5. CASE ReadsRecipient
  <2>1. PICK who \in Names :
          \/ /\ envelope'.To = Append(envelope.To, AddressOf(who))
             /\ tx'.to = Append(tx.to, AddressOf(who))
             /\ meant' = meant \cup {who} /\ acked' = acked \cup {who}
          \/ envelope' = envelope /\ tx' = tx /\ meant' = meant /\ acked' = acked
    BY <1>5, RcptEffect, Zenon DEF LinkInv
  <2>2. AddressOf(who) \in Addr /\ devent' = devent
    BY <1>5, NamesAssumption, RcptEffect, Zenon DEF AddressOf, LinkInv, store
  <2>3. CASE /\ envelope'.To = Append(envelope.To, AddressOf(who))
             /\ tx'.to = Append(tx.to, AddressOf(who))
             /\ meant' = meant \cup {who} /\ acked' = acked \cup {who}
    <3>1. /\ \A i \in 1..Len(Append(envelope.To, AddressOf(who))) :
               \E w \in acked' : Append(envelope.To, AddressOf(who))[i] = AddressOf(w)
          /\ HoldsAll(Append(tx.to, AddressOf(who)), meant \cup {who})
      BY <1>1, <1>2, <2>2, <2>3, AppendedName, ZenonT(60)
    <3>2. AllAcked(envelope.To)'
      BY <2>3, <3>1, Zenon DEF AllAcked
    <3>3. HoldsAll(tx.to, meant)'
      BY <2>3, <3>1, Zenon DEF HoldsAll
    <3> QED  BY <1>2, <1>3, <2>2, <2>3, <3>2, <3>3, Zenon DEF MeaningInv
  <2>4. CASE envelope' = envelope /\ tx' = tx /\ meant' = meant /\ acked' = acked
    BY <1>2, <2>2, <2>4 DEF MeaningInv, AllAcked, HoldsAll
  <2> QED  BY <2>1, <2>3, <2>4, Zenon
<1>6. CASE CallDeliver
  <2>1. /\ cur' \in Mine /\ devent'[cur'] = envelope.To
        /\ \A d \in Delivery : d # cur' => devent'[d] = devent[d]
        /\ envelope'.To = envelope.To /\ tx' = tx /\ meant' = meant /\ acked' = acked
    BY <1>6, CallEffect, Zenon DEF LinkInv
  <2>2. ASSUME NEW d \in Mine PROVE AllAcked(devent[d])'
    <3>1. d \in Delivery
      BY StoreAssumption, Zenon
    <3>2. devent'[d] = envelope.To \/ devent'[d] = devent[d]
      BY <2>1, <3>1, Zenon
    <3>3. AllAcked(devent[d]) /\ AllAcked(envelope.To)
      BY <1>2, Zenon
    <3>4. CASE devent'[d] = envelope.To
      BY <2>1, <3>3, <3>4, Zenon DEF AllAcked
    <3>5. CASE devent'[d] = devent[d]
      BY <2>1, <3>3, <3>5, ZenonT(60) DEF AllAcked
    <3> QED  BY <3>2, <3>4, <3>5
  <2> QED  BY <1>2, <2>1, <2>2, ZenonT(60) DEF MeaningInv, AllAcked, HoldsAll
<1>7. CASE UNCHANGED <<envelope, tx, meant, acked>> /\ \A d \in Mine : devent'[d] = devent[d]
  BY <1>2, <1>7 DEF MeaningInv, AllAcked, HoldsAll
<1>8. CASE Answered \/ SessionEnds \/ ProcessStep \/ UNCHANGED mail
  <2>1. UNCHANGED <<envelope, tx, meant, acked, devent>>
    BY <1>8, AnswerEffect, Zenon
    DEF SessionEnds, ProcessStep, mail, session, store, history
  <2> QED  BY <1>7, <2>1
<1>9. CASE OtherCalls
  <2>1. UNCHANGED <<envelope, tx, meant, acked>>
    BY <1>9 DEF OtherCalls, session, history
  <2>2. \A d \in Mine : devent'[d] = devent[d]
    BY <1>9, StoreAssumption, Zenon DEF OtherCalls, M!Deliver, LinkInv, OrderInv
  <2> QED  BY <1>7, <2>1, <2>2, ZenonT(60)
<1>10. CASE ProcessExits
  <2>1. UNCHANGED <<envelope, tx, meant, acked, devent>>
    BY <1>10, ZenonT(60) DEF ProcessExits, session, history, store, M!Crash, M!locals
  <2> QED  BY <1>7, <2>1
<1>11. CASE \E d \in Delivery : Statement(d)
  <2>1. PICK d \in Delivery : Statement(d)
    BY <1>11, Zenon
  <2>2. (M!Step(d) \/ M!Fault(d)) /\ UNCHANGED <<envelope, tx, meant, acked>>
    BY <2>1, StatementEffect, Zenon DEF session
  <2>3. devent' = devent
    BY <2>2, ZenonT(60) DEF M!Step, M!Fault, M!ResolveInbox, M!BeginTx, M!SelectForUpdate,
         M!UpdateUIDNext, M!CommitTx, M!InsertMessage, M!SetMessageBody, M!Return,
         M!ResolveFails, M!BeginTxFails, M!TxFails, M!CommitUnknown, M!InsertFails,
         M!InsertUnknown, M!SetMessageBodyFails,
         M!locals
  <2> QED  BY <1>7, <2>2, <2>3
<1> QED  BY <1>4, <1>5, <1>6, <1>8, <1>9, <1>10, <1>11, Zenon DEF MailNext

\* No recipient is left behind while MySQL is open.
LEMMA ServedKept ==
  ASSUME SessionInv, LinkInv, [MailNext]_mail
  PROVE  ServedInv'
<1>1. CASE ~MySQLOpen'
  BY <1>1 DEF ServedInv
<1>2. CASE MySQLOpen'
  <2>1. MySQLOpen /\ OrderInv /\ RowInv /\ ServedInv
    BY <1>2, MySQLStaysClosed DEF LinkInv
  <2>2. CASE \E d \in Delivery : Statement(d)
    BY <2>1, <2>2, StatementServes
  <2>3. CASE CallDeliver \/ OtherCalls
    <3>1. (\E d \in Delivery : M!Deliver(d)) /\ failed' = failed
      <4>1. CASE CallDeliver
        <5>1. cur' \in Delivery /\ M!Deliver(cur') /\ failed' = failed
          BY <4>1, CallEffect, ZenonT(60) DEF LinkInv
        <5> QED  BY <5>1, Zenon
      <4>2. CASE OtherCalls
        BY <4>2 DEF OtherCalls, history
      <4> QED  BY <2>3, <4>1, <4>2
    <3> QED  BY <2>1, <3>1, DeliverServes, ZenonT(60)
  <2>4. ~ProcessExits
    BY <1>2, ZenonT(60) DEF ProcessExits, L!Exit, MySQLOpen
  <2>5. CASE UNCHANGED store /\ UNCHANGED failed
    <3>1. UNCHANGED <<dpc, devent, nth, uidNext, rows, failed>>
      BY <2>5, ZenonT(60) DEF store
    <3>2. \A d \in Delivery : \A i \in 1..Len(devent[d]) :
            Done(d, i) /\ InboxOf[devent[d][i]] # NoMailbox => Served(d, InboxOf[devent[d][i]])
      BY <2>1 DEF ServedInv
    <3>3. (\A d \in Delivery : \A i \in 1..Len(devent[d]) :
             Done(d, i) /\ InboxOf[devent[d][i]] # NoMailbox => Served(d, InboxOf[devent[d][i]]))'
      BY <3>1, <3>2, Zenon DEF Done, Served, Kept
    <3> QED  BY <3>3 DEF ServedInv
  <2>6. CASE SessionReads \/ ReadsRecipient \/ Answered \/ SessionEnds \/ ProcessStep
               \/ UNCHANGED mail
    BY <2>5, <2>6, Zenon
    DEF SessionReads, ReadsRecipient, Answered, SessionEnds, ProcessStep, mail, history
  <2> QED  BY <2>2, <2>3, <2>4, <2>6, Zenon DEF MailNext
<1> QED  BY <1>1, <1>2

\* The event has every recipient that the client means.
LEMMA EventHoldsAll ==
  ASSUME SessionInv, LinkInv, spc = "deliver"
  PROVE  HoldsAll(sevent.To, meant)
<1>1. sevent.To \in Seq(Addr) /\ tx.to \in Seq(Addr)
  BY DEF SessionInv
<1> DEFINE n == Len(sevent.To)
           k == Len(tx.to)
<1>2. n \in Nat /\ k \in Nat /\ k <= n /\ \A i \in 1..k : tx.to[i] = sevent.To[n - k + i]
  <2>1. n \in Nat /\ k \in Nat
    BY <1>1
  <2>2. k <= n /\ \A i \in 1..k : tx.to[i] = sevent.To[n - k + i]
    BY Zenon DEF SessionInv
  <2> QED  BY <2>1, <2>2, Zenon
<1> SUFFICES ASSUME NEW who \in meant PROVE \E i \in 1..n : sevent.To[i] = AddressOf(who)
  BY DEF HoldsAll
<1>3. PICK i \in 1..k : tx.to[i] = AddressOf(who)
  BY DEF LinkInv, MeaningInv, HoldsAll
<1> HIDE DEF n, k
<1>4. n - k + i \in 1..n
  BY <1>2
<1> QED  BY <1>2, <1>3, <1>4, ZenonT(60)

\* The session and the call it waits for stay together.
LEMMA CallKept ==
  ASSUME SessionInv, LinkInv, [MailNext]_mail, CallsGoOn
  PROVE  CallInv'
<1>1. /\ spc = "deliver" => cur \in Mine /\ dpc[cur] # "idle" /\ devent[cur] = sevent.To
      /\ reply.code = "accepted" =>
           cur \in Mine /\ dpc[cur] = "returned" /\ HoldsAll(devent[cur], meant)
      /\ Mine \subseteq Delivery
  BY StoreAssumption, Zenon DEF LinkInv, CallInv
<1>2. CASE SessionReads
  <2>1. reply'.code # "accepted" /\ spc' # "deliver"
    BY <1>2, ReadsEffect, ZenonT(60) DEF LinkInv
  <2> QED  BY <2>1, Zenon DEF CallInv
<1>3. CASE ReadsRecipient
  <2>1. reply'.code # "accepted" /\ spc' # "deliver"
    BY <1>3, RcptEffect, Zenon DEF LinkInv
  <2> QED  BY <2>1 DEF CallInv
<1>4. CASE CallDeliver
  <2>1. /\ cur' \in Mine /\ dpc'[cur'] = "next" /\ devent'[cur'] = envelope.To
        /\ sevent'.To = envelope.To /\ reply'.code # "accepted"
    BY <1>4, CallEffect, Zenon DEF LinkInv
  <2> QED  BY <2>1, Zenon DEF CallInv
<1>5. CASE Answered
  <2>1. /\ spc = "deliver" /\ dpc[cur] = "returned" /\ spc' = "loop"
        /\ dpc' = dpc /\ devent' = devent /\ cur' = cur /\ meant' = meant
    BY <1>5, AnswerEffect DEF store
  <2>2. HoldsAll(devent[cur], meant)
    BY <1>1, <2>1, EventHoldsAll, Zenon
  <2> QED  BY <1>1, <2>1, <2>2, ZenonT(60) DEF CallInv, HoldsAll
<1>6. CASE UNCHANGED <<spc, sevent, reply, cur, meant>>
  <2>1. spc = "deliver" => dpc'[cur] # "idle" /\ devent'[cur] = sevent.To
    BY <1>1, Zenon DEF CallsGoOn
  <2>2. reply.code = "accepted" => dpc'[cur] = "returned" /\ devent'[cur] = devent[cur]
    BY <1>1, Zenon DEF CallsGoOn
  <2> QED  BY <1>1, <1>6, <2>1, <2>2, Zenon DEF CallInv, HoldsAll
<1>7. CASE SessionEnds \/ OtherCalls \/ (\E d \in Delivery : Statement(d))
             \/ ProcessStep \/ ProcessExits \/ UNCHANGED mail
  <2>1. UNCHANGED <<spc, sevent, reply, cur, meant>>
    BY <1>7, StatementEffect, Zenon DEF SessionEnds, OtherCalls, ProcessStep, ProcessExits, mail,
                session, history
  <2> QED  BY <1>6, <2>1
<1> QED  BY <1>2, <1>3, <1>4, <1>5, <1>7, Zenon DEF MailNext

\* The parts are linked when the connection has been accepted.
LEMMA LinkInitInv == MailInit => LinkInv
<1> SUFFICES ASSUME MailInit PROVE LinkInv
  OBVIOUS
<1>1. OrderInv /\ RowInv
  <2>1. <<>> \in Seq(Addr) /\ 1 \in Nat \ {0}
    OBVIOUS
  <2>2. OrderInv
    BY <2>1, Zenon DEF MailInit, M!Init, OrderInv, Serves, M!Running, M!InTx
  <2>3. RowInv
    BY <2>1, ZenonT(60) DEF MailInit, M!Init, RowInv
  <2> QED  BY <2>2, <2>3
<1>2. ServedInv /\ LoopInv
  BY DEF MailInit, M!Init, ServedInv, LoopInv, L!LifeInit, L!Listener
<1>3. /\ envelope.To = <<>> /\ tx.to = <<>> /\ acked = {} /\ meant = {}
      /\ \A d \in Delivery : devent[d] = <<>>
      /\ reply.code = "220" /\ spc = "loop"
  <2>1. reply = [cmd |-> "", code |-> "220"]
    BY Zenon DEF MailInit, S!Init
  <2>2. reply.code = "220"
    BY <2>1, ZenonT(60)
  <2> QED  BY <2>2, Zenon DEF MailInit, S!Init, S!Reset, M!Init
<1>4. MeaningInv /\ CallInv
  BY <1>3, StoreAssumption DEF MeaningInv, CallInv, AllAcked, HoldsAll
<1> QED  BY <1>1, <1>2, <1>4, Zenon DEF LinkInv

\* Every step keeps the parts linked.
LEMMA LinkNextInv ==
  ASSUME SessionInv, LinkInv, [MailNext]_mail
  PROVE  LinkInv'
<1>1. OrderInv' /\ RowInv' /\ CallsGoOn
  BY StoreKept, Zenon DEF LinkInv
<1>2. MeaningInv' /\ CallInv'
  BY <1>1, MeaningKept, CallKept, Zenon
<1>3. ServedInv' /\ LoopInv'
  BY ServedKept, MySQLStaysClosed, ZenonT(60) DEF LinkInv
<1> QED  BY <1>1, <1>2, <1>3, Zenon DEF LinkInv

\* When the session answers "accepted", the call it made has passed every recipient that
\* the client means.
LEMMA AcceptedLink == LinkInv => AcceptedIsStored
<1> SUFFICES ASSUME LinkInv, reply.code = "accepted", MySQLOpen, NEW m \in Inboxes(meant)
             PROVE  Stored(m) \/ uidNext[m] >= MaxUID \/ <<cur, m>> \in failed
  BY DEF AcceptedIsStored
<1>1. PICK who \in meant : who \in DOMAIN Users /\ m = Users[who]
  BY Zenon DEF Inboxes
<1>2. /\ cur \in Delivery /\ dpc[cur] = "returned" /\ HoldsAll(devent[cur], meant)
      /\ who \in Names
  BY StoreAssumption, Zenon DEF LinkInv, CallInv, MeaningInv
<1>3. PICK i \in 1..Len(devent[cur]) : devent[cur][i] = AddressOf(who)
  BY <1>2, Zenon DEF HoldsAll
<1>4. InboxOf[devent[cur][i]] = m /\ m # NoMailbox
  BY <1>1, <1>2, <1>3, InboxOfName, UsersAssumption, StoreAssumption, Zenon
<1>5. Done(cur, i)
  <2>1. nth[cur] > Len(devent[cur]) /\ nth[cur] \in Nat \ {0} /\ devent[cur] \in Seq(Addr)
    BY <1>2, Zenon DEF LinkInv, OrderInv
  <2>2. i < nth[cur]
    BY <2>1
  <2> QED  BY <2>2, Zenon DEF Done
<1>6. Served(cur, m)
  BY <1>2, <1>4, <1>5, Zenon DEF LinkInv, ServedInv
<1> QED  BY <1>6 DEF Served, Kept, Stored

\* A row of the session was stored for an entry of event.To, which is acknowledged.
LEMMA StoredLink == LinkInv => StoredWasAcknowledged
<1> SUFFICES ASSUME LinkInv, NEW r \in rows, r.body \in Mine
             PROVE  /\ r.mailbox \in Inboxes(acked)
                    /\ r.mailbox = InboxOf[devent[r.body][r.nth]]
  BY Zenon DEF StoredWasAcknowledged
<1>1. /\ r.mailbox \in Mailbox /\ r.nth \in 1..Len(devent[r.body])
      /\ r.mailbox = InboxOf[devent[r.body][r.nth]]
  BY Zenon DEF LinkInv, RowInv, Filed
<1>2. acked \subseteq Names /\ AllAcked(devent[r.body])
  BY Zenon DEF LinkInv, MeaningInv
<1>3. PICK who \in acked : devent[r.body][r.nth] = AddressOf(who)
  BY <1>1, <1>2, Zenon DEF AllAcked
<1>4. who \in DOMAIN Users /\ r.mailbox = Users[who]
  BY <1>1, <1>2, <1>3, InboxOfName, StoreAssumption, Zenon
<1> QED  BY <1>1, <1>4, Zenon DEF Inboxes

----------------------------------------------------------------------------
\* The session on its own, as SmtpSessionProofs knows it, when it may be sent any line.
SP == INSTANCE SmtpSessionProofs WITH pc <- spc, event <- sevent, Input <- S!Line

\* What SmtpSession assumes of its constants.
LEMMA SessionConstants == SP!AddrAssumption /\ SP!LimitAssumption /\ SP!InputAssumption
  BY SessionAssumption, Zenon
  DEF SP!AddrAssumption, SP!LimitAssumption, SP!InputAssumption, SP!Line, SP!Verb, S!Line, S!Verb

\* The steps of the session are those that SmtpSessionProofs is about.
LEMMA SameSteps ==
  /\ \A l : S!Handle(l) => SP!Handle(l)
  /\ \A l : S!DataLine(l) => SP!DataLine(l)
  /\ \A l : S!DataTooBig(l) => SP!DataTooBig(l)
  /\ \A l : S!DataEnd(l) => SP!DataEnd(l)
  /\ S!DataReadError => SP!DataReadError
  /\ S!ReadError => SP!ReadError
  /\ S!DeliverOK => SP!DeliverOK
  /\ S!Line = SP!Line
<1>1. \A l : S!Handle(l) => SP!Handle(l)
  BY ZenonT(60) DEF S!Handle, SP!Handle, S!Command, SP!Command, S!handleEHLO, SP!handleEHLO,
         S!handleMAIL, SP!handleMAIL, S!handleRCPT, SP!handleRCPT, S!handleRSET,
         SP!handleRSET, S!handleQUIT, SP!handleQUIT, S!handleSTARTTLS, SP!handleSTARTTLS,
         S!handleDATA, SP!handleDATA,
         S!Refuse, SP!Refuse, S!BadSequence, SP!BadSequence, S!transitionRcptTo,
         SP!transitionRcptTo, S!TooManyRecipients, SP!TooManyRecipients, S!AddRecipient,
         SP!AddRecipient, S!newSMTPFSM, SP!newSMTPFSM, S!FsmAccepts, SP!FsmAccepts, S!Reset,
         SP!Reset, S!write, SP!write, S!transition, SP!transition
<1>2. /\ \A l : S!DataLine(l) => SP!DataLine(l)
      /\ \A l : S!DataTooBig(l) => SP!DataTooBig(l)
      /\ \A l : S!DataEnd(l) => SP!DataEnd(l)
      /\ S!DataReadError => SP!DataReadError
      /\ S!ReadError => SP!ReadError
      /\ S!DeliverOK => SP!DeliverOK
      /\ S!Line = SP!Line
  BY Zenon DEF S!DataLine, SP!DataLine, S!DataTooBig, SP!DataTooBig, S!DataEnd, SP!DataEnd,
         S!DataReadError, SP!DataReadError, S!ReadError, SP!ReadError, S!DeliverOK,
         SP!DeliverOK, S!EndOfData, SP!EndOfData, S!Unstuff, SP!Unstuff, S!NoEvent, SP!NoEvent,
         S!Line, SP!Line, S!Verb, SP!Verb, S!newSMTPFSM, SP!newSMTPFSM, S!FsmAccepts,
         SP!FsmAccepts, S!Reset, SP!Reset, S!write, SP!write, S!transition, SP!transition
<1> QED  BY <1>1, <1>2, Zenon

\* A step of the composition is a step of the session, with a line that it may be sent, or
\* leaves the session alone.
LEMMA SessionStep == [MailNext]_mail => [SP!Next]_(SP!vars)
<1> SUFFICES ASSUME [MailNext]_mail PROVE SP!Next \/ UNCHANGED SP!vars
  BY Zenon
<1>1. Input \subseteq S!Line /\ Text \subseteq S!Line
  BY SessionAssumption, Zenon
<1>2. CASE SessionReads
  <2>1. CASE \E l \in Input : S!Handle(l)
    BY <1>1, <2>1, SameSteps, ZenonT(60) DEF SP!Next
  <2>2. CASE \E l \in Text : S!DataLine(l) \/ S!DataTooBig(l)
    BY <1>1, <2>2, SameSteps, ZenonT(60) DEF SP!Next, SP!DataStep
  <2>3. CASE S!DataReadError \/ S!ReadError
    BY <2>3, SameSteps, ZenonT(60) DEF SP!Next
  <2> QED  BY <1>2, <2>1, <2>2, <2>3, ZenonT(60) DEF SessionReads
<1>3. CASE ReadsRecipient
  <2>1. PICK who \in Names : \E to \in Forms(who[1], who[2], 1) :
          S!Handle([dots |-> 0, verb |-> "RCPT", arg |-> extractAddress(to)])
    BY <1>3 DEF ReadsRecipient
  <2>2. S!Handle(RcptLine(who)) /\ RcptLine(who) \in S!Line
    BY <2>1, RecipientLine, ZenonT(60)
  <2> QED  BY <2>2, SameSteps, ZenonT(60) DEF SP!Next
<1>4. CASE CallDeliver
  <2>1. \E l \in Input : S!DataEnd(l)
    BY <1>4, ZenonT(60) DEF CallDeliver
  <2> QED  BY <1>1, <2>1, SameSteps, ZenonT(60) DEF SP!Next, SP!DataStep
<1>5. CASE Answered
  BY <1>5, SameSteps, ZenonT(60) DEF Answered, SP!Next
<1>6. CASE SessionEnds \/ OtherCalls \/ (\E d \in Delivery : Statement(d))
             \/ ProcessStep \/ ProcessExits \/ UNCHANGED mail
  <2>1. UNCHANGED session
    BY <1>6, StatementEffect, Zenon DEF SessionEnds, OtherCalls, ProcessStep, ProcessExits, mail
  <2> QED  BY <2>1 DEF session, SP!vars
<1> QED  BY <1>2, <1>3, <1>4, <1>5, <1>6, Zenon DEF MailNext

\* The session begins as it does on its own.
LEMMA SessionInit == MailInit => SP!Init
  BY Zenon DEF MailInit, S!Init, SP!Init, S!Reset, SP!Reset, S!NoEvent, SP!NoEvent

\* The composition does nothing to the session that SmtpSession does not allow, whatever
\* lines it may be sent: what SmtpSessionProofs proves holds of it.
THEOREM MailRunsSession == MailSpec => SP!Spec
<1> QED  BY SessionInit, SessionStep, PTL DEF MailSpec, SP!Spec

\* The session's own invariant says what is needed here.
LEMMA SessionFacts == SP!IInv => SessionInv
<1> SUFFICES ASSUME SP!IInv PROVE SessionInv
  OBVIOUS
<1>1. /\ envelope \in [From: Addr \cup {NoAddr}, To: Seq(Addr), Data: Seq(S!Line)]
      /\ tx \in [from: Addr \cup {NoAddr}, to: Seq(Addr)]
  BY SameSteps, ZenonT(60) DEF SP!IInv, SP!TypeOK, SP!Envelope
<1>2. sevent.To \in Seq(Addr)
  BY ZenonT(60) DEF SP!IInv, SP!TypeOK
<1>3. spc = "deliver" => SP!EndsWith(sevent.To, tx.to)
  BY DEF SP!IInv, SP!PlaceInv, SP!EnvelopeInv, SP!EventInv
<1> QED  BY <1>1, <1>2, <1>3, ZenonT(60) DEF SessionInv, SP!EndsWith

\* The inductive invariant.
MailInv == SP!IInv /\ LinkInv

\* The initial state satisfies the invariant.
LEMMA MailInitInv == MailInit => MailInv
  BY LinkInitInv, SessionInit, SessionConstants, SP!InitInv, Zenon DEF MailInv

\* Every step preserves the invariant.
LEMMA MailNextInv == MailInv /\ [MailNext]_mail => MailInv'
<1>1. SP!IInv /\ [MailNext]_mail => SP!IInv'
  BY SessionStep, SessionConstants, SP!NextInv, Zenon
<1> QED  BY <1>1, SessionFacts, LinkNextInv, ZenonT(60) DEF MailInv

\* The invariant holds in every reachable state.
THEOREM MailInvariance == MailSpec => []MailInv
<1> QED  BY MailInitInv, MailNextInv, PTL DEF MailSpec

\* While MySQL is open, "250 message accepted" means that every recipient acknowledged
\* since MAIL FROM who has a mailbox has the message: through extractAddress, the
\* envelope, the event, parseAddress and the statements of Deliver, against any number
\* of other deliveries, and whatever failed for them and for other recipients.  Left out
\* are only the mailboxes for which a statement of this very call failed, which Deliver
\* logs and does not report, and those without UIDs.
THEOREM AcceptedMailIsStored == MailSpec => []AcceptedIsStored
<1>1. MailInv => AcceptedIsStored
  BY AcceptedLink, Zenon DEF MailInv
<1> QED  BY <1>1, MailInvariance, PTL

\* A message of the session lies only in mailboxes of recipients that the session
\* acknowledged, each in that of the entry of event.To it was stored for.
THEOREM StoredMailWasAcknowledged == MailSpec => []StoredWasAcknowledged
<1>1. MailInv => StoredWasAcknowledged
  BY StoredLink, Zenon DEF MailInv
<1> QED  BY <1>1, MailInvariance, PTL

\* The session's own promises hold in the whole system: what handleDATA gives Deliver has a
\* sender and every recipient acknowledged since MAIL, in order, and the session then takes
\* the next message.
THEOREM MailKeepsSession ==
  MailSpec => [](SP!DeliverableEvent /\ SP!AcknowledgedAreDelivered /\ SP!ReadyForNext)
<1> QED  BY MailRunsSession, SessionConstants, SP!EventsAreDeliverable, SP!NoRecipientIsLost,
            SP!SessionIsReady, PTL

\* The session has answered "250 message accepted" for call d of Deliver, and the client
\* means a recipient whose mailbox is m.
Accepted(d, m) == reply.code = "accepted" /\ MySQLOpen /\ cur = d /\ m \in Inboxes(meant)

\* What "250 message accepted" promises is for good: if no statement of the call failed
\* for the mailbox while MySQL was open, the message stays in it, or it is out of UIDs for
\* good, through the session's next messages, the deliveries of others and their failures,
\* the signal, the closing of the stores and the exit of the process.
THEOREM AcceptedMailStays ==
  ASSUME NEW d \in Mine, NEW m \in Mailbox
  PROVE  MailSpec => [](Accepted(d, m) /\ <<d, m>> \notin failed => []Kept(d, m))
<1>1. MailInv /\ Accepted(d, m) /\ <<d, m>> \notin failed => Kept(d, m)
  BY AcceptedLink, Zenon DEF MailInv, Accepted, AcceptedIsStored, Stored, Kept
<1>2. MailInv /\ Kept(d, m) /\ [MailNext]_mail => Kept(d, m)'
  BY TablesGrow, KeptStays, Zenon DEF MailInv, LinkInv
<1> QED  BY <1>1, <1>2, MailInvariance, PTL DEF MailSpec

----------------------------------------------------------------------------
\* The process on its own, as LifecycleProofs knows it.
LP == INSTANCE LifecycleProofs

\* The steps of the process are those that LifecycleProofs is about.
LEMMA SameProcess == (L!LifeInit => LP!LifeInit) /\ (L!LifeNext => LP!LifeNext)
<1>1. L!LifeInit => LP!LifeInit
  BY Zenon DEF L!LifeInit, LP!LifeInit, L!Listener, LP!Listener
<1>2. L!LifeNext => LP!LifeNext
  BY ZenonT(60)
  DEF L!LifeNext, LP!LifeNext, L!Listener, LP!Listener, L!Starting, LP!Starting, L!Returned,
      LP!Returned, L!Alive, LP!Alive, L!OpenStores, LP!OpenStores, L!LoadTLS, LP!LoadTLS,
      L!Signal, LP!Signal, L!ListenPlain, LP!ListenPlain, L!ListenTLS, LP!ListenTLS,
      L!StartFails, LP!StartFails, L!Accept, LP!Accept, L!AcceptFails, LP!AcceptFails,
      L!ShuttingDown, LP!ShuttingDown, L!AfterAcceptError, LP!AfterAcceptError, L!ServeFails,
      LP!ServeFails, L!CloseListeners, LP!CloseListeners, L!Shutdown, LP!Shutdown,
      L!ShutdownReturns, LP!ShutdownReturns, L!NeverListened, LP!NeverListened,
      L!CloseStores, LP!CloseStores, L!Exit, LP!Exit, L!Finish, LP!Finish, L!Boot, LP!Boot,
      L!Stop, LP!Stop
<1> QED  BY <1>1, <1>2, Zenon

\* Before the signal main has closed nothing under the session, since the accept loop does
\* not return by itself (Lifecycle): "250 message accepted" means that every recipient
\* acknowledged since MAIL FROM who has a mailbox with UIDs left has the message, unless
\* a statement of this call failed by itself for that mailbox.
THEOREM AcceptedUntilSignal ==
  MailSpec => [](reply.code = "accepted" /\ ctx # "done" =>
                   \A m \in Inboxes(meant) :
                     Stored(m) \/ uidNext[m] >= MaxUID \/ <<cur, m>> \in failed)
<1>1. MailInit => LP!LifeInv
  BY SameProcess, LP!LifeInitInv, Zenon DEF MailInit
<1>2. LP!LifeInv /\ [MailNext]_mail => LP!LifeInv'
  <2>1. [L!LifeNext]_process => [LP!LifeNext]_(LP!life)
    BY SameProcess, Zenon DEF process, LP!life
  <2> QED  BY <2>1, LifeStep, LP!LifeNextInv, Zenon
<1>3. LP!LifeInv /\ ctx # "done" => MySQLOpen
  BY Zenon DEF LP!LifeInv, LP!LifeTypeOK, LP!ServesUntilSignal, LP!Returned, MySQLOpen
<1>4. LP!LifeInv /\ AcceptedIsStored /\ reply.code = "accepted" /\ ctx # "done"
      => \A m \in Inboxes(meant) : Stored(m) \/ uidNext[m] >= MaxUID \/ <<cur, m>> \in failed
  BY <1>3, Zenon DEF AcceptedIsStored
<1> QED  BY <1>1, <1>2, <1>4, AcceptedMailIsStored, PTL DEF MailSpec

----------------------------------------------------------------------------
\* The store on its own, as MessageStoreProofs knows it.
MP == INSTANCE MessageStoreProofs WITH pc <- dpc, event <- devent

\* What MessageStore assumes of its constants, of the lookups and of the lists of
\* recipients that the session can put together.
LEMMA StoreConstants ==
  /\ MP!NoMailboxAssumption /\ MP!NoDeliveryAssumption /\ MP!InboxAssumption
  /\ MP!RecipientsAssumption /\ MP!BoundAssumption
  BY StoreAssumption, InboxFacts, RecipientLists, ZenonT(60)
  DEF MP!NoMailboxAssumption, MP!NoDeliveryAssumption, MP!InboxAssumption,
      MP!RecipientsAssumption, MP!BoundAssumption

\* The steps of the store are those that MessageStoreProofs is about.
LEMMA SameStore == (M!Init => MP!Init) /\ (M!Next => MP!Next)
<1>1. M!Init => MP!Init
  BY Zenon DEF M!Init, MP!Init
<1>2. M!ConnFree => MP!ConnFree
  BY Zenon DEF M!ConnFree, MP!ConnFree, M!Cardinality, MP!Cardinality
<1>3. M!Next => MP!Next
  BY <1>2, ZenonT(180)
  DEF M!Next, MP!Next, M!Deliver, MP!Deliver, M!Step, MP!Step, M!ResolveInbox,
      MP!ResolveInbox, M!BeginTx, MP!BeginTx, M!SelectForUpdate, MP!SelectForUpdate,
      M!UpdateUIDNext, MP!UpdateUIDNext, M!CommitTx, MP!CommitTx, M!InsertMessage,
      MP!InsertMessage, M!Row, MP!Row, M!SetMessageBody, MP!SetMessageBody,
      M!messageBodyKey, MP!messageBodyKey, M!Return, MP!Return, M!Fault, MP!Fault,
      M!ResolveFails, MP!ResolveFails, M!BeginTxFails, MP!BeginTxFails, M!TxFails,
      MP!TxFails, M!CommitUnknown, MP!CommitUnknown, M!InsertFails, MP!InsertFails,
      M!InsertUnknown, MP!InsertUnknown, M!SetMessageBodyFails, MP!SetMessageBodyFails,
      M!Expire, MP!Expire, M!Crash, MP!Crash, M!Running, MP!Running, M!InTx, MP!InTx,
      M!EndTx, MP!EndTx, M!NextRecipient, MP!NextRecipient, M!goto, MP!goto,
      M!mysql, MP!mysql, M!locals, MP!locals
<1> QED  BY <1>1, <1>3, Zenon

\* MessageStore, as its proofs know it, allows what the composition does to the store.
THEOREM MailRunsStore == MailSpec => MP!Spec
<1>1. MailInit => MP!Init
  BY SameStore, Zenon DEF MailInit
<1>2. [MailNext]_mail => [MP!Next]_(MP!vars)
  BY StoreStep, SameStore, Zenon DEF store, MP!vars
<1> QED  BY <1>1, <1>2, PTL DEF MailSpec, MP!Spec

\* The whole system implements the UID ledger that the IMAP and JMAP servers read.
THEOREM MailImplementsLedger == MailSpec => MP!ImplementsLedger
<1> QED  BY MailRunsStore, StoreConstants, MP!StoreImplementsLedger, PTL

\* In the whole system the tables are as MessageStore promises: UIDs are unique and below
\* UIDNEXT, an entry of event.To has one row at most, a cached body is that of its row, and
\* connections and row locks are held inside AllocateUID only, also while main closes the
\* stores.
THEOREM MailKeepsStore ==
  MailSpec => [](/\ MP!UIDUnique /\ MP!UIDBelowNext /\ MP!AtMostOncePerRecipient
                 /\ MP!CacheMatchesRow /\ MP!TxReleased)
<1> QED  BY MailRunsStore, StoreConstants, MP!UIDsAreUnique, MP!UIDsBelowNext, MP!AtMostOnce,
            MP!CacheIsFaithful, MP!TransactionsEnd, PTL
=============================================================================
