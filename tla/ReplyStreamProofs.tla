-------------------------- MODULE ReplyStreamProofs --------------------------
(***************************************************************************)
(* Theorems about ReplyStream, for answers and texts of any length.        *)
(*                                                                         *)
(* An answer is laid out in sections, each up to and with the separator    *)
(* that ends it: section 0 is what comes before the entries, section k is  *)
(* the k-th entry.  The client and the child are each at a place of this   *)
(* layout, and the wire holds what lies between them.                      *)
(***************************************************************************)
EXTENDS ReplyStream, SequenceTheorems, WellFoundedInduction, TLAPS

Words == {"RRT", "RUL", "OK", "EOF", "NOK", "name", "mid", "uid", "size", "/", "fname"}
Token == [what: Words \cup {"SP", "NL", "text", "data"}, v: Nat]

IsWord(token) == token \in Token /\ ~IsSeparator(token)

(* The number of entries. *)
Entries(a) == IF HasEntries(a) THEN Len(a.list) ELSE 0

(* The length of an entry without its file, and with it. *)
Size(a, k) ==
  IF k = 0 THEN (IF HasEntries(a) THEN 6 ELSE Len(First(a)))
  ELSE IF HasFile(a.list[k]) THEN 14 + a.list[k].text + a.list[k].file
  ELSE 7 + a.list[k].text

(* The token at the j-th place of section k. *)
At(a, k, j) ==
  IF k = 0 THEN (IF j <= Len(First(a)) THEN First(a)[j] ELSE SP)
  ELSE IF j = Size(a, k) THEN (IF k = Entries(a) THEN NL ELSE SP)
  ELSE IF j <= 6 THEN EntryHead(k, a.list[k])[j + 1]
  ELSE IF j <= 6 + a.list[k].text THEN Tok("text", k)
  ELSE IF j <= 13 + a.list[k].text THEN FileHead(k, a.list[k])[j - 6 - a.list[k].text]
  ELSE Tok("data", k)

(* How many tokens lie before each of the first n sections. *)
Layouts(a, n) ==
  {o \in [0..n -> Nat] :
     /\ o[0] = 0
     /\ \A k \in 0..n : k < n => o[k + 1] = o[k] + Size(a, k)
     /\ \A j, k \in 0..n : j <= k => o[j] <= o[k]}

Layout(a) == CHOOSE o \in Layouts(a, Entries(a) + 1) : TRUE

Total(a) == Layout(a)[Entries(a) + 1]

(* The g-th token of the answer. *)
Stands(a, g, token) ==
  \E k \in 0..Entries(a) : \E j \in 1..Size(a, k) :
    Layout(a)[k] + j = g /\ token = At(a, k, j)

(***************************************************************************)
(* Lemmas about the layout.                                                *)
(***************************************************************************)

(* Separators and other tokens are told apart. *)
LEMMA Tokens ==
  /\ SP \in Token /\ NL \in Token /\ IsSeparator(SP) /\ IsSeparator(NL)
  /\ \A what \in Words \cup {"text", "data"}, v \in Nat :
       /\ Tok(what, v) \in Token /\ ~IsSeparator(Tok(what, v))
       /\ Tok(what, v).what = what /\ Tok(what, v).v = v
<1>1. SP \in Token /\ NL \in Token /\ SP.what = "SP" /\ NL.what = "NL"
  BY DEF SP, NL, Tok, Token
<1>2. ASSUME NEW what \in Words \cup {"text", "data"}, NEW v \in Nat
      PROVE  Tok(what, v) \in Token /\ Tok(what, v).what = what /\ Tok(what, v).v = v
  BY DEF Tok, Token
<1>3. "SP" \notin Words \cup {"text", "data"} /\ "NL" \notin Words \cup {"text", "data"}
  BY DEF Words
<1> QED
  BY <1>1, <1>2, <1>3 DEF IsSeparator

(* What stands at the places of an answer that are not separators. *)
LEMMA WordTokens ==
  \A n \in Nat :
    /\ IsWord(Tok("RRT", n)) /\ IsWord(Tok("RUL", n)) /\ IsWord(Tok("OK", n))
    /\ IsWord(Tok("EOF", n)) /\ IsWord(Tok("NOK", n)) /\ IsWord(Tok("name", n))
    /\ IsWord(Tok("mid", n)) /\ IsWord(Tok("uid", n)) /\ IsWord(Tok("size", n))
    /\ IsWord(Tok("/", n)) /\ IsWord(Tok("fname", n))
    /\ IsWord(Tok("text", n)) /\ IsWord(Tok("data", n))
  BY Tokens DEF Words, IsWord

(* A nonempty set of numbers has a least one. *)
LEMMA LeastNumber ==
  ASSUME NEW S \in SUBSET Nat, S # {}
  PROVE  \E m \in S : \A n \in S : m <= n
<1> DEFINE Less == {ss \in Nat \X Nat : ss[1] < ss[2]}
<1>1. IsWellFoundedOn(Less, Nat)
  BY NatLessThanWellFounded DEF OpToRel
<1>2. PICK m \in S : \A n \in S : <<n, m>> \notin Less
  BY <1>1, WFMin
<1>3. ASSUME NEW n \in S PROVE m <= n
  <2>1. n < m => <<n, m>> \in Less
    OBVIOUS
  <2> QED
    BY <1>2, <2>1
<1> QED
  BY <1>3

(* What the answers and the messages in them are. *)
LEMMA Listing ==
  ASSUME NEW a \in Answers
  PROVE  /\ Len(a.list) \in Nat /\ DOMAIN a.list = 1..Len(a.list)
         /\ a.to \in {"retrieve", "ulist"} /\ a.status \in {"OK", "EOF", "NOK"}
         /\ a.to = "retrieve" => Len(a.list) <= MaxMessages
         /\ a.to = "ulist" => Len(a.list) <= MaxUsers /\ a.status # "EOF"
         /\ a.status # "OK" => Len(a.list) = 0
         /\ HasEntries(a) => Entries(a) = Len(a.list) /\ Entries(a) \in Nat \ {0}
         /\ ~HasEntries(a) => Entries(a) = 0
<1> USE StreamAssumption
<1>1. CASE a \in [to: {"retrieve"}, status: {"OK"}, list: SeqOf(Messages, MaxMessages) \ {<< >>}]
  <2>1. PICK n \in 0..MaxMessages : a.list \in [1..n -> Messages]
    BY <1>1 DEF SeqOf
  <2>2. Len(a.list) = n /\ DOMAIN a.list = 1..n
    BY <2>1
  <2>3. n # 0
    BY <1>1, <2>1
  <2> QED
    BY <1>1, <2>2, <2>3 DEF HasEntries, Entries
<1>2. CASE a \in [to: {"retrieve"}, status: {"EOF", "NOK"}, list: {<< >>}]
  BY <1>2 DEF HasEntries, Entries
<1>3. CASE a \in [to: {"ulist"}, status: {"OK"}, list: {[u \in 1..n |-> u] : n \in 0..MaxUsers}]
  <2>1. PICK n \in 0..MaxUsers : a.list = [u \in 1..n |-> u]
    BY <1>3
  <2>2. Len(a.list) = n /\ DOMAIN a.list = 1..n
    BY <2>1
  <2> QED
    BY <1>3, <2>2 DEF HasEntries, Entries
<1>4. CASE a \in [to: {"ulist"}, status: {"NOK"}, list: {<< >>}]
  BY <1>4 DEF HasEntries, Entries
<1> QED
  BY <1>1, <1>2, <1>3, <1>4 DEF Answers

(* A message of a retrieve has a text, and a file or not. *)
LEMMA Message ==
  ASSUME NEW a \in Answers, NEW k \in 1..Entries(a)
  PROVE  /\ HasEntries(a) /\ Entries(a) = Len(a.list) /\ k \in DOMAIN a.list
         /\ a.list[k].text \in Nat
         /\ HasFile(a.list[k]) => a.list[k].file \in Nat
<1> USE StreamAssumption
<1>1. HasEntries(a) /\ Entries(a) = Len(a.list) /\ k \in DOMAIN a.list
  BY Listing
<1>2. a.list \in SeqOf(Messages, MaxMessages)
  BY <1>1 DEF HasEntries, Answers
<1>3. PICK n \in 0..MaxMessages : a.list \in [1..n -> Messages]
  BY <1>2 DEF SeqOf
<1>4. a.list[k] \in Messages
  BY <1>1, <1>3
<1> QED
  BY <1>1, <1>4 DEF Messages, HasFile

(* The tokens of two sequences that are joined. *)
LEMMA Joined ==
  ASSUME NEW s \in Seq(Token), NEW t \in Seq(Token)
  PROVE  /\ s \o t \in Seq(Token) /\ Len(s \o t) = Len(s) + Len(t)
         /\ Len(s) \in Nat /\ Len(t) \in Nat
         /\ \A i \in 1..Len(s) : (s \o t)[i] = s[i]
         /\ \A i \in 1..Len(t) : (s \o t)[Len(s) + i] = t[i]
<1> DEFINE both == s \o t
<1>1. Len(s) \in Nat /\ Len(t) \in Nat
  OBVIOUS
<1>2. /\ both \in Seq(Token) /\ Len(both) = Len(s) + Len(t)
      /\ \A i \in 1..(Len(s) + Len(t)) : both[i] = IF i <= Len(s) THEN s[i] ELSE t[i - Len(s)]
  BY ConcatProperties
<1> HIDE DEF both
<1>3. \A i \in 1..Len(s) : both[i] = s[i]
  BY <1>1, <1>2
<1>4. ASSUME NEW i \in 1..Len(t) PROVE both[Len(s) + i] = t[i]
  <2>1. /\ Len(s) + i \in 1..(Len(s) + Len(t)) /\ ~(Len(s) + i <= Len(s))
        /\ (Len(s) + i) - Len(s) = i
    BY <1>1
  <2> QED
    BY <1>2, <2>1
<1> QED
  BY <1>1, <1>2, <1>3, <1>4 DEF both

(* The users as words, each with its separator. *)
LEMMA UserTokens ==
  ASSUME NEW n \in Nat
  PROVE  /\ Users(n) \in Seq(Token) /\ Len(Users(n)) = 2 * n
         /\ \A u \in 1..n : Users(n)[2 * u - 1] = Tok("uid", u) /\ Users(n)[2 * u] = SP
<1>1. \A i \in 1..(2 * n) : (i + 1) \div 2 \in Nat
  OBVIOUS
<1>2. Users(n) \in [1..(2 * n) -> Token]
  BY <1>1, Tokens, WordTokens DEF Users, IsWord
<1>3. ASSUME NEW u \in 1..n
      PROVE  Users(n)[2 * u - 1] = Tok("uid", u) /\ Users(n)[2 * u] = SP
  <2>1. 2 * u - 1 \in 1..(2 * n) /\ 2 * u \in 1..(2 * n)
    OBVIOUS
  <2>2. (2 * u - 1) % 2 = 1 /\ (2 * u) % 2 = 0 /\ ((2 * u - 1) + 1) \div 2 = u
    OBVIOUS
  <2> QED
    BY <2>1, <2>2 DEF Users
<1> QED
  BY <1>2, <1>3

(* An answer to a ulist, after its head. *)
LEMMA UlistTokens ==
  ASSUME NEW n \in Nat, NEW head \in Seq(Token), Len(head) = 6
  PROVE  LET all == head \o Users(n) \o <<NL>>
         IN  /\ all \in Seq(Token) /\ Len(all) = 7 + 2 * n
             /\ \A i \in 1..6 : all[i] = head[i]
             /\ \A u \in 1..n : all[5 + 2 * u] = Tok("uid", u) /\ all[6 + 2 * u] = SP
             /\ all[7 + 2 * n] = NL
<1> DEFINE mid == head \o Users(n)
           all == mid \o <<NL>>
<1>1. /\ Users(n) \in Seq(Token) /\ Len(Users(n)) = 2 * n
      /\ \A u \in 1..n : Users(n)[2 * u - 1] = Tok("uid", u) /\ Users(n)[2 * u] = SP
  BY UserTokens
<1>2. /\ mid \in Seq(Token) /\ Len(mid) = 6 + 2 * n
      /\ \A i \in 1..6 : mid[i] = head[i]
      /\ \A i \in 1..(2 * n) : mid[6 + i] = Users(n)[i]
  <2>1. /\ mid \in Seq(Token) /\ Len(mid) = Len(head) + Len(Users(n))
        /\ \A i \in 1..Len(head) : mid[i] = head[i]
        /\ \A i \in 1..Len(Users(n)) : mid[Len(head) + i] = Users(n)[i]
    BY <1>1, Joined
  <2> QED
    BY <1>1, <2>1
<1>3. <<NL>> \in Seq(Token) /\ Len(<<NL>>) = 1 /\ <<NL>>[1] = NL
  BY Tokens
<1> HIDE DEF mid
<1>4. /\ all \in Seq(Token) /\ Len(all) = 7 + 2 * n
      /\ \A i \in 1..(6 + 2 * n) : all[i] = mid[i]
      /\ all[7 + 2 * n] = NL
  <2>1. /\ all \in Seq(Token) /\ Len(all) = Len(mid) + Len(<<NL>>)
        /\ \A i \in 1..Len(mid) : all[i] = mid[i]
        /\ \A i \in 1..Len(<<NL>>) : all[Len(mid) + i] = <<NL>>[i]
    BY <1>2, <1>3, Joined
  <2>2. 1 \in 1..Len(<<NL>>) /\ Len(mid) + 1 = 7 + 2 * n
    BY <1>2, <1>3
  <2>3. all[7 + 2 * n] = NL
    BY <1>3, <2>1, <2>2
  <2> HIDE DEF all
  <2>4. /\ Len(all) = 7 + 2 * n
        /\ \A i \in 1..(6 + 2 * n) : all[i] = mid[i]
    BY <1>2, <1>3, <2>1
  <2> QED
    BY <2>1, <2>3, <2>4
<1> HIDE DEF all
<1>5. \A i \in 1..6 : all[i] = head[i]
  BY <1>2, <1>4
<1>6. ASSUME NEW u \in 1..n
      PROVE  all[5 + 2 * u] = Tok("uid", u) /\ all[6 + 2 * u] = SP
  <2>1. /\ 5 + 2 * u \in 1..(6 + 2 * n) /\ 6 + 2 * u \in 1..(6 + 2 * n)
        /\ 5 + 2 * u = 6 + (2 * u - 1)
        /\ 2 * u - 1 \in 1..(2 * n) /\ 2 * u \in 1..(2 * n)
    OBVIOUS
  <2>2. all[5 + 2 * u] = Users(n)[2 * u - 1] /\ all[6 + 2 * u] = Users(n)[2 * u]
    BY <1>2, <1>4, <2>1
  <2> QED
    BY <1>1, <2>2
<1> QED
  BY <1>4, <1>5, <1>6 DEF all, mid

(* What is written before the entries. *)
LEMMA FirstTokens ==
  ASSUME NEW a \in Answers
  PROVE  /\ First(a) \in Seq(Token) /\ Len(First(a)) >= 4
         /\ First(a)[1] \in Token /\ ~IsSeparator(First(a)[1]) /\ IsSeparator(First(a)[2])
         /\ First(a)[3] = Tok(a.status, 0) /\ IsSeparator(First(a)[4])
         /\ HasEntries(a) => Len(First(a)) = 5 /\ First(a)[5] = Tok("size", Len(a.list))
         /\ a.to = "ulist" /\ a.status = "OK" =>
              /\ Len(First(a)) = 7 + 2 * Len(a.list)
              /\ First(a)[5] = Tok("name", 0) /\ First(a)[6] = SP
              /\ \A u \in DOMAIN a.list :
                   First(a)[5 + 2 * u] = Tok("uid", u) /\ First(a)[6 + 2 * u] = SP
              /\ First(a)[7 + 2 * Len(a.list)] = NL
<1> DEFINE n == Len(a.list)
<1>1. CASE HasEntries(a)
  <2>1. First(a) = <<Tok("RRT", 0), SP, Tok("OK", 0), SP, Tok("size", n)>>
    BY <1>1 DEF HasEntries, First
  <2> QED
    BY <1>1, <2>1, Tokens, WordTokens, Listing DEF HasEntries, IsWord
<1>2. CASE a.to = "retrieve" /\ a.status = "EOF"
  <2>1. First(a) = <<Tok("RRT", 0), SP, Tok("EOF", 0), SP, Tok("size", 0), NL>>
    BY <1>2 DEF First
  <2> QED
    BY <1>2, <2>1, Tokens, WordTokens DEF HasEntries, IsWord
<1>3. CASE a.status = "NOK"
  <2>1. CASE a.to = "retrieve"
    <3>1. First(a) = <<Tok("RRT", 0), SP, Tok("NOK", 0), NL>>
      BY <1>3, <2>1 DEF First
    <3> QED
      BY <1>3, <3>1, Tokens, WordTokens DEF HasEntries, IsWord
  <2>2. CASE a.to = "ulist"
    <3>1. First(a) = <<Tok("RUL", 0), SP, Tok("NOK", 0), NL>>
      BY <1>3, <2>2 DEF First
    <3> QED
      BY <1>3, <3>1, Tokens, WordTokens DEF HasEntries, IsWord
  <2> QED
    BY <2>1, <2>2, Listing
<1>4. CASE a.to = "ulist" /\ a.status = "OK"
  <2> DEFINE head == <<Tok("RUL", 0), SP, Tok("OK", 0), SP, Tok("name", 0), SP>>
             all  == head \o Users(n) \o <<NL>>
  <2>1. First(a) = all
    BY <1>4 DEF First
  <2>2. head \in Seq(Token) /\ Len(head) = 6
    BY Tokens, WordTokens DEF IsWord
  <2>3. n \in Nat /\ DOMAIN a.list = 1..n
    BY Listing
  <2>4. /\ head[1] = Tok("RUL", 0) /\ head[2] = SP /\ head[3] = Tok("OK", 0)
        /\ head[4] = SP /\ head[5] = Tok("name", 0) /\ head[6] = SP
    OBVIOUS
  <2> HIDE DEF head, n
  <2>5. /\ all \in Seq(Token) /\ Len(all) = 7 + 2 * n
        /\ \A i \in 1..6 : all[i] = head[i]
        /\ \A u \in 1..n : all[5 + 2 * u] = Tok("uid", u) /\ all[6 + 2 * u] = SP
        /\ all[7 + 2 * n] = NL
    BY <2>2, <2>3, UlistTokens
  <2>6. ~HasEntries(a)
    BY <1>4 DEF HasEntries
  <2> HIDE DEF all
  <2>7. /\ all[1] = Tok("RUL", 0) /\ all[2] = SP /\ all[3] = Tok("OK", 0)
        /\ all[4] = SP /\ all[5] = Tok("name", 0) /\ all[6] = SP
    BY <2>4, <2>5
  <2>8. ~IsSeparator(all[1]) /\ all[1] \in Token /\ IsSeparator(all[2]) /\ IsSeparator(all[4])
    BY <2>7, Tokens, WordTokens DEF IsWord
  <2>9. Len(all) >= 4
    BY <2>3, <2>5
  <2> QED
    BY <1>4, <2>1, <2>3, <2>5, <2>6, <2>7, <2>8, <2>9 DEF n
<1> QED
  BY <1>1, <1>2, <1>3, <1>4, Listing DEF HasEntries

(* No section is empty. *)
LEMMA Sizes ==
  ASSUME NEW a \in Answers, NEW k \in 0..Entries(a)
  PROVE  Size(a, k) \in Nat \ {0}
<1>1. CASE k = 0
  BY <1>1, FirstTokens, Joined DEF Size
<1>2. CASE k # 0
  <2>1. k \in 1..Entries(a)
    BY <1>2, Listing
  <2>2. a.list[k].text \in Nat /\ (HasFile(a.list[k]) => a.list[k].file \in Nat)
    BY <2>1, Message
  <2> QED
    BY <1>2, <2>2 DEF Size
<1> QED
  BY <1>1, <1>2

(* Any number of sections can be laid out. *)
LEMMA LayoutExists ==
  ASSUME NEW a \in Answers, NEW n \in 0..(Entries(a) + 1)
  PROVE  Layouts(a, n) # {}
<1> DEFINE Bad == {m \in Nat : m <= Entries(a) + 1 /\ Layouts(a, m) = {}}
<1>1. Entries(a) \in Nat
  BY Listing
<1>2. SUFFICES ASSUME Bad # {} PROVE FALSE
  BY <1>1
<1>3. PICK m \in Bad : \A i \in Bad : m <= i
  BY <1>2, LeastNumber
<1>4. [i \in 0..0 |-> 0] \in Layouts(a, 0)
  BY DEF Layouts
<1>5. m # 0 /\ m - 1 \in Nat /\ m - 1 \in 0..Entries(a)
  BY <1>1, <1>3, <1>4
<1>6. m - 1 \notin Bad
  BY <1>3, <1>5
<1>7. PICK o \in Layouts(a, m - 1) : TRUE
  BY <1>1, <1>5, <1>6
<1> DEFINE p == [i \in 0..m |-> IF i = m THEN o[m - 1] + Size(a, m - 1) ELSE o[i]]
<1>8. Size(a, m - 1) \in Nat
  BY <1>5, Sizes
<1>9. p \in Layouts(a, m)
  <2>1. /\ o \in [0..(m - 1) -> Nat] /\ o[0] = 0
        /\ \A k \in 0..(m - 1) : k < m - 1 => o[k + 1] = o[k] + Size(a, k)
        /\ \A j, k \in 0..(m - 1) : j <= k => o[j] <= o[k]
    BY <1>7 DEF Layouts
  <2>2. p \in [0..m -> Nat] /\ p[0] = 0
    BY <1>5, <1>8, <2>1
  <2>3. \A i \in 0..m : p[i] = IF i = m THEN o[m - 1] + Size(a, m - 1) ELSE o[i]
    OBVIOUS
  <2> HIDE DEF p
  <2>4. ASSUME NEW k \in 0..m, k < m
        PROVE  p[k + 1] = p[k] + Size(a, k)
    <3>1. CASE k = m - 1
      BY <1>5, <1>8, <2>3, <3>1
    <3>2. CASE k # m - 1
      <4>1. k \in 0..(m - 1) /\ k < m - 1 /\ k # m /\ k + 1 \in 0..m /\ k + 1 # m
        BY <1>5, <2>4, <3>2
      <4>2. o[k + 1] = o[k] + Size(a, k) /\ p[k] = o[k] /\ p[k + 1] = o[k + 1]
        BY <2>1, <2>3, <4>1
      <4> QED
        BY <4>2
    <3> QED
      BY <3>1, <3>2
  <2>5. ASSUME NEW j \in 0..m, NEW k \in 0..m, j <= k
        PROVE  p[j] <= p[k]
    <3>1. CASE k = m /\ j # m
      <4>1. j \in 0..(m - 1) /\ m - 1 \in 0..(m - 1) /\ j <= m - 1
        BY <1>5, <3>1
      <4>2. o[j] <= o[m - 1] /\ o[j] \in Nat /\ o[m - 1] \in Nat
        BY <2>1, <4>1
      <4> QED
        BY <1>8, <2>3, <3>1, <4>2
    <3>2. CASE k # m
      BY <1>5, <2>1, <2>3, <2>5, <3>2
    <3> QED
      BY <2>2, <2>5, <3>1, <3>2
  <2> QED
    BY <2>2, <2>4, <2>5 DEF Layouts
<1> QED
  BY <1>3, <1>9

(* Sections follow each other. *)
LEMMA LayoutLaws ==
  ASSUME NEW a \in Answers
  PROVE  /\ Layout(a) \in [0..(Entries(a) + 1) -> Nat] /\ Layout(a)[0] = 0
         /\ \A k \in 0..Entries(a) : /\ k \in 0..(Entries(a) + 1) /\ k + 1 \in 0..(Entries(a) + 1)
                                  /\ Layout(a)[k] \in Nat
                                  /\ Layout(a)[k + 1] = Layout(a)[k] + Size(a, k)
         /\ \A j, k \in 0..(Entries(a) + 1) : j <= k => Layout(a)[j] <= Layout(a)[k]
         /\ Total(a) \in Nat
<1>1. Entries(a) \in Nat /\ Entries(a) + 1 \in 0..(Entries(a) + 1)
  BY Listing
<1>2. Layout(a) \in Layouts(a, Entries(a) + 1)
  BY <1>1, LayoutExists DEF Layout
<1>3. /\ Layout(a) \in [0..(Entries(a) + 1) -> Nat] /\ Layout(a)[0] = 0
      /\ \A k \in 0..(Entries(a) + 1) : k < Entries(a) + 1 => Layout(a)[k + 1] = Layout(a)[k] + Size(a, k)
      /\ \A j, k \in 0..(Entries(a) + 1) : j <= k => Layout(a)[j] <= Layout(a)[k]
  BY <1>2 DEF Layouts
<1> QED
  BY <1>1, <1>3 DEF Total

(* A place belongs to one section. *)
LEMMA OneSection ==
  ASSUME NEW a \in Answers, NEW k \in 0..Entries(a), NEW l \in 0..Entries(a),
         NEW i \in 1..Size(a, k), NEW j \in 1..Size(a, l),
         Layout(a)[k] + i = Layout(a)[l] + j
  PROVE  k = l /\ i = j
<1> DEFINE o == Layout(a)
<1>1. /\ o[k] \in Nat /\ o[l] \in Nat /\ o[k + 1] = o[k] + Size(a, k)
      /\ o[l + 1] = o[l] + Size(a, l)
      /\ Size(a, k) \in Nat /\ Size(a, l) \in Nat
  BY LayoutLaws, Sizes
<1>2. /\ k < l => o[k + 1] <= o[l]
      /\ l < k => o[l + 1] <= o[k]
  BY LayoutLaws, Listing
<1> HIDE DEF o
<1>3. o[k] + i = o[l] + j
  BY DEF o
<1> QED
  BY <1>1, <1>2, <1>3

(* The pieces in which an entry is written lie behind each other in its     *)
(* section.                                                                *)
LEMMA EntryPieces ==
  ASSUME NEW a \in Answers, NEW k \in 1..Entries(a)
  PROVE  LET m == a.list[k]
         IN  /\ m.text \in Nat
             /\ At(a, k, Size(a, k)) = IF k = Entries(a) THEN NL ELSE SP
             /\ \A j \in 1..6 : At(a, k, j) = EntryHead(k, m)[j + 1]
             /\ \A j \in 7..(6 + m.text) : At(a, k, j) = Tok("text", k)
             /\ ~HasFile(m) => Size(a, k) = 7 + m.text
             /\ HasFile(m) =>
                  /\ m.file \in Nat /\ Size(a, k) = 14 + m.text + m.file
                  /\ \A i \in 1..7 : At(a, k, 6 + m.text + i) = FileHead(k, m)[i]
                  /\ \A i \in 1..m.file : At(a, k, 13 + m.text + i) = Tok("data", k)
<1> DEFINE m == a.list[k]
           t == m.text
           f == m.file
<1>1. /\ t \in Nat /\ k \in Nat \ {0}
      /\ HasFile(m) => f \in Nat /\ Size(a, k) = 14 + t + f
      /\ ~HasFile(m) => Size(a, k) = 7 + t
  BY Message DEF Size
<1>2. /\ At(a, k, Size(a, k)) = IF k = Entries(a) THEN NL ELSE SP
      /\ \A j \in 1..6 : At(a, k, j) = EntryHead(k, m)[j + 1]
      /\ \A j \in 7..(6 + t) : At(a, k, j) = Tok("text", k)
  BY <1>1 DEF At
<1>3. ASSUME HasFile(m)
      PROVE  /\ \A j \in (7 + t)..(13 + t) : At(a, k, j) = FileHead(k, m)[j - 6 - t]
             /\ \A j \in (14 + t)..(13 + t + f) : At(a, k, j) = Tok("data", k)
  BY <1>1, <1>3 DEF At
<1>4. ASSUME HasFile(m)
      PROVE  /\ \A i \in 1..7 : At(a, k, 6 + t + i) = FileHead(k, m)[i]
             /\ \A i \in 1..f : At(a, k, 13 + t + i) = Tok("data", k)
  <2> HIDE DEF t, f
  <2>1. \A i \in 1..7 : 6 + t + i \in (7 + t)..(13 + t) /\ (6 + t + i) - 6 - t = i
    BY <1>1
  <2>2. \A i \in 1..f : 13 + t + i \in (14 + t)..(13 + t + f)
    BY <1>1, <1>4
  <2> QED
    BY <1>3, <1>4, <2>1, <2>2
<1> QED
  BY <1>1, <1>2, <1>4

(* What stands where in an entry. *)
LEMMA EntryTokens ==
  ASSUME NEW a \in Answers, NEW k \in 1..Entries(a)
  PROVE  LET t == a.list[k].text
             f == a.list[k].file
         IN  /\ At(a, k, 1) = Tok("mid", k) /\ At(a, k, 2) = SP
             /\ At(a, k, 3) = Tok("uid", k) /\ At(a, k, 4) = SP
             /\ At(a, k, 5) = Tok("size", t) /\ At(a, k, 6) = SP
             /\ IsSeparator(At(a, k, Size(a, k)))
             /\ HasFile(a.list[k]) =>
                  /\ At(a, k, 7 + t) = SP /\ At(a, k, 8 + t) = Tok("/", 0)
                  /\ At(a, k, 9 + t) = SP /\ At(a, k, 10 + t) = Tok("fname", k)
                  /\ At(a, k, 11 + t) = SP /\ At(a, k, 12 + t) = Tok("size", f)
                  /\ At(a, k, 13 + t) = SP
<1> DEFINE m == a.list[k]
           t == m.text
           f == m.file
<1>1. /\ EntryHead(k, m)[2] = Tok("mid", k) /\ EntryHead(k, m)[3] = SP
      /\ EntryHead(k, m)[4] = Tok("uid", k) /\ EntryHead(k, m)[5] = SP
      /\ EntryHead(k, m)[6] = Tok("size", t) /\ EntryHead(k, m)[7] = SP
  BY DEF EntryHead, Announced
<1>2. /\ FileHead(k, m)[1] = SP /\ FileHead(k, m)[2] = Tok("/", 0)
      /\ FileHead(k, m)[3] = SP /\ FileHead(k, m)[4] = Tok("fname", k)
      /\ FileHead(k, m)[5] = SP /\ FileHead(k, m)[6] = Tok("size", f)
      /\ FileHead(k, m)[7] = SP
  BY DEF FileHead
<1>3. /\ t \in Nat
      /\ IsSeparator(At(a, k, Size(a, k)))
      /\ \A j \in 1..6 : At(a, k, j) = EntryHead(k, m)[j + 1]
      /\ HasFile(m) => \A i \in 1..7 : At(a, k, 6 + t + i) = FileHead(k, m)[i]
  BY EntryPieces, Tokens
<1> HIDE DEF m, t, f
<1>4. /\ At(a, k, 1) = EntryHead(k, m)[2] /\ At(a, k, 2) = EntryHead(k, m)[3]
      /\ At(a, k, 3) = EntryHead(k, m)[4] /\ At(a, k, 4) = EntryHead(k, m)[5]
      /\ At(a, k, 5) = EntryHead(k, m)[6] /\ At(a, k, 6) = EntryHead(k, m)[7]
  BY <1>3
<1>5. ASSUME HasFile(m)
      PROVE  /\ At(a, k, 7 + t) = SP /\ At(a, k, 8 + t) = Tok("/", 0)
             /\ At(a, k, 9 + t) = SP /\ At(a, k, 10 + t) = Tok("fname", k)
             /\ At(a, k, 11 + t) = SP /\ At(a, k, 12 + t) = Tok("size", f)
             /\ At(a, k, 13 + t) = SP
  <2>1. /\ At(a, k, 6 + t + 1) = SP /\ At(a, k, 6 + t + 2) = Tok("/", 0)
        /\ At(a, k, 6 + t + 3) = SP /\ At(a, k, 6 + t + 4) = Tok("fname", k)
        /\ At(a, k, 6 + t + 5) = SP /\ At(a, k, 6 + t + 6) = Tok("size", f)
        /\ At(a, k, 6 + t + 7) = SP
    BY <1>2, <1>3, <1>5
  <2>2. /\ 6 + t + 1 = 7 + t /\ 6 + t + 2 = 8 + t /\ 6 + t + 3 = 9 + t /\ 6 + t + 4 = 10 + t
        /\ 6 + t + 5 = 11 + t /\ 6 + t + 6 = 12 + t /\ 6 + t + 7 = 13 + t
    BY <1>3
  <2> QED
    BY <2>1, <2>2
<1> QED
  BY <1>1, <1>3, <1>4, <1>5 DEF m, t, f

(***************************************************************************)
(* The child and the wire.                                                 *)
(***************************************************************************)

(* The tokens before section k of this answer. *)
Begins(k) == Layout(answer)[k]

(* How many tokens the child had written when its last piece was out. *)
Made ==
  CASE part = "first"                -> 0
    [] part \in {"head", "newline"} -> Begins(whole + 1) - 1
    [] part = "text"                 -> Begins(whole + 1) + 6
    [] part = "data"                 -> Begins(whole + 1) + 13 + Current.text
    [] part = "exit"                 -> Total(answer)

(* The variables have their types, those that TypeOK leaves out too. *)
Fields == DOMAIN NoEntry
Typing ==
  /\ TypeOK
  /\ wire \in Seq(Token) /\ held \in Seq(Token)
  /\ entry \in [Fields -> Seq(Token)] /\ shown \in Seq([Fields -> Seq(Token)])

(* The child has a message at hand where it needs one, and none is left    *)
(* when it is done.                                                        *)
Making ==
  /\ part = "first" => whole = 0
  /\ part \in {"head", "text", "data"} => HasEntries(answer) /\ whole < Len(answer.list)
  /\ part = "data" => HasFile(Current)
  /\ part = "newline" => HasEntries(answer)
  /\ part \in {"newline", "exit"} => whole = Entries(answer)
  /\ child = "closed" => part = "exit"
  /\ child = "died" => part # "exit"

(* The wire holds what was written behind the first b tokens: all of it,   *)
(* and of the piece in which the child died, some.                         *)
Carries(b) ==
  /\ b + Len(wire) <= Total(answer)
  /\ Made <= b + Len(wire)
  /\ child # "died" => b + Len(wire) = Made
  /\ \A i \in 1..Len(wire) : Stands(answer, b + i, wire[i])

(* The sections around the place where the child is. *)
LEMMA Around ==
  ASSUME Typing, Making
  PROVE  /\ answer \in Answers /\ whole \in Nat /\ Total(answer) \in Nat
         /\ whole \in 0..Entries(answer) /\ Begins(whole) \in Nat
         /\ Size(answer, whole) \in Nat \ {0}
         /\ Begins(whole + 1) = Begins(whole) + Size(answer, whole)
         /\ whole = Entries(answer) => Total(answer) = Begins(whole + 1)
         /\ whole < Entries(answer) =>
              /\ whole + 1 \in 1..Entries(answer) /\ Begins(whole + 1) \in Nat
              /\ Current.text \in Nat /\ (HasFile(Current) => Current.file \in Nat)
              /\ Begins(whole + 2) = Begins(whole + 1) + Size(answer, whole + 1)
              /\ Begins(whole + 2) <= Total(answer)
              /\ Size(answer, whole + 1) = IF HasFile(Current) THEN 14 + Current.text + Current.file
                                           ELSE 7 + Current.text
<1> DEFINE N == Entries(answer)
<1>1. answer \in Answers /\ whole \in 0..Len(answer.list) /\ N \in Nat /\ Total(answer) \in Nat
  BY Listing, LayoutLaws DEF Typing, TypeOK
<1>2. whole \in 0..N
  BY <1>1, Listing DEF Typing, TypeOK, Making, Parts
<1>3. /\ Begins(whole) \in Nat /\ Size(answer, whole) \in Nat \ {0}
      /\ Begins(whole + 1) = Begins(whole) + Size(answer, whole)
      /\ whole = N => Total(answer) = Begins(whole + 1)
  BY <1>1, <1>2, LayoutLaws, Sizes DEF Begins, Total
<1>4. ASSUME whole < N
      PROVE  /\ whole + 1 \in 1..N /\ Begins(whole + 1) \in Nat
             /\ Current.text \in Nat /\ (HasFile(Current) => Current.file \in Nat)
             /\ Begins(whole + 2) = Begins(whole + 1) + Size(answer, whole + 1)
             /\ Begins(whole + 2) <= Total(answer)
             /\ Size(answer, whole + 1) = IF HasFile(Current) THEN 14 + Current.text + Current.file
                                          ELSE 7 + Current.text
  <2>1. whole + 1 \in 1..N /\ whole + 1 \in 0..N /\ (whole + 1) + 1 = whole + 2
        /\ whole + 2 \in 0..(N + 1) /\ N + 1 \in 0..(N + 1) /\ whole + 2 <= N + 1
    BY <1>1, <1>2, <1>4
  <2>2. /\ Begins(whole + 1) \in Nat
        /\ Begins(whole + 2) = Begins(whole + 1) + Size(answer, whole + 1)
    BY <1>1, <2>1, LayoutLaws DEF Begins
  <2>3. Begins(whole + 2) <= Total(answer)
    BY <1>1, <2>1, LayoutLaws DEF Begins, Total
  <2>4. Current.text \in Nat /\ (HasFile(Current) => Current.file \in Nat)
    BY <1>1, <2>1, Message DEF Current
  <2>5. Size(answer, whole + 1) = IF HasFile(Current) THEN 14 + Current.text + Current.file
                                  ELSE 7 + Current.text
    BY <1>2, <2>1 DEF Size, Current
  <2> QED
    BY <2>1, <2>2, <2>3, <2>4, <2>5
<1> QED
  BY <1>1, <1>2, <1>3, <1>4

(* A text or the bytes of a file. *)
LEMMA Bytes ==
  ASSUME NEW k \in Nat, NEW n \in Nat
  PROVE  /\ Text(k, n) \in Seq(Token) /\ Len(Text(k, n)) = n
         /\ \A i \in 1..n : Text(k, n)[i] = Tok("text", k)
         /\ Data(k, n) \in Seq(Token) /\ Len(Data(k, n)) = n
         /\ \A i \in 1..n : Data(k, n)[i] = Tok("data", k)
<1>1. Text(k, n) \in [1..n -> Token] /\ Data(k, n) \in [1..n -> Token]
  BY Tokens, WordTokens DEF Text, Data, IsWord
<1> QED
  BY <1>1 DEF Text, Data

(* A piece is what belongs behind what was written before, and there is no *)
(* more of it than what still belongs there.                               *)
PieceFits ==
  /\ Piece \in Seq(Token) /\ Len(Piece) \in Nat /\ Made \in Nat
  /\ Made + Len(Piece) <= Total(answer)
  /\ \A i \in 1..Len(Piece) : Stands(answer, Made + i, Piece[i])

(* The piece in front of the entries. *)
LEMMA FirstFits ==
  ASSUME Typing, Making, part = "first"
  PROVE  PieceFits
<1>1. Piece = First(answer) /\ Made = 0 /\ whole = 0 /\ answer \in Answers
  BY DEF Piece, Made, Making, Typing, TypeOK
<1>2. /\ First(answer) \in Seq(Token) /\ Len(First(answer)) \in Nat
      /\ Len(First(answer)) <= Size(answer, 0)
  BY <1>1, FirstTokens, Joined DEF Size
<1>3. Begins(0) = 0 /\ Begins(1) = Size(answer, 0) /\ Begins(1) <= Total(answer)
      /\ 0 \in 0..Entries(answer) /\ Size(answer, 0) \in Nat
  <2>1. Entries(answer) \in Nat
    BY <1>1, Listing
  <2>2. 0 \in 0..Entries(answer) /\ 1 \in 0..(Entries(answer) + 1) /\ 1 <= Entries(answer) + 1
    BY <2>1
  <2>3. Begins(0) = 0 /\ Begins(0 + 1) = Begins(0) + Size(answer, 0) /\ Size(answer, 0) \in Nat
    BY <1>1, <2>2, LayoutLaws, Sizes DEF Begins
  <2>4. Begins(1) <= Total(answer)
    BY <1>1, <2>1, <2>2, LayoutLaws DEF Begins, Total
  <2> QED
    BY <2>2, <2>3, <2>4
<1>4. Total(answer) \in Nat
  BY Around
<1>5. ASSUME NEW i \in 1..Len(First(answer))
      PROVE  i \in 1..Size(answer, 0) /\ First(answer)[i] = At(answer, 0, i)
  BY <1>2, <1>3 DEF At
<1> QED
  BY <1>1, <1>2, <1>3, <1>4, <1>5 DEF PieceFits, Stands, Begins

(* The head of an entry, behind the separator of the section before. *)
LEMMA HeadFits ==
  ASSUME Typing, Making, part = "head"
  PROVE  PieceFits
<1> DEFINE w == whole
           k == whole + 1
<1>1. /\ Piece = EntryHead(k, Current) /\ Made = Begins(k) - 1
      /\ HasEntries(answer) /\ w < Entries(answer) /\ answer \in Answers
  BY Listing DEF Piece, Made, Making, Typing, TypeOK
<1>2. /\ Total(answer) \in Nat /\ w \in 0..Entries(answer) /\ k \in 1..Entries(answer)
      /\ k \in Nat /\ k \in 0..Entries(answer)
      /\ Begins(w) \in Nat /\ Size(answer, w) \in Nat \ {0}
      /\ Begins(k) = Begins(w) + Size(answer, w) /\ Begins(k) \in Nat
      /\ Current.text \in Nat /\ (HasFile(Current) => Current.file \in Nat)
      /\ Begins(w + 2) = Begins(k) + Size(answer, k) /\ Begins(w + 2) <= Total(answer)
      /\ Size(answer, k) = IF HasFile(Current) THEN 14 + Current.text + Current.file
                           ELSE 7 + Current.text
  BY <1>1, Around
<1>3. Piece \in Seq(Token) /\ Len(Piece) = 7 /\ Piece[1] = SP
  BY <1>1, <1>2, Tokens, WordTokens DEF EntryHead, Announced, IsWord
<1>4. At(answer, w, Size(answer, w)) = SP
  <2>1. CASE w = 0
    BY <1>1, <2>1, FirstTokens DEF At, Size
  <2>2. CASE w # 0
    <3>1. w \in 1..Entries(answer) /\ w # Entries(answer)
      BY <1>1, <1>2, <2>2
    <3> QED
      BY <1>1, <3>1, EntryPieces
  <2> QED
    BY <2>1, <2>2
<1>5. \A j \in 1..6 : At(answer, k, j) = Piece[j + 1]
  BY <1>1, <1>2, EntryPieces DEF Current
<1> HIDE DEF w, k
<1>a. Size(answer, k) >= 7 /\ Size(answer, k) \in Nat
  BY <1>2
<1>b. Made = Begins(k) - 1 /\ Begins(k) \in Nat \ {0} /\ Len(Piece) = 7
  BY <1>1, <1>2, <1>3
<1>6. Made \in Nat /\ Len(Piece) \in Nat /\ Made + Len(Piece) <= Total(answer)
  <2>1. Begins(k) + Size(answer, k) <= Total(answer) /\ Total(answer) \in Nat
    BY <1>2
  <2> QED
    BY <1>a, <1>b, <2>1
<1>7. ASSUME NEW i \in 1..Len(Piece)
      PROVE  \E l \in 0..Entries(answer) : \E j \in 1..Size(answer, l) :
               Begins(l) + j = Made + i /\ Piece[i] = At(answer, l, j)
  <2>1. CASE i = 1
    <3>1. Size(answer, w) \in 1..Size(answer, w) /\ Begins(w) + Size(answer, w) = Made + i
      BY <1>2, <1>b, <2>1
    <3> QED
      BY <1>2, <1>3, <1>4, <2>1, <3>1
  <2>2. CASE i # 1
    <3>1. i - 1 \in 1..6 /\ i - 1 \in 1..Size(answer, k) /\ (i - 1) + 1 = i
      BY <1>a, <1>b, <2>2
    <3>2. Begins(k) + (i - 1) = Made + i
      BY <1>a, <1>b
    <3>3. Piece[i] = At(answer, k, i - 1)
      BY <1>5, <3>1
    <3> QED
      BY <1>2, <3>1, <3>2, <3>3
  <2> QED
    BY <2>1, <2>2
<1> QED
  BY <1>3, <1>6, <1>7 DEF PieceFits, Stands, Begins

(* The text, and what announces a file. *)
LEMMA TextFits ==
  ASSUME Typing, Making, part = "text"
  PROVE  PieceFits /\ Len(Piece) = Current.text + IF HasFile(Current) THEN 7 ELSE 0
<1> DEFINE k == whole + 1
           t == Current.text
           text == Text(k, t)
           tail == IF HasFile(Current) THEN FileHead(k, Current) ELSE << >>
<1>1. /\ Piece = text \o tail /\ Made = Begins(k) + 6
      /\ HasEntries(answer) /\ whole < Entries(answer) /\ answer \in Answers
  BY Listing DEF Piece, Made, Making, Typing, TypeOK
<1>2. /\ Total(answer) \in Nat /\ k \in 1..Entries(answer) /\ k \in Nat
      /\ k \in 0..Entries(answer) /\ Begins(k) \in Nat
      /\ t \in Nat /\ (HasFile(Current) => Current.file \in Nat)
      /\ Begins(whole + 2) = Begins(k) + Size(answer, k) /\ Begins(whole + 2) <= Total(answer)
      /\ Size(answer, k) = IF HasFile(Current) THEN 14 + t + Current.file ELSE 7 + t
  BY <1>1, Around
<1>3. /\ \A j \in 7..(6 + t) : At(answer, k, j) = Tok("text", k)
      /\ HasFile(Current) => \A i \in 1..7 : At(answer, k, 6 + t + i) = FileHead(k, Current)[i]
  BY <1>1, <1>2, EntryPieces DEF Current
<1>4. text \in Seq(Token) /\ Len(text) = t /\ \A i \in 1..t : text[i] = Tok("text", k)
  BY <1>2, Bytes
<1>5. /\ tail \in Seq(Token) /\ Len(tail) = IF HasFile(Current) THEN 7 ELSE 0
      /\ HasFile(Current) => tail = FileHead(k, Current)
  BY <1>2, Tokens, WordTokens DEF FileHead, IsWord
<1>6. /\ Piece \in Seq(Token) /\ Len(Piece) = t + Len(tail)
      /\ \A i \in 1..t : Piece[i] = text[i]
      /\ \A i \in 1..Len(tail) : Piece[t + i] = tail[i]
  <2> HIDE DEF text, tail, t
  <2> QED
    BY <1>1, <1>4, <1>5, Joined
<1> HIDE DEF text, tail, t, k
<1>7. /\ Made \in Nat /\ Len(Piece) \in Nat /\ Made + Len(Piece) <= Total(answer)
      /\ 6 + Len(Piece) <= Size(answer, k) /\ Size(answer, k) \in Nat
  <2>1. CASE HasFile(Current)
    <3>1. /\ Len(Piece) = t + 7 /\ Size(answer, k) = 14 + t + Current.file
          /\ Current.file \in Nat
      BY <1>2, <1>5, <1>6, <2>1
    <3>2. Made = Begins(k) + 6 /\ Begins(k) \in Nat /\ t \in Nat /\ Total(answer) \in Nat
          /\ Begins(k) + Size(answer, k) <= Total(answer)
      BY <1>1, <1>2
    <3> QED
      BY <3>1, <3>2
  <2>2. CASE ~HasFile(Current)
    <3>1. Len(Piece) = t /\ Size(answer, k) = 7 + t
      BY <1>2, <1>5, <1>6, <2>2
    <3> QED
      BY <1>1, <1>2, <3>1
  <2> QED
    BY <2>1, <2>2
<1>8. ASSUME NEW i \in 1..Len(Piece)
      PROVE  \E l \in 0..Entries(answer) : \E j \in 1..Size(answer, l) :
               Begins(l) + j = Made + i /\ Piece[i] = At(answer, l, j)
  <2>1. 6 + i \in 1..Size(answer, k) /\ Begins(k) + (6 + i) = Made + i
    <3>1. Made = Begins(k) + 6 /\ Begins(k) \in Nat
      BY <1>1, <1>2
    <3> QED
      BY <1>7, <3>1
  <2>2. Piece[i] = At(answer, k, 6 + i)
    <3>1. CASE i <= t
      BY <1>2, <1>3, <1>4, <1>6, <3>1
    <3>2. CASE i > t
      <4>1. HasFile(Current) /\ i - t \in 1..7 /\ t + (i - t) = i /\ 6 + t + (i - t) = 6 + i
        BY <1>2, <1>5, <1>6, <3>2
      <4>2. Piece[i] = tail[i - t]
        BY <1>5, <1>6, <4>1
      <4> QED
        BY <1>3, <1>5, <4>1, <4>2
    <3> QED
      BY <1>2, <3>1, <3>2
  <2> QED
    BY <1>2, <2>1, <2>2
<1> QED
  BY <1>5, <1>6, <1>7, <1>8 DEF PieceFits, Stands, Begins, t

(* The file. *)
LEMMA DataFits ==
  ASSUME Typing, Making, part = "data"
  PROVE  PieceFits /\ Len(Piece) = Current.file
<1> DEFINE k == whole + 1
           t == Current.text
           f == Current.file
<1>1. /\ Piece = Data(k, f) /\ Made = Begins(k) + 13 + t
      /\ HasEntries(answer) /\ whole < Entries(answer) /\ answer \in Answers /\ HasFile(Current)
  BY Listing DEF Piece, Made, Making, Typing, TypeOK
<1>2. /\ Total(answer) \in Nat /\ k \in 1..Entries(answer) /\ k \in Nat
      /\ k \in 0..Entries(answer) /\ Begins(k) \in Nat /\ t \in Nat /\ f \in Nat
      /\ Begins(whole + 2) = Begins(k) + Size(answer, k) /\ Begins(whole + 2) <= Total(answer)
      /\ Size(answer, k) = 14 + t + f
  BY <1>1, Around
<1>3. \A i \in 1..f : At(answer, k, 13 + t + i) = Tok("data", k)
  BY <1>1, <1>2, EntryPieces DEF Current
<1>4. Piece \in Seq(Token) /\ Len(Piece) = f /\ \A i \in 1..f : Piece[i] = Tok("data", k)
  BY <1>1, <1>2, Bytes
<1> HIDE DEF k, t, f
<1>5. ASSUME NEW i \in 1..f
      PROVE  /\ 13 + t + i \in 1..Size(answer, k) /\ Begins(k) + (13 + t + i) = Made + i
             /\ Piece[i] = At(answer, k, 13 + t + i)
  <2>1. 13 + t + i \in 1..Size(answer, k) /\ Begins(k) + (13 + t + i) = Made + i
    BY <1>1, <1>2
  <2>2. Piece[i] = At(answer, k, 13 + t + i)
    BY <1>3, <1>4
  <2> QED
    BY <2>1, <2>2
<1>6. Made \in Nat /\ Made + Len(Piece) <= Total(answer)
  BY <1>1, <1>2, <1>4
<1> QED
  BY <1>2, <1>4, <1>5, <1>6 DEF PieceFits, Stands, Begins, f

(* The newline behind the last entry. *)
LEMMA NewlineFits ==
  ASSUME Typing, Making, part = "newline"
  PROVE  PieceFits /\ Len(Piece) = 1
<1>1. /\ Piece = <<NL>> /\ Made = Begins(whole + 1) - 1 /\ HasEntries(answer)
      /\ whole = Entries(answer) /\ answer \in Answers
  BY DEF Piece, Made, Making, Typing, TypeOK
<1>2. /\ Total(answer) \in Nat /\ whole \in 0..Entries(answer) /\ whole \in 1..Entries(answer)
      /\ Begins(whole) \in Nat /\ Size(answer, whole) \in Nat \ {0}
      /\ Begins(whole + 1) = Begins(whole) + Size(answer, whole)
      /\ Total(answer) = Begins(whole + 1)
  BY <1>1, Around, Listing
<1>3. At(answer, whole, Size(answer, whole)) = NL
  BY <1>1, <1>2, EntryPieces
<1>4. Piece \in Seq(Token) /\ Len(Piece) = 1 /\ Piece[1] = NL
  BY <1>1, Tokens
<1>5. Made \in Nat /\ Made + 1 = Total(answer)
  BY <1>1, <1>2
<1>6. /\ Size(answer, whole) \in 1..Size(answer, whole)
      /\ Begins(whole) + Size(answer, whole) = Made + 1
  BY <1>1, <1>2
<1> QED
  BY <1>2, <1>3, <1>4, <1>5, <1>6 DEF PieceFits, Stands, Begins

(* Whatever the child writes next fits. *)
LEMMA Fits ==
  ASSUME Typing, Making, part # "exit"
  PROVE  PieceFits
  BY FirstFits, HeadFits, TextFits, DataFits, NewlineFits DEF Typing, TypeOK, Parts

(* A piece, or the beginning of one, comes onto the wire where it belongs. *)
LEMMA WireGrows ==
  ASSUME Typing, Making, part # "exit", child = "writes", NEW b \in Nat, Carries(b),
         NEW n \in 0..Len(Piece), wire' = wire \o SubSeq(Piece, 1, n), answer' = answer
  PROVE  /\ wire' \in Seq(Token) /\ Len(wire') = Len(wire) + n /\ Len(wire) \in Nat
         /\ b + Len(wire) = Made /\ Made \in Nat /\ b + Len(wire') <= Total(answer)
         /\ \A i \in 1..Len(wire') : Stands(answer, b + i, wire'[i])
<1> DEFINE cut == SubSeq(Piece, 1, n)
           len == Len(wire)
<1>1. /\ Piece \in Seq(Token) /\ Len(Piece) \in Nat /\ Made \in Nat
      /\ Made + Len(Piece) <= Total(answer) /\ Total(answer) \in Nat
      /\ \A i \in 1..Len(Piece) : Stands(answer, Made + i, Piece[i])
  BY Fits, Around DEF PieceFits
<1>2. /\ b + len = Made /\ len \in Nat /\ wire \in Seq(Token) /\ answer \in Answers
      /\ \A i \in 1..len : Stands(answer, b + i, wire[i])
  BY DEF Carries, Typing, TypeOK
<1>3. cut \in Seq(Token) /\ Len(cut) = n /\ \A i \in 1..n : cut[i] = Piece[i]
  <2>1. \A i \in 1..n : Piece[i] \in Token
    BY <1>1
  <2>2. /\ cut \in Seq(Token) /\ Len(cut) = IF 1 <= n THEN n - 1 + 1 ELSE 0
        /\ \A i \in 1..(n - 1 + 1) : cut[i] = Piece[1 + i - 1]
    BY <1>1, <2>1, SubSeqProperties
  <2> HIDE DEF cut
  <2> QED
    BY <1>1, <2>2
<1>4. /\ wire' \in Seq(Token) /\ Len(wire') = len + n
      /\ \A i \in 1..len : wire'[i] = wire[i]
      /\ \A i \in 1..n : wire'[len + i] = Piece[i]
  <2>1. /\ wire \o cut \in Seq(Token) /\ Len(wire \o cut) = len + Len(cut)
        /\ \A i \in 1..len : (wire \o cut)[i] = wire[i]
        /\ \A i \in 1..Len(cut) : (wire \o cut)[len + i] = cut[i]
    BY <1>2, <1>3, Joined
  <2> HIDE DEF cut
  <2> QED
    BY <1>3, <2>1 DEF cut
<1> HIDE DEF cut, len
<1>5. b + Len(wire') <= Total(answer)
  BY <1>1, <1>2, <1>4
<1>6. ASSUME NEW i \in 1..Len(wire')
      PROVE  Stands(answer, b + i, wire'[i])
  <2>1. CASE i <= len
    BY <1>2, <1>4, <2>1
  <2>2. CASE i > len
    <3>1. i - len \in 1..n /\ len + (i - len) = i /\ Made + (i - len) = b + i
      BY <1>2, <1>4, <2>2
    <3>2. i - len \in 1..Len(Piece) /\ wire'[i] = Piece[i - len]
      <4>1. wire'[len + (i - len)] = Piece[i - len]
        BY <1>4, <3>1
      <4>2. n <= Len(Piece) /\ Len(Piece) \in Nat
        BY <1>1
      <4>3. i - len \in 1..Len(Piece)
        BY <3>1, <4>2
      <4> QED
        BY <3>1, <4>1, <4>3
    <3>3. Stands(answer, Made + (i - len), Piece[i - len])
      BY <1>1, <3>2
    <3> QED
      BY <3>1, <3>2, <3>3
  <2> QED
    BY <1>2, <1>4, <2>1, <2>2
<1> QED
  BY <1>1, <1>2, <1>4, <1>5, <1>6 DEF len

(* A write moves the child behind what it wrote. *)
LEMMA WriteMoves ==
  ASSUME Typing, Making, Write
  PROVE  /\ Making' /\ part' \in Parts /\ whole' \in 0..Len(answer.list) /\ whole \in Nat
         /\ whole' >= whole /\ Made' = Made + Len(Piece)
<1> DEFINE N == Entries(answer)
<1>1. /\ child = "writes" /\ part # "exit" /\ answer' = answer /\ child' = child
      /\ part' = NextPart /\ whole' = IF EndsEntry THEN whole + 1 ELSE whole
  BY DEF Write
<1>2. /\ answer \in Answers /\ whole \in 0..N /\ N \in Nat /\ Len(answer.list) \in Nat
      /\ HasEntries(answer) => N = Len(answer.list) /\ N # 0
      /\ ~HasEntries(answer) => N = 0
      /\ whole \in 0..Len(answer.list)
  BY Around, Listing DEF Typing, TypeOK
<1>3. CASE part = "first"
  <2>0. ~EndsEntry /\ whole = 0
    BY <1>3 DEF EndsEntry, Making
  <2>1. ~EndsEntry /\ whole' = 0 /\ whole = 0
    BY <1>1, <2>0
  <2>2. part' = IF HasEntries(answer) THEN "head" ELSE "exit"
    BY <1>1, <1>3, <2>0 DEF NextPart
  <2>3. Making' /\ part' \in Parts
    BY <1>1, <1>2, <2>1, <2>2 DEF Making, Parts
  <2>4. Made = 0 /\ Piece = First(answer)
    BY <1>3 DEF Made, Piece
  <2>5. Layout(answer)[1] = Size(answer, 0) /\ Size(answer, 0) \in Nat
    <3>1. 0 \in 0..N /\ 0 + 1 = 1
      BY <1>2
    <3> QED
      BY <1>2, <3>1, LayoutLaws, Sizes
  <2>6. CASE HasEntries(answer)
    <3>1. Made' = Layout(answer)[1] - 1
      BY <1>1, <2>1, <2>2, <2>6 DEF Made, Begins
    <3>2. Size(answer, 0) = 6 /\ Len(First(answer)) = 5
      BY <1>2, <2>6, FirstTokens DEF Size
    <3> QED
      BY <1>2, <2>1, <2>3, <2>4, <2>5, <3>1, <3>2
  <2>7. CASE ~HasEntries(answer)
    <3>1. Made' = Layout(answer)[1]
      BY <1>1, <1>2, <2>1, <2>2, <2>7 DEF Made, Total
    <3>2. Size(answer, 0) = Len(First(answer))
      BY <2>7 DEF Size
    <3> QED
      BY <1>2, <2>1, <2>3, <2>4, <2>5, <3>1, <3>2
  <2> QED
    BY <2>6, <2>7
<1>4. CASE part = "head"
  <2>1. /\ ~EndsEntry /\ whole' = whole /\ part' = "text"
        /\ HasEntries(answer) /\ whole < Len(answer.list)
    BY <1>1, <1>4 DEF EndsEntry, Making, NextPart
  <2>2. Making' /\ part' \in Parts
    BY <1>1, <1>2, <2>1 DEF Making, Parts
  <2>3. Made = Begins(whole + 1) - 1 /\ Made' = Begins(whole + 1) + 6
    BY <1>1, <1>4, <2>1 DEF Made, Begins
  <2>4. Len(Piece) = 7
    BY <1>4 DEF Piece, EntryHead
  <2>5. Begins(whole + 1) \in Nat
    BY <1>2, <2>1, Around
  <2> QED
    BY <1>2, <2>1, <2>2, <2>3, <2>4, <2>5
<1>5. CASE part = "text" /\ HasFile(Current)
  <2>1. /\ ~EndsEntry /\ whole' = whole /\ part' = "data"
        /\ HasEntries(answer) /\ whole < Len(answer.list)
    BY <1>1, <1>5 DEF EndsEntry, Making, NextPart
  <2>2. Current' = Current
    BY <1>1, <2>1 DEF Current
  <2>3. Making' /\ part' \in Parts
    BY <1>1, <1>2, <1>5, <2>1, <2>2 DEF Making, Parts
  <2>4. Made = Begins(whole + 1) + 6 /\ Made' = Begins(whole + 1) + 13 + Current.text
    BY <1>1, <1>5, <2>1, <2>2 DEF Made, Begins
  <2>5. Len(Piece) = Current.text + 7
    BY <1>5, TextFits
  <2>6. Begins(whole + 1) \in Nat /\ Current.text \in Nat
    BY <1>2, <2>1, Around
  <2>7. Made' = Made + Len(Piece)
    BY <2>4, <2>5, <2>6
  <2> QED
    BY <1>2, <2>1, <2>3, <2>7
<1>6. CASE EndsEntry
  <2>1. /\ whole' = whole + 1 /\ HasEntries(answer) /\ whole < Len(answer.list)
        /\ part' = IF whole + 1 < Len(answer.list) THEN "head" ELSE "newline"
    BY <1>1, <1>6 DEF EndsEntry, Making, NextPart
  <2>2. Making' /\ part' \in Parts
    BY <1>1, <1>2, <2>1 DEF Making, Parts
  <2>3. Made' = Begins(whole + 2) - 1
    <3>1. (whole + 1) + 1 = whole + 2 /\ part' \in {"head", "newline"}
      BY <1>2, <2>1
    <3> QED
      BY <1>1, <2>1, <3>1 DEF Made, Begins
  <2>4. /\ Begins(whole + 1) \in Nat /\ Current.text \in Nat
        /\ Begins(whole + 2) = Begins(whole + 1) + Size(answer, whole + 1)
        /\ HasFile(Current) => Current.file \in Nat /\ Size(answer, whole + 1) = 14 + Current.text + Current.file
        /\ ~HasFile(Current) => Size(answer, whole + 1) = 7 + Current.text
    BY <1>2, <2>1, Around
  <2>5. CASE part = "data"
    <3>1. /\ HasFile(Current) /\ Made = Begins(whole + 1) + 13 + Current.text
          /\ Len(Piece) = Current.file
      BY <2>5, DataFits DEF Made, Making
    <3>2. Made' = Made + Len(Piece)
      <4>1. /\ Current.file \in Nat
            /\ Size(answer, whole + 1) = 14 + Current.text + Current.file
        BY <2>4, <3>1
      <4>2. Made' = (Begins(whole + 1) + (14 + Current.text + Current.file)) - 1
        BY <2>3, <2>4, <4>1
      <4>3. (Begins(whole + 1) + (14 + Current.text + Current.file)) - 1
              = (Begins(whole + 1) + 13 + Current.text) + Current.file
        BY <2>4, <4>1
      <4> QED
        BY <3>1, <4>2, <4>3
    <3> QED
      BY <1>2, <2>1, <2>2, <3>2
  <2>6. CASE part = "text" /\ ~HasFile(Current)
    <3>1. Made = Begins(whole + 1) + 6 /\ Len(Piece) = Current.text + 0
      BY <2>6, TextFits DEF Made
    <3>2. Made' = Made + Len(Piece)
      BY <2>3, <2>4, <2>6, <3>1
    <3> QED
      BY <1>2, <2>1, <2>2, <3>2
  <2> QED
    BY <1>6, <2>5, <2>6 DEF EndsEntry
<1>7. CASE part = "newline"
  <2>1. /\ ~EndsEntry /\ whole' = whole /\ part' = "exit"
        /\ HasEntries(answer) /\ whole = N
    BY <1>1, <1>7 DEF EndsEntry, Making, NextPart
  <2>2. Making' /\ part' \in Parts
    BY <1>1, <1>2, <2>1 DEF Making, Parts
  <2>3. Made = Begins(whole + 1) - 1 /\ Made' = Total(answer)
    BY <1>1, <1>7, <2>1 DEF Made
  <2>4. Len(Piece) = 1 /\ Total(answer) = Begins(whole + 1) /\ Total(answer) \in Nat
    BY <1>7, <2>1, NewlineFits, Around
  <2> QED
    BY <1>2, <2>1, <2>2, <2>3, <2>4
<1> QED
  BY <1>1, <1>3, <1>4, <1>5, <1>6, <1>7 DEF EndsEntry, Typing, TypeOK, Parts

(***************************************************************************)
(* The client.                                                             *)
(***************************************************************************)

(* The entry that the client is reading, or is about to. *)
Turn == Len(shown) + 1
Reading == answer.list[Turn]

EntryStages ==
  {"uid", "size", "text", "sep", "slash", "fname", "fsize", "data", "sep2", "next"}
FileStages == {"fname", "fsize", "data", "sep2", "next"}
EarlyStages == {"verb", "status", "count", "ahead", "name"}

(* How many tokens the client has taken, if it has missed none. *)
Place ==
  CASE pc = "verb"   -> 0
    [] pc = "status" -> 2
    [] pc = "count"  -> 4
    [] pc = "ahead"  -> 6
    [] pc = "name"   -> 4
    [] pc = "user"   -> 6 + 2 * Len(shown)
    [] pc = "uid"    -> Begins(Turn) + 2
    [] pc = "size"   -> Begins(Turn) + 4
    [] pc = "text"   -> Begins(Turn) + 6
    [] pc = "sep"    -> Begins(Turn) + 6 + Reading.text
    [] pc = "slash"  -> Begins(Turn) + 7 + Reading.text
    [] pc = "fname"  -> Begins(Turn) + 9 + Reading.text
    [] pc = "fsize"  -> Begins(Turn) + 11 + Reading.text
    [] pc = "data"   -> Begins(Turn) + 13 + Reading.text
    [] pc = "sep2"   -> Begins(Turn) + 13 + Reading.text + Reading.file
    [] pc = "next"   -> Begins(Turn) + 14 + Reading.text + Reading.file

(* What of the entry it has read by then. *)
FieldsRead ==
  CASE pc = "uid"                       -> {"mid"}
    [] pc \in {"size", "text"}          -> {"mid", "uid"}
    [] pc \in {"sep", "slash", "fname"} -> {"mid", "uid", "text"}
    [] pc \in {"fsize", "data"}         -> {"mid", "uid", "text", "fname"}
    [] pc \in {"sep2", "next"}          -> Fields

(* The client is at its place, and has read what stands before it. *)
InPlace ==
  /\ Carries(Place)
  /\ pc = "ahead" => left = Entries(answer)
  /\ pc \in EntryStages =>
       \A f \in Fields : entry[f] = IF f \in FieldsRead THEN Whole(Turn, Reading)[f] ELSE << >>
  /\ pc = "text" => held = <<Tok("size", Reading.text)>>
  /\ pc = "data" => held = <<Tok("size", Reading.file)>>

(* The child died and the client has read all there was: what it has of    *)
(* the entry is right or missing, and the entry is not one written whole,  *)
(* unless it has all of it.                                                *)
Short ==
  /\ child = "died" /\ wire = << >>
  /\ pc = "ahead" => left \in {0, Entries(answer)}
  /\ pc \notin EntryStages => whole = 0
  /\ pc \in EntryStages =>
       /\ whole <= Turn
       /\ \A f \in Fields : entry[f] \in {<< >>, Whole(Turn, Reading)[f]}
       /\ whole = Turn => /\ pc \in {"sep", "slash", "sep2", "next"}
                             /\ \A f \in Fields : entry[f] = Whole(Turn, Reading)[f]
  /\ pc = "text" => held \in {<< >>, <<Tok("size", Reading.text)>>}
  /\ pc = "data" => held \in {<< >>, <<Tok("size", Reading.file)>>}

(* What the client knows at each of its stages. *)
Following ==
  /\ pc \in {"count", "ahead"} \cup EntryStages => HasEntries(answer)
  /\ pc \in {"name", "user"} => answer.to = "ulist" /\ answer.status = "OK"
  /\ pc \in EarlyStages => shown = << >>
  /\ pc = "user" => Len(shown) <= Len(answer.list)
  /\ pc \in EntryStages => Len(shown) < Entries(answer) /\ left = Entries(answer) - Len(shown)
  /\ pc \in FileStages => HasFile(Reading)
  /\ pc \notin {"done", "spins"} => InPlace \/ Short
  /\ SpinsOnlyInside

(* What is shown is right; what is missing in it was not written whole.    *)
ShownRight ==
  /\ Len(shown) <= Len(Expected)
  /\ \A k \in 1..Len(shown) :
       /\ k <= whole \/ child # "died" => shown[k] = Expected[k]
       /\ \A f \in Fields : shown[k][f] \in {<< >>, Expected[k][f]}

RInv == Typing /\ Making /\ Following /\ ShownRight

(* The child keeps to its answer, and what the wire holds stays where it   *)
(* belongs, whatever the client has taken.                                 *)
LEMMA ChildKeeps ==
  ASSUME Typing, Making, Write \/ Close \/ Die
  PROVE  /\ Typing' /\ Making' /\ answer' = answer /\ UNCHANGED client
         /\ whole \in Nat /\ whole' >= whole /\ child = "writes"
         /\ \A b \in Nat : Carries(b) => Carries(b)'
<1>1. child = "writes" /\ answer' = answer /\ UNCHANGED client
  BY DEF Write, Close, ChildExits, Die
<1>2. CASE Write
  <2>1. /\ Making' /\ part' \in Parts /\ whole' \in 0..Len(answer.list) /\ whole \in Nat
        /\ whole' >= whole /\ Made' = Made + Len(Piece)
    BY <1>2, WriteMoves
  <2>2. part # "exit" /\ wire' = wire \o Piece /\ child' = child
    BY <1>2 DEF Write
  <2>3. Piece \in Seq(Token) /\ Len(Piece) \in Nat
    BY <2>2, Fits DEF PieceFits
  <2>4. wire' \in Seq(Token)
    BY <2>2, <2>3, Joined DEF Typing
  <2>5. Typing'
    BY <1>1, <2>1, <2>2, <2>4 DEF Typing, TypeOK, client, Fields, NoEntry
  <2>6. ASSUME NEW b \in Nat, Carries(b) PROVE Carries(b)'
    <3>1. Len(Piece) \in 0..Len(Piece) /\ SubSeq(Piece, 1, Len(Piece)) = Piece
      BY <2>3, SubSeqFull
    <3>2. /\ Len(wire') = Len(wire) + Len(Piece) /\ Len(wire) \in Nat
          /\ b + Len(wire) = Made /\ Made \in Nat /\ b + Len(wire') <= Total(answer)
          /\ \A i \in 1..Len(wire') : Stands(answer, b + i, wire'[i])
      BY <1>1, <2>2, <2>6, <3>1, WireGrows
    <3>3. b + Len(wire') = Made'
      <4>1. b + (Len(wire) + Len(Piece)) = (b + Len(wire)) + Len(Piece)
        BY <2>3, <3>2
      <4> QED
        BY <2>1, <3>2, <4>1
    <3> QED
      BY <1>1, <2>1, <2>3, <3>2, <3>3 DEF Carries
  <2> QED
    BY <1>1, <2>1, <2>5, <2>6
<1>3. CASE Close
  <2>1. child' = "closed" /\ part = "exit" /\ UNCHANGED <<answer, part, whole, wire>>
    BY <1>3 DEF Close, ChildExits
  <2>2. Typing' /\ Making' /\ whole \in Nat
    BY <1>1, <2>1 DEF Typing, TypeOK, Making, Current, client, Fields, NoEntry
  <2>3. Made' = Made
    BY <2>1 DEF Made, Begins, Current
  <2>4. \A b \in Nat : Carries(b) => Carries(b)'
    BY <1>1, <2>1, <2>3 DEF Carries
  <2> QED
    BY <1>1, <2>1, <2>2, <2>4
<1>4. CASE Die
  <2>1. part # "exit" /\ child' = "died" /\ UNCHANGED <<answer, part, whole>>
    BY <1>4 DEF Die
  <2>2. Piece \in Seq(Token) /\ Len(Piece) \in Nat
    BY <2>1, Fits DEF PieceFits
  <2>3. PICK n \in {0} \cup 1..(Len(Piece) - 1) : wire' = wire \o SubSeq(Piece, 1, n)
    BY <1>4 DEF Die
  <2>4. n \in 0..Len(Piece)
    BY <2>2
  <2>5. wire' \in Seq(Token)
    <3>1. \A i \in 1..n : Piece[i] \in Token
      BY <2>2, <2>4
    <3>2. SubSeq(Piece, 1, n) \in Seq(Token)
      BY <2>4, <3>1, SubSeqProperties
    <3> QED
      BY <2>3, <3>2, Joined DEF Typing
  <2>6. Typing' /\ Making' /\ whole \in Nat
    BY <1>1, <2>1, <2>5 DEF Typing, TypeOK, Making, Current, client, Fields, NoEntry
  <2>7. Made' = Made
    BY <2>1 DEF Made, Begins, Current
  <2>8. ASSUME NEW b \in Nat, Carries(b) PROVE Carries(b)'
    <3>1. /\ Len(wire') = Len(wire) + n /\ Len(wire) \in Nat
          /\ b + Len(wire) = Made /\ Made \in Nat /\ b + Len(wire') <= Total(answer)
          /\ \A i \in 1..Len(wire') : Stands(answer, b + i, wire'[i])
      BY <1>1, <2>1, <2>3, <2>4, <2>8, WireGrows
    <3>2. Made' <= b + Len(wire')
      BY <2>4, <2>7, <3>1
    <3> QED
      BY <1>1, <2>1, <3>1, <3>2 DEF Carries
  <2> QED
    BY <1>1, <2>1, <2>6, <2>8
<1> QED
  BY <1>2, <1>3, <1>4

(* The section of the entry that the client is reading. *)
LEMMA AtEntry ==
  ASSUME Typing, Following, pc \in EntryStages
  PROVE  /\ answer \in Answers /\ HasEntries(answer) /\ Len(shown) \in Nat
         /\ Turn \in 1..Entries(answer) /\ Turn \in 0..Entries(answer) /\ Turn = Len(shown) + 1
         /\ Entries(answer) \in Nat
         /\ Reading.text \in Nat /\ (HasFile(Reading) => Reading.file \in Nat)
         /\ Begins(Turn) \in Nat /\ Total(answer) \in Nat
         /\ Begins(Turn + 1) = Begins(Turn) + Size(answer, Turn)
         /\ Begins(Turn + 1) <= Total(answer)
         /\ Size(answer, Turn) = IF HasFile(Reading) THEN 14 + Reading.text + Reading.file
                                 ELSE 7 + Reading.text
         /\ pc \in FileStages => HasFile(Reading)
<1>1. /\ answer \in Answers /\ Len(shown) \in Nat /\ Len(shown) < Entries(answer)
      /\ Entries(answer) \in Nat /\ HasEntries(answer)
      /\ pc \in FileStages => HasFile(Reading)
  BY Listing DEF Typing, TypeOK, Following
<1>2. Turn \in 1..Entries(answer) /\ Turn \in 0..Entries(answer) /\ Turn # 0 /\ Turn + 1 \in 0..(Entries(answer) + 1)
      /\ Turn = Len(shown) + 1
  BY <1>1 DEF Turn
<1>3. Reading.text \in Nat /\ (HasFile(Reading) => Reading.file \in Nat)
  BY <1>1, <1>2, Message DEF Reading
<1>4. Size(answer, Turn) = IF HasFile(Reading) THEN 14 + Reading.text + Reading.file
                           ELSE 7 + Reading.text
  BY <1>2 DEF Size, Reading
<1>5. /\ Begins(Turn) \in Nat /\ Total(answer) \in Nat
      /\ Begins(Turn + 1) = Begins(Turn) + Size(answer, Turn)
  BY <1>1, <1>2, LayoutLaws DEF Begins
<1>6. Begins(Turn + 1) <= Total(answer)
  <2>1. Turn + 1 <= Entries(answer) + 1 /\ Entries(answer) + 1 \in 0..(Entries(answer) + 1)
    BY <1>1, <1>2
  <2> QED
    BY <1>1, <1>2, <2>1, LayoutLaws DEF Begins, Total
<1> QED
  BY <1>1, <1>2, <1>3, <1>4, <1>5, <1>6

(* A place is a number. *)
LEMMA PlaceType ==
  ASSUME Typing, Following, pc \notin {"done", "spins"}
  PROVE  Place \in Nat
<1>1. CASE pc \in EntryStages
  <2>1. Begins(Turn) \in Nat /\ Reading.text \in Nat
    BY <1>1, AtEntry
  <2>2. CASE pc \in {"sep2", "next"}
    <3>1. Reading.file \in Nat
      BY <1>1, <2>2, AtEntry DEF FileStages
    <3> QED
      BY <2>1, <2>2, <3>1 DEF Place
  <2>3. CASE pc \notin {"sep2", "next"}
    <3> DEFINE b == Begins(Turn)
               t == Reading.text
    <3>1. Place \in {b + 2, b + 4, b + 6, b + 6 + t, b + 7 + t, b + 9 + t, b + 11 + t, b + 13 + t}
      BY <1>1, <2>3 DEF Place, EntryStages
    <3> QED
      BY <2>1, <3>1
  <2> QED
    BY <2>2, <2>3
<1>2. CASE pc \notin EntryStages
  <2>1. Len(shown) \in Nat
    BY DEF Typing
  <2> QED
    BY <1>2, <2>1 DEF Place, EntryStages, Typing, TypeOK, Stages
<1> QED
  BY <1>1, <1>2

(* The invariant outlives what the child does. *)
LEMMA ChildStep ==
  ASSUME RInv, Write \/ Close \/ Die
  PROVE  RInv'
<1>1. /\ Typing' /\ Making' /\ answer' = answer /\ UNCHANGED <<pc, left, held, entry, shown>>
      /\ whole \in Nat /\ whole' >= whole /\ child = "writes"
      /\ \A b \in Nat : Carries(b) => Carries(b)'
  BY ChildKeeps DEF RInv, client
<1>2. Typing /\ Following /\ ShownRight
  BY DEF RInv
<1>3. Turn' = Turn /\ Reading' = Reading /\ Expected' = Expected /\ FieldsRead' = FieldsRead
  BY <1>1 DEF Turn, Reading, Expected, FieldsRead
<1>4. ShownRight'
  BY <1>1, <1>2, <1>3 DEF ShownRight
<1>5. pc # "spins"
  BY <1>1, <1>2 DEF Following, SpinsOnlyInside
<1>6. pc # "done" => InPlace'
  <2>1. SUFFICES ASSUME pc # "done" PROVE InPlace'
    OBVIOUS
  <2>2. InPlace /\ Place \in Nat
    BY <1>1, <1>2, <1>5, <2>1, PlaceType DEF Following, Short
  <2>3. Place' = Place
    BY <1>1, <1>3 DEF Place, Begins
  <2>4. Carries(Place)'
    <3> DEFINE b == Place
    <3>1. b \in Nat /\ Carries(b)
      BY <2>2 DEF InPlace
    <3>2. PICK d \in Nat : d = Place
      BY <2>2
    <3>3. Carries(d) /\ d = Place'
      BY <2>3, <3>1, <3>2
    <3>4. Carries(d)'
      BY <1>1, <3>3
    <3> QED
      BY <3>3, <3>4 DEF Carries
  <2> QED
    BY <1>1, <1>3, <2>2, <2>4 DEF InPlace
<1>7. Following'
  BY <1>1, <1>2, <1>3, <1>5, <1>6 DEF Following, SpinsOnlyInside
<1> QED
  BY <1>1, <1>4, <1>7 DEF RInv

(***************************************************************************)
(* What a read takes from the wire.                                        *)
(***************************************************************************)

(* The child does not move. *)
ChildRests == UNCHANGED <<answer, part, whole, child>>

(* The wire keeps what it holds from its n-th token on. *)
KeepsFrom(n) == wire' = SubSeq(wire, n, Len(wire))

(* The token on the wire is the one that belongs to its place. *)
LEMMA OnPlace ==
  ASSUME Typing, NEW b \in Nat, Carries(b), NEW i \in 1..Len(wire),
         NEW k \in 0..Entries(answer), NEW j \in 1..Size(answer, k), Begins(k) + j = b + i
  PROVE  wire[i] = At(answer, k, j)
<1>1. answer \in Answers
  BY DEF Typing, TypeOK
<1>2. Stands(answer, b + i, wire[i])
  BY DEF Carries
<1>3. PICK l \in 0..Entries(answer) : \E m \in 1..Size(answer, l) :
             Layout(answer)[l] + m = b + i /\ wire[i] = At(answer, l, m)
  BY <1>2 DEF Stands
<1>4. PICK m \in 1..Size(answer, l) :
             Layout(answer)[l] + m = b + i /\ wire[i] = At(answer, l, m)
  BY <1>3
<1>5. k = l /\ j = m
  BY <1>1, <1>4, OneSection DEF Begins
<1> QED
  BY <1>4, <1>5

(* get_word_fd: where a word ends. *)
LEMMA WordEnds ==
  ASSUME wire \in Seq(Token)
  PROVE  /\ Len(wire) >= 2 /\ ~IsSeparator(wire[1]) /\ IsSeparator(wire[2]) =>
              WordLen = 1 /\ Word = <<wire[1]>>
         /\ Len(wire) = 0 => WordLen = 0 /\ Word = << >>
         /\ Len(wire) = 1 /\ ~IsSeparator(wire[1]) => WordLen = 1 /\ Word = <<wire[1]>>
         /\ Len(wire) >= 1 /\ IsSeparator(wire[1]) => WordLen = 0 /\ Word = << >>
<1> DEFINE seps == {i \in DOMAIN wire : IsSeparator(wire[i])}
<1>1. Len(wire) \in Nat /\ DOMAIN wire = 1..Len(wire)
  OBVIOUS
<1>2. WordLen = IF seps = {} THEN Len(wire) ELSE Min(seps) - 1
  BY DEF WordLen
<1>3. WordLen = 1 /\ Len(wire) >= 1 => Word = <<wire[1]>>
  <2>1. SUFFICES ASSUME WordLen = 1, Len(wire) >= 1 PROVE SubSeq(wire, 1, 1) = <<wire[1]>>
    BY DEF Word
  <2>2. wire[1] \in Token
    BY <1>1, <2>1
  <2>3. /\ SubSeq(wire, 1, 1) \in Seq(Token) /\ Len(SubSeq(wire, 1, 1)) = 1
        /\ SubSeq(wire, 1, 1)[1] = wire[1]
    BY <2>2, SubSeqProperties
  <2>4. <<wire[1]>> \in Seq(Token) /\ Len(<<wire[1]>>) = 1 /\ <<wire[1]>>[1] = wire[1]
    BY <2>2
  <2> DEFINE got == SubSeq(wire, 1, 1)
             one == <<wire[1]>>
  <2>5. /\ got \in Seq(Token) /\ one \in Seq(Token) /\ Len(got) = 1 /\ Len(one) = 1
        /\ got[1] = one[1]
    BY <2>3, <2>4
  <2> HIDE DEF got, one
  <2>6. Len(got) = Len(one) /\ \A i \in 1..Len(got) : got[i] = one[i]
    BY <2>5
  <2>7. got = one
    BY <2>5, <2>6, SeqEqual
  <2> QED
    BY <2>7 DEF got, one
<1>4. WordLen = 0 => Word = << >>
  BY SubSeqEmpty DEF Word
<1>5. ASSUME Len(wire) >= 2, ~IsSeparator(wire[1]), IsSeparator(wire[2])
      PROVE  WordLen = 1
  <2>1. 2 \in seps /\ \A i \in seps : 2 <= i
    BY <1>1, <1>5
  <2>2. Min(seps) = 2
    BY <1>1, <2>1 DEF Min
  <2> QED
    BY <1>2, <2>1, <2>2
<1>6. ASSUME Len(wire) = 1, ~IsSeparator(wire[1])
      PROVE  WordLen = 1
  <2>1. seps = {}
    BY <1>1, <1>6
  <2> QED
    BY <1>2, <1>6, <2>1
<1>7. ASSUME Len(wire) = 0 PROVE WordLen = 0
  <2>1. seps = {}
    BY <1>1, <1>7
  <2> QED
    BY <1>2, <1>7, <2>1
<1>8. ASSUME Len(wire) >= 1, IsSeparator(wire[1])
      PROVE  WordLen = 0
  <2>1. 1 \in seps /\ \A i \in seps : 1 <= i
    BY <1>1, <1>8
  <2>2. Min(seps) = 1
    BY <1>1, <2>1 DEF Min
  <2> QED
    BY <1>2, <2>1, <2>2
<1> HIDE DEF seps
<1> QED
  BY <1>1, <1>3, <1>4, <1>5, <1>6, <1>7, <1>8

(* The word at the end of the stream. *)
LEMMA LastWord ==
  ASSUME wire \in Seq(Token), Len(wire) < 2, NEW token, ~IsSeparator(token),
         Len(wire) >= 1 => wire[1] = token
  PROVE  /\ WordLen = Len(wire) /\ Len(wire) \in {0, 1} /\ Word \in {<< >>, <<token>>}
         /\ \A i \in DOMAIN wire : ~IsSeparator(wire[i])
<1>1. Len(wire) \in Nat /\ DOMAIN wire = 1..Len(wire)
  OBVIOUS
<1>2. CASE Len(wire) = 0
  BY <1>1, <1>2, WordEnds
<1>3. CASE Len(wire) = 1
  <2>1. wire[1] = token
    BY <1>3
  <2>2. WordLen = 1 /\ Word = <<token>>
    BY <1>3, <2>1, WordEnds
  <2> QED
    BY <1>1, <1>3, <2>1, <2>2
<1> QED
  BY <1>1, <1>2, <1>3

(* Some tokens are taken from the wire. *)
LEMMA Taken ==
  ASSUME Typing, NEW n \in 0..Len(wire), KeepsFrom(n + 1), ChildRests
  PROVE  /\ wire' \in Seq(Token) /\ Len(wire') = Len(wire) - n /\ Len(wire) \in Nat
         /\ \A b \in Nat : Carries(b) => Carries(b + n)'
<1>1. Len(wire) \in Nat /\ wire \in Seq(Token) /\ \A i \in 1..Len(wire) : wire[i] \in Token
  BY DEF Typing
<1>2. /\ wire' \in Seq(Token) /\ Len(wire') = Len(wire) - n
      /\ \A i \in 1..(Len(wire) - n) : wire'[i] = wire[n + i]
  <2>1. \A i \in (n + 1)..Len(wire) : wire[i] \in Token
    BY <1>1
  <2> DEFINE rest == SubSeq(wire, n + 1, Len(wire))
  <2>2. /\ rest \in Seq(Token)
        /\ Len(rest) = IF n + 1 <= Len(wire) THEN Len(wire) - (n + 1) + 1 ELSE 0
        /\ \A i \in 1..(Len(wire) - (n + 1) + 1) : rest[i] = wire[(n + 1) + i - 1]
    BY <1>1, <2>1, SubSeqProperties
  <2> HIDE DEF rest
  <2>3. rest = wire'
    BY DEF rest, KeepsFrom
  <2> QED
    BY <1>1, <2>2, <2>3
<1>3. Made' = Made
  BY DEF Made, Begins, Current, ChildRests
<1>4. ASSUME NEW b \in Nat, Carries(b) PROVE Carries(b + n)'
  <2>1. /\ b + Len(wire) <= Total(answer) /\ Made <= b + Len(wire)
        /\ child # "died" => b + Len(wire) = Made
        /\ \A i \in 1..Len(wire) : Stands(answer, b + i, wire[i])
    BY <1>4 DEF Carries
  <2>2. (b + n) + Len(wire') = b + Len(wire)
    BY <1>1, <1>2
  <2>3. ASSUME NEW i \in 1..Len(wire') PROVE Stands(answer, (b + n) + i, wire'[i])
    <3>1. n + i \in 1..Len(wire) /\ i \in 1..(Len(wire) - n) /\ b + (n + i) = (b + n) + i
      BY <1>1, <1>2
    <3> QED
      BY <1>2, <2>1, <3>1
  <2> QED
    BY <1>3, <2>1, <2>2, <2>3 DEF Carries, ChildRests
<1> QED
  BY <1>1, <1>2, <1>4

(* At the end of the stream there is nothing more to take. *)
LEMMA NothingTaken ==
  ASSUME Typing, NEW n \in Nat, n > Len(wire), KeepsFrom(n)
  PROVE  wire' = << >> /\ wire' \in Seq(Token)
<1>1. Len(wire) \in Nat
  BY DEF Typing
<1> QED
  BY <1>1, SubSeqEmpty DEF KeepsFrom

(* A word is read in its place, or the child died before its separator was *)
(* written.                                                                *)
LEMMA WordTaken ==
  ASSUME Typing, Making, NEW b \in Nat, Carries(b), NEW k \in 0..Entries(answer),
         NEW j \in 1..Size(answer, k), j + 1 \in 1..Size(answer, k), Begins(k) + j = b + 1,
         ~IsSeparator(At(answer, k, j)), IsSeparator(At(answer, k, j + 1)),
         WordReady, KeepsFrom(WordLen + 2), ChildRests
  PROVE  /\ wire' \in Seq(Token)
         /\ \/ Word = <<At(answer, k, j)>> /\ Carries(b + 2)'
            \/ /\ Word \in {<< >>, <<At(answer, k, j)>>} /\ wire' = << >>
               /\ child = "died" /\ Made <= b + 1
<1>1. Len(wire) \in Nat /\ wire \in Seq(Token) /\ answer \in Answers
  BY DEF Typing, TypeOK
<1>2. /\ Begins(k) \in Nat /\ Size(answer, k) \in Nat /\ Total(answer) \in Nat
      /\ Begins(k) + Size(answer, k) <= Total(answer)
  <2>1. /\ Begins(k) \in Nat /\ k + 1 \in 0..(Entries(answer) + 1)
        /\ Begins(k + 1) = Begins(k) + Size(answer, k) /\ Total(answer) \in Nat
    BY <1>1, LayoutLaws DEF Begins
  <2>2. Begins(k + 1) <= Total(answer)
    <3>1. Entries(answer) + 1 \in 0..(Entries(answer) + 1) /\ k + 1 <= Entries(answer) + 1
      BY <1>1, Listing
    <3> QED
      BY <1>1, <2>1, <3>1, LayoutLaws DEF Begins, Total
  <2> QED
    BY <1>1, <2>1, <2>2, Sizes
<1>3. b + 2 <= Total(answer)
  BY <1>2
<1>4. Len(wire) >= 1 => wire[1] = At(answer, k, j)
  BY <1>1, OnPlace
<1>5. Len(wire) >= 2 => wire[2] = At(answer, k, j + 1)
  <2>1. SUFFICES ASSUME Len(wire) >= 2 PROVE wire[2] = At(answer, k, j + 1)
    OBVIOUS
  <2>2. 2 \in 1..Len(wire) /\ Begins(k) + (j + 1) = b + 2
    BY <1>1, <1>2, <2>1
  <2> QED
    BY <2>2, OnPlace
<1>6. CASE Len(wire) >= 2
  <2>1. WordLen = 1 /\ Word = <<At(answer, k, j)>>
    BY <1>1, <1>4, <1>5, <1>6, WordEnds
  <2>2. KeepsFrom(2 + 1) /\ 2 \in 0..Len(wire)
    BY <1>1, <1>6, <2>1
  <2> QED
    BY <2>1, <2>2, Taken
<1>7. CASE Len(wire) < 2
  <2>1. Len(wire) \in {0, 1} /\ WordLen = Len(wire) /\ Word \in {<< >>, <<At(answer, k, j)>>}
    BY <1>1, <1>4, <1>7, LastWord
  <2>2. WordLen + 2 \in Nat /\ WordLen + 2 > Len(wire)
    BY <1>1, <2>1
  <2>3. wire' = << >> /\ wire' \in Seq(Token)
    BY <1>1, <2>2, NothingTaken
  <2>4. \A i \in DOMAIN wire : ~IsSeparator(wire[i])
    BY <1>1, <1>4, <1>7, LastWord
  <2>5. child # "writes"
    BY <2>4 DEF WordReady, AtEnd
  <2>6. child = "died"
    <3>1. SUFFICES ASSUME child = "closed" PROVE FALSE
      BY <2>5 DEF Typing, TypeOK
    <3>2. Made = Total(answer) /\ b + Len(wire) = Made
      BY <3>1 DEF Making, Made, Carries
    <3> QED
      BY <1>1, <1>2, <1>3, <1>7, <3>2
  <2>7. Made <= b + 1
    <3>1. Made <= b + Len(wire)
      BY DEF Carries
    <3>2. part # "exit" => Made \in Nat
      BY Fits DEF PieceFits
    <3>3. Made \in Nat
      BY <2>6, <3>2 DEF Making
    <3> QED
      BY <1>1, <2>1, <3>1, <3>3
  <2> QED
    BY <2>1, <2>3, <2>6, <2>7
<1> QED
  BY <1>1, <1>6, <1>7

(* A read of one byte. *)
LEMMA ByteTaken ==
  ASSUME Typing, Making, NEW b \in Nat, Carries(b), b + 1 <= Total(answer),
         AtEnd \/ wire # << >>, KeepsFrom(2), ChildRests
  PROVE  /\ wire' \in Seq(Token)
         /\ \/ Carries(b + 1)'
            \/ wire' = << >> /\ child = "died" /\ Made <= b
<1>1. Len(wire) \in Nat /\ wire \in Seq(Token) /\ answer \in Answers /\ Total(answer) \in Nat
  BY LayoutLaws DEF Typing, TypeOK
<1>2. CASE Len(wire) >= 1
  <2>1. KeepsFrom(1 + 1) /\ 1 \in 0..Len(wire)
    BY <1>1, <1>2
  <2> QED
    BY <2>1, Taken
<1>3. CASE Len(wire) = 0
  <2>1. wire' = << >> /\ wire' \in Seq(Token)
    BY <1>3, NothingTaken
  <2>2. wire = << >>
    BY <1>1, <1>3
  <2>3. child # "writes"
    BY <2>2 DEF AtEnd
  <2>4. child = "died"
    <3>1. SUFFICES ASSUME child = "closed" PROVE FALSE
      BY <2>3 DEF Typing, TypeOK
    <3>2. Made = Total(answer) /\ b + Len(wire) = Made
      BY <3>1 DEF Making, Made, Carries
    <3> QED
      BY <1>1, <1>3, <3>2
  <2>5. Made <= b
    BY <1>3 DEF Carries
  <2> QED
    BY <2>1, <2>4, <2>5
<1> QED
  BY <1>1, <1>2, <1>3

(* Behind the b tokens that the client has taken stands n times the same. *)
RunOf(token, n, b, k, j) ==
  /\ Carries(b) /\ Begins(k) + j = b /\ j + n <= Size(answer, k)
  /\ \A i \in 1..n : At(answer, k, j + i) = token

(* A read of n bytes, which are all the same token here. *)
LEMMA BytesTaken ==
  ASSUME Typing, Making, NEW token \in Token, NEW n \in Nat, NEW b \in Nat,
         NEW k \in 0..Entries(answer), NEW j \in Nat, RunOf(token, n, b, k, j)
  PROVE  /\ Len(wire) >= n =>
              /\ FirstOf(n) = [i \in 1..n |-> token]
              /\ KeepsFrom(n + 1) /\ ChildRests => Carries(b + n)'
         /\ AtEnd /\ Len(wire) < n => child = "died" /\ Made < b + n
<1>1. /\ Carries(b) /\ Begins(k) + j = b /\ j + n <= Size(answer, k)
      /\ \A i \in 1..n : At(answer, k, j + i) = token
  BY DEF RunOf
<1>2. Len(wire) \in Nat /\ wire \in Seq(Token) /\ answer \in Answers
  BY DEF Typing, TypeOK
<1>3. /\ Begins(k) \in Nat /\ Size(answer, k) \in Nat /\ Total(answer) \in Nat
      /\ Begins(k) + Size(answer, k) <= Total(answer)
  <2>1. /\ Begins(k) \in Nat /\ k + 1 \in 0..(Entries(answer) + 1)
        /\ Begins(k + 1) = Begins(k) + Size(answer, k) /\ Total(answer) \in Nat
    BY <1>2, LayoutLaws DEF Begins
  <2>2. Begins(k + 1) <= Total(answer)
    <3>1. Entries(answer) + 1 \in 0..(Entries(answer) + 1) /\ k + 1 <= Entries(answer) + 1
      BY <1>2, Listing
    <3> QED
      BY <1>2, <2>1, <3>1, LayoutLaws DEF Begins, Total
  <2> QED
    BY <1>2, <2>1, <2>2, Sizes
<1>4. ASSUME Len(wire) >= n
      PROVE  FirstOf(n) = [i \in 1..n |-> token]
  <2>1. Min({n, Len(wire)}) = n
    BY <1>2, <1>4 DEF Min
  <2>2. ASSUME NEW i \in 1..n PROVE wire[i] = token
    <3>1. i \in 1..Len(wire) /\ j + i \in 1..Size(answer, k) /\ Begins(k) + (j + i) = b + i
      BY <1>1, <1>2, <1>3, <1>4
    <3>2. wire[i] = At(answer, k, j + i)
      BY <1>1, <3>1, OnPlace
    <3> QED
      BY <1>1, <3>2
  <2> DEFINE got == SubSeq(wire, 1, n)
             all == [i \in 1..n |-> token]
  <2>3. /\ got \in Seq(Token) /\ Len(got) = n
        /\ \A i \in 1..n : got[i] = token
    <3>1. \A i \in 1..n : wire[i] \in Token
      BY <2>2
    <3>2. /\ got \in Seq(Token) /\ Len(got) = IF 1 <= n THEN n - 1 + 1 ELSE 0
          /\ \A i \in 1..(n - 1 + 1) : got[i] = wire[1 + i - 1]
      BY <3>1, SubSeqProperties
    <3> HIDE DEF got
    <3> QED
      BY <2>2, <3>2
  <2>4. all \in Seq(Token) /\ Len(all) = n /\ \A i \in 1..n : all[i] = token
    OBVIOUS
  <2>5. FirstOf(n) = got
    BY <2>1 DEF FirstOf
  <2> HIDE DEF got, all
  <2>6. got = all
    BY <2>3, <2>4, SeqEqual
  <2> QED
    BY <2>5, <2>6 DEF all
<1>5. ASSUME Len(wire) >= n, KeepsFrom(n + 1), ChildRests
      PROVE  Carries(b + n)'
  BY <1>1, <1>2, <1>5, Taken
<1>6. ASSUME AtEnd, Len(wire) < n
      PROVE  child = "died" /\ Made < b + n
  <2>1. child = "died"
    <3>1. SUFFICES ASSUME child = "closed" PROVE FALSE
      BY <1>6 DEF AtEnd, Typing, TypeOK
    <3>2. Made = Total(answer) /\ b + Len(wire) = Made
      BY <1>1, <3>1 DEF Making, Made, Carries
    <3> QED
      BY <1>1, <1>2, <1>3, <1>6, <3>2
  <2>2. Made <= b + Len(wire) /\ Made \in Nat
    BY <1>1, <2>1, Fits DEF PieceFits, Carries, Making
  <2> QED
    BY <1>2, <1>6, <2>1, <2>2
<1> QED
  BY <1>4, <1>5, <1>6

(***************************************************************************)
(* The client's steps.                                                     *)
(***************************************************************************)

(* The fields of an entry, and what belongs in them. *)
LEMMA EntryFields ==
  /\ Fields = {"mid", "uid", "text", "fname", "file"}
  /\ NoEntry \in [Fields -> Seq(Token)] /\ \A f \in Fields : NoEntry[f] = << >>
  /\ \A word \in Seq(Token) :
       /\ [NoEntry EXCEPT !.mid = word] \in [Fields -> Seq(Token)]
       /\ \A f \in Fields : [NoEntry EXCEPT !.mid = word][f] = IF f = "mid" THEN word ELSE << >>
       /\ [NoEntry EXCEPT !.uid = word] \in [Fields -> Seq(Token)]
       /\ \A f \in Fields : [NoEntry EXCEPT !.uid = word][f] = IF f = "uid" THEN word ELSE << >>
<1>1. << >> \in Seq(Token)
  OBVIOUS
<1>2. Fields = {"mid", "uid", "text", "fname", "file"}
  BY DEF Fields, NoEntry
<1>3. /\ NoEntry = [f \in Fields |-> << >>]
      /\ NoEntry \in [Fields -> Seq(Token)] /\ \A f \in Fields : NoEntry[f] = << >>
  <2>1. NoEntry = [f \in Fields |-> << >>]
    BY <1>2 DEF NoEntry
  <2> QED
    BY <1>1, <2>1
<1>4. ASSUME NEW word \in Seq(Token)
      PROVE  /\ [NoEntry EXCEPT !.mid = word] \in [Fields -> Seq(Token)]
             /\ \A f \in Fields : [NoEntry EXCEPT !.mid = word][f] = IF f = "mid" THEN word ELSE << >>
             /\ [NoEntry EXCEPT !.uid = word] \in [Fields -> Seq(Token)]
             /\ \A f \in Fields : [NoEntry EXCEPT !.uid = word][f] = IF f = "uid" THEN word ELSE << >>
  BY <1>2, <1>3, <1>4
<1> QED
  BY <1>2, <1>3, <1>4

(* A message as it is to be shown. *)
LEMMA WholeFields ==
  ASSUME NEW a \in Answers, NEW k \in 1..Entries(a)
  PROVE  LET m == a.list[k]
         IN  /\ Whole(k, m) \in [Fields -> Seq(Token)]
             /\ Whole(k, m)["mid"] = <<Tok("mid", k)>> /\ Whole(k, m)["uid"] = <<Tok("uid", k)>>
             /\ Whole(k, m)["text"] = Text(k, m.text)
             /\ HasFile(m) => /\ Whole(k, m)["fname"] = <<Tok("fname", k)>>
                              /\ Whole(k, m)["file"] = Data(k, m.file)
             /\ ~HasFile(m) => Whole(k, m)["fname"] = << >> /\ Whole(k, m)["file"] = << >>
<1> DEFINE m == a.list[k]
           txt == Text(k, m.text)
           dat == IF HasFile(m) THEN Data(k, m.file) ELSE << >>
           mid == <<Tok("mid", k)>>
           uid == <<Tok("uid", k)>>
           name == IF HasFile(m) THEN <<Tok("fname", k)>> ELSE << >>
           all == [mid |-> mid, uid |-> uid, text |-> txt, fname |-> name, file |-> dat]
<1>1. m.text \in Nat /\ (HasFile(m) => m.file \in Nat) /\ k \in Nat
  BY Message
<1>2. Tok("mid", k) \in Token /\ Tok("uid", k) \in Token /\ Tok("fname", k) \in Token
  BY <1>1, WordTokens DEF IsWord
<1>3. mid \in Seq(Token) /\ uid \in Seq(Token) /\ name \in Seq(Token)
  BY <1>2
<1>4. txt \in Seq(Token)
  BY <1>1, Bytes
<1>5. dat \in Seq(Token)
  <2>1. HasFile(m) => Data(k, m.file) \in Seq(Token)
    BY <1>1, Bytes
  <2>2. << >> \in Seq(Token)
    OBVIOUS
  <2> HIDE DEF m
  <2> QED
    BY <2>1, <2>2
<1>6. Whole(k, m) = all
  BY DEF Whole, HasFile
<1>7. /\ HasFile(m) => name = <<Tok("fname", k)>> /\ dat = Data(k, m.file)
      /\ ~HasFile(m) => name = << >> /\ dat = << >>
  OBVIOUS
<1>8. /\ all \in [Fields -> Seq(Token)] /\ all["mid"] = mid /\ all["uid"] = uid
      /\ all["text"] = txt /\ all["fname"] = name /\ all["file"] = dat
  <2> HIDE DEF mid, uid, txt, name, dat
  <2> QED
    BY <1>3, <1>4, <1>5, EntryFields
<1> HIDE DEF all, dat, name
<1> QED
  BY <1>6, <1>7, <1>8

(* What is to be shown. *)
LEMMA ExpectedIs ==
  ASSUME answer \in Answers
  PROVE  /\ Len(Expected) \in Nat /\ Len(Expected) <= MaxMessages + MaxUsers + 1
         /\ HasEntries(answer) =>
              /\ Len(Expected) = Entries(answer)
              /\ \A k \in 1..Entries(answer) : Expected[k] = Whole(k, answer.list[k])
         /\ answer.to = "ulist" /\ answer.status = "OK" =>
              /\ Len(Expected) = Len(answer.list) + 1
              /\ \A u \in 1..Len(answer.list) : Expected[u] = [NoEntry EXCEPT !.uid = <<Tok("uid", u)>>]
              /\ Expected[Len(answer.list) + 1] = NoEntry
<1> DEFINE n == Len(answer.list)
<1>1. /\ n \in Nat /\ DOMAIN answer.list = 1..n /\ MaxMessages \in Nat /\ MaxUsers \in Nat
      /\ answer.to = "retrieve" => n <= MaxMessages
      /\ answer.to = "ulist" => n <= MaxUsers
      /\ HasEntries(answer) => Entries(answer) = n
      /\ answer.to \in {"retrieve", "ulist"}
  BY Listing, StreamAssumption
<1>2. CASE answer.status # "OK"
  <2>1. Expected = << >> /\ Len(<< >>) = 0
    BY <1>2 DEF Expected
  <2> QED
    BY <1>1, <1>2, <2>1 DEF HasEntries
<1>3. CASE HasEntries(answer)
  <2>1. Expected = [k \in 1..n |-> Whole(k, answer.list[k])]
    BY <1>1, <1>3 DEF Expected, HasEntries
  <2>2. Len(Expected) = n /\ \A k \in 1..n : Expected[k] = Whole(k, answer.list[k])
    BY <1>1, <2>1
  <2> QED
    BY <1>1, <1>3, <2>2 DEF HasEntries
<1>4. CASE answer.to = "ulist" /\ answer.status = "OK"
  <2> DEFINE users == [u \in 1..n |-> [NoEntry EXCEPT !.uid = <<Tok("uid", u)>>]]
             S == [Fields -> Seq(Token)]
  <2>1. Expected = Append(users, NoEntry)
    BY <1>1, <1>4 DEF Expected
  <2>2. NoEntry \in S
    BY EntryFields
  <2>3. users \in Seq(S) /\ Len(users) = n
    <3>1. ASSUME NEW u \in 1..n PROVE [NoEntry EXCEPT !.uid = <<Tok("uid", u)>>] \in S
      <4>1. <<Tok("uid", u)>> \in Seq(Token)
        BY WordTokens DEF IsWord
      <4> QED
        BY <4>1, EntryFields
    <3>2. users \in [1..n -> S]
      BY <3>1
    <3> HIDE DEF users, S
    <3>3. n \in Nat
      BY <1>1
    <3> QED
      BY <3>2, <3>3
  <2>4. \A u \in 1..n : users[u] = [NoEntry EXCEPT !.uid = <<Tok("uid", u)>>]
    OBVIOUS
  <2> HIDE DEF users, S
  <2>5. /\ Len(Expected) = n + 1 /\ \A u \in 1..n : Expected[u] = users[u]
        /\ Expected[n + 1] = NoEntry
    BY <2>1, <2>2, <2>3, AppendProperties
  <2> QED
    BY <1>1, <1>4, <2>4, <2>5 DEF HasEntries
<1> QED
  BY <1>1, <1>2, <1>3, <1>4 DEF HasEntries

(* What the child has and what is to be shown do not change while it rests. *)
LEMMA Rests ==
  ASSUME RInv, ChildRests
  PROVE  /\ Making' /\ Expected' = Expected /\ Made' = Made
         /\ answer' = answer /\ part' = part /\ whole' = whole /\ child' = child
         /\ Typing /\ Making /\ Following /\ ShownRight
         /\ answer \in Answers /\ whole \in Nat
         /\ shown' = shown => ShownRight'
<1>1. answer' = answer /\ part' = part /\ whole' = whole /\ child' = child
  BY DEF ChildRests
<1>2. Typing /\ Making /\ Following /\ ShownRight
  BY DEF RInv
<1>3. answer \in Answers /\ whole \in Nat
  BY <1>2 DEF Typing, TypeOK
<1>4. Expected' = Expected /\ Made' = Made /\ Making'
  BY <1>1, <1>2 DEF Expected, Made, Begins, Current, Making
<1>5. shown' = shown => ShownRight'
  BY <1>1, <1>2, <1>4 DEF ShownRight
<1> QED
  BY <1>1, <1>2, <1>3, <1>4, <1>5

(* An entry of which the child has not written the end is not whole. *)
LEMMA NotWhole ==
  ASSUME Typing, Making, child = "died", NEW k \in 1..Entries(answer),
         Made < Begins(k + 1) - 1
  PROVE  whole < k
<1>1. /\ answer \in Answers /\ whole \in Nat /\ whole \in 0..Entries(answer)
      /\ Begins(whole) \in Nat /\ Begins(whole + 1) = Begins(whole) + Size(answer, whole)
      /\ Size(answer, whole) \in Nat
  BY Around
<1>2. Entries(answer) \in Nat
  BY <1>1, Listing
<1>3. part # "exit" /\ whole # 0 => part # "first"
  BY DEF Making
<1>4. SUFFICES ASSUME whole >= k PROVE FALSE
  BY <1>1
<1>5. /\ k + 1 \in 0..(Entries(answer) + 1) /\ whole + 1 \in 0..(Entries(answer) + 1)
      /\ k + 1 <= whole + 1 /\ whole # 0
  BY <1>1, <1>2, <1>4
<1>6. Begins(k + 1) <= Begins(whole + 1) /\ Begins(k + 1) \in Nat /\ Begins(whole + 1) \in Nat
  BY <1>1, <1>5, LayoutLaws DEF Begins
<1>7. part \in {"head", "newline", "text", "data"}
  BY <1>5 DEF Making, Typing, TypeOK, Parts
<1>8. CASE part \in {"head", "newline"}
  <2>1. Made = Begins(whole + 1) - 1
    BY <1>8 DEF Made
  <2> QED
    BY <1>6, <2>1
<1>9. CASE part = "text"
  <2>1. Made = Begins(whole + 1) + 6
    BY <1>9 DEF Made
  <2> QED
    BY <1>6, <2>1
<1>10. CASE part = "data"
  <2>1. Made = Begins(whole + 1) + 13 + Current.text
    BY <1>10 DEF Made
  <2>2. Current.text \in Nat
    BY <1>1, <1>2, <1>10, Around, Listing DEF Making
  <2> QED
    BY <1>6, <2>1, <2>2
<1> QED
  BY <1>7, <1>8, <1>9, <1>10

(* One more entry or line is shown. *)
LEMMA ShowsMore ==
  ASSUME RInv, ChildRests, NEW x \in [Fields -> Seq(Token)], shown' = Append(shown, x),
         Len(shown) < Len(Expected),
         \A f \in Fields : x[f] \in {<< >>, Expected[Len(shown) + 1][f]},
         (Len(shown) + 1 <= whole \/ child # "died") => x = Expected[Len(shown) + 1]
  PROVE  /\ ShownRight' /\ shown' \in Seq([Fields -> Seq(Token)])
         /\ Len(shown') = Len(shown) + 1 /\ Len(shown) \in Nat
         /\ Len(shown') <= MaxMessages + MaxUsers + 1
<1> DEFINE S == [Fields -> Seq(Token)]
<1>1. /\ Expected' = Expected /\ whole' = whole /\ child' = child /\ ShownRight /\ Typing
      /\ answer \in Answers
  BY Rests
<1>2. shown \in Seq(S) /\ Len(shown) \in Nat
  BY <1>1 DEF Typing
<1>3. Len(Expected) \in Nat /\ Len(Expected) <= MaxMessages + MaxUsers + 1
      /\ MaxMessages + MaxUsers + 1 \in Nat
  BY <1>1, ExpectedIs, StreamAssumption
<1>4. /\ shown' \in Seq(S) /\ Len(shown') = Len(shown) + 1
      /\ \A i \in 1..Len(shown) : shown'[i] = shown[i]
      /\ shown'[Len(shown) + 1] = x
  <2> HIDE DEF S
  <2>1. x \in S
    BY DEF S
  <2> QED
    BY <1>2, <2>1, AppendProperties
<1>5. Len(shown') <= Len(Expected)
  BY <1>2, <1>3, <1>4
<1>6. ASSUME NEW k \in 1..Len(shown')
      PROVE  /\ k <= whole \/ child # "died" => shown'[k] = Expected[k]
             /\ \A f \in Fields : shown'[k][f] \in {<< >>, Expected[k][f]}
  <2>1. CASE k \in 1..Len(shown)
    BY <1>1, <1>4, <2>1 DEF ShownRight
  <2>2. CASE k = Len(shown) + 1
    BY <1>4, <2>2
  <2> QED
    BY <1>2, <1>4, <2>1, <2>2
<1> QED
  BY <1>1, <1>2, <1>3, <1>4, <1>5, <1>6 DEF ShownRight

(* The child died before it had written the first entry. *)
LEMMA Early ==
  ASSUME Typing, Making, child = "died", Made <= Begins(1)
  PROVE  whole = 0
<1>1. /\ answer \in Answers /\ whole \in Nat /\ whole \in 0..Entries(answer)
  BY Around
<1>2. Entries(answer) \in Nat
  BY <1>1, Listing
<1>3. SUFFICES ASSUME whole # 0 PROVE FALSE
  OBVIOUS
<1>4. 1 \in 1..Entries(answer) /\ ~(whole < 1)
  BY <1>1, <1>2, <1>3
<1>5. Begins(1) \in Nat /\ Begins(2) = Begins(1) + Size(answer, 1)
  <2>1. 1 \in 0..Entries(answer) /\ 1 + 1 = 2
    BY <1>4, <1>2
  <2> QED
    BY <1>1, <2>1, LayoutLaws DEF Begins
<1>6. Size(answer, 1) \in Nat /\ Size(answer, 1) >= 7
  <2>1. answer.list[1].text \in Nat /\ (HasFile(answer.list[1]) => answer.list[1].file \in Nat)
    BY <1>1, <1>4, Message
  <2> QED
    BY <2>1 DEF Size
<1>7. Made \in Nat
  BY Fits DEF PieceFits, Making
<1>8. Made < Begins(1 + 1) - 1
  BY <1>5, <1>6, <1>7
<1> QED
  BY <1>4, <1>8, NotWhole

(* Where the client is at each of its stages. *)
LEMMA Places ==
  /\ pc = "verb" => Place = 0
  /\ pc = "status" => Place = 2
  /\ pc \in {"count", "name"} => Place = 4
  /\ pc = "ahead" => Place = 6
  /\ pc = "user" => Place = 6 + 2 * Len(shown)
  /\ pc = "uid" => Place = Begins(Turn) + 2
  /\ pc = "size" => Place = Begins(Turn) + 4
  /\ pc = "text" => Place = Begins(Turn) + 6
  /\ pc = "sep" => Place = Begins(Turn) + 6 + Reading.text
  /\ pc = "slash" => Place = Begins(Turn) + 7 + Reading.text
  /\ pc = "fname" => Place = Begins(Turn) + 9 + Reading.text
  /\ pc = "fsize" => Place = Begins(Turn) + 11 + Reading.text
  /\ pc = "data" => Place = Begins(Turn) + 13 + Reading.text
  /\ pc = "sep2" => Place = Begins(Turn) + 13 + Reading.text + Reading.file
  /\ pc = "next" => Place = Begins(Turn) + 14 + Reading.text + Reading.file
  BY DEF Place

(* Where it is after a step that shows nothing. *)
LEMMA PlacesAfter ==
  ASSUME answer' = answer, shown' = shown
  PROVE  /\ Turn' = Turn /\ Reading' = Reading
         /\ pc' = "status" => Place' = 2
         /\ pc' \in {"count", "name"} => Place' = 4
         /\ pc' = "ahead" => Place' = 6
         /\ pc' = "user" => Place' = 6 + 2 * Len(shown)
         /\ pc' = "uid" => Place' = Begins(Turn) + 2
         /\ pc' = "size" => Place' = Begins(Turn) + 4
         /\ pc' = "text" => Place' = Begins(Turn) + 6
         /\ pc' = "sep" => Place' = Begins(Turn) + 6 + Reading.text
         /\ pc' = "slash" => Place' = Begins(Turn) + 7 + Reading.text
         /\ pc' = "fname" => Place' = Begins(Turn) + 9 + Reading.text
         /\ pc' = "fsize" => Place' = Begins(Turn) + 11 + Reading.text
         /\ pc' = "data" => Place' = Begins(Turn) + 13 + Reading.text
         /\ pc' = "sep2" => Place' = Begins(Turn) + 13 + Reading.text + Reading.file
         /\ pc' = "next" => Place' = Begins(Turn) + 14 + Reading.text + Reading.file
<1>1. Turn' = Turn /\ Reading' = Reading /\ Begins(Turn)' = Begins(Turn)
  BY DEF Turn, Reading, Begins
<1> QED
  BY <1>1 DEF Place

(* A client that finds the wire empty reads an empty word. *)
LEMMA DryWord ==
  ASSUME wire = << >>, KeepsFrom(WordLen + 2)
  PROVE  Word = << >> /\ wire' = << >> /\ wire' \in Seq(Token)
<1>1. wire \in Seq(Token) /\ Len(wire) = 0
  OBVIOUS
<1>2. WordLen = 0 /\ Word = << >>
  BY <1>1, WordEnds
<1>3. KeepsFrom(2)
  BY <1>2
<1>4. wire' = << >>
  BY <1>1, <1>3, SubSeqEmpty DEF KeepsFrom
<1> QED
  BY <1>2, <1>4

(* A step from one stage of an entry to another. *)
LEMMA SameTurn ==
  ASSUME RInv, ChildRests, pc \in EntryStages, pc' \in EntryStages,
         shown' = shown, left' = left, pc' \in FileStages => HasFile(Reading),
         wire' \in Seq(Token), held' \in Seq(Token), entry' \in [Fields -> Seq(Token)],
         InPlace' \/ Short'
  PROVE  RInv'
<1>1. /\ Making' /\ Expected' = Expected /\ answer' = answer /\ part' = part
      /\ whole' = whole /\ child' = child /\ Typing /\ Following /\ ShownRight'
  BY Rests
<1>2. Turn' = Turn /\ Reading' = Reading
  BY <1>1 DEF Turn, Reading
<1>3. Typing'
  <2>1. TypeOK'
    <3>1. pc' \in Stages
      BY DEF EntryStages, Stages
    <3>2. DOMAIN entry' = DOMAIN NoEntry
      BY DEF Fields
    <3> QED
      BY <1>1, <3>1, <3>2 DEF Typing, TypeOK
  <2> QED
    BY <1>1, <2>1 DEF Typing, Fields, NoEntry
<1>4. Following'
  <2>1. HasEntries(answer) /\ Len(shown) < Entries(answer) /\ left = Entries(answer) - Len(shown)
    BY <1>1 DEF Following
  <2> QED
    BY <1>1, <1>2, <2>1 DEF Following, SpinsOnlyInside, EntryStages, EarlyStages
<1> QED
  BY <1>1, <1>3, <1>4 DEF RInv

(* What the client has read of an entry is right or missing. *)
LEMMA PartlyRead ==
  ASSUME RInv, pc \in EntryStages
  PROVE  /\ \A f \in Fields : entry[f] \in {<< >>, Whole(Turn, Reading)[f]}
         /\ InPlace \/ Short
<1>1. InPlace \/ Short
  BY DEF RInv, Following, EntryStages
<1> QED
  BY <1>1 DEF InPlace, Short

(* The client reads a word within an entry, and misses none of it unless   *)
(* the child died before the entry was whole.                              *)
LEMMA EntryWord ==
  ASSUME RInv, pc \in EntryStages, InPlace \/ whole < Turn, NEW token, NEW j \in 1..Size(answer, Turn),
         NEW b \in Nat, b = Place, Begins(Turn) + j = b + 1, j + 1 < Size(answer, Turn),
         At(answer, Turn, j) = token, ~IsSeparator(token), IsSeparator(At(answer, Turn, j + 1)),
         WordReady, KeepsFrom(WordLen + 2), ChildRests
  PROVE  /\ wire' \in Seq(Token)
         /\ \/ InPlace /\ Word = <<token>> /\ Carries(b + 2)'
            \/ /\ Word \in {<< >>, <<token>>} /\ wire' = << >>
               /\ child = "died" /\ whole < Turn
<1>1. Typing /\ Making /\ Following
  BY DEF RInv
<1>2. /\ Turn \in 1..Entries(answer) /\ Turn \in 0..Entries(answer) /\ Begins(Turn) \in Nat
      /\ Begins(Turn + 1) = Begins(Turn) + Size(answer, Turn)
      /\ Size(answer, Turn) \in Nat /\ answer \in Answers
  BY <1>1, AtEntry, Sizes
<1>3. InPlace \/ Short
  BY PartlyRead
<1>4. CASE InPlace
  <2>1. Carries(b) /\ j + 1 \in 1..Size(answer, Turn) /\ Begins(Turn) + j = b + 1
    BY <1>2, <1>4 DEF InPlace
  <2>2. /\ wire' \in Seq(Token)
        /\ \/ Word = <<token>> /\ Carries(b + 2)'
           \/ /\ Word \in {<< >>, <<token>>} /\ wire' = << >>
              /\ child = "died" /\ Made <= b + 1
    BY <1>1, <1>2, <2>1, WordTaken
  <2>3. CASE Word = <<token>> /\ Carries(b + 2)'
    BY <1>4, <2>2, <2>3
  <2>4. CASE Word \in {<< >>, <<token>>} /\ wire' = << >> /\ child = "died" /\ Made <= b + 1
    <3>1. Made \in Nat
      BY <1>1, <2>4, Fits DEF PieceFits, Making
    <3>2. Made < Begins(Turn + 1) - 1
      BY <1>2, <2>1, <2>4, <3>1
    <3> QED
      BY <1>1, <1>2, <2>2, <2>4, <3>2, NotWhole
  <2> QED
    BY <2>2, <2>3, <2>4
<1>5. CASE Short /\ whole < Turn
  <2>1. wire = << >> /\ child = "died"
    BY <1>5 DEF Short
  <2> QED
    BY <1>5, <2>1, DryWord
<1> QED
  BY <1>3, <1>4, <1>5

(* It is in its place behind the step, *)
LEMMA GetsOn ==
  ASSUME ChildRests, shown' = shown, pc' \in EntryStages,
         NEW b \in Nat, b = Place', Carries(b)',
         \A f \in Fields : entry'[f] = IF f \in FieldsRead' THEN Whole(Turn, Reading)[f] ELSE << >>,
         pc' = "text" => held' = <<Tok("size", Reading.text)>>,
         pc' = "data" => held' = <<Tok("size", Reading.file)>>
  PROVE  InPlace'
<1>1. Turn' = Turn /\ Reading' = Reading
  BY PlacesAfter DEF ChildRests
<1>2. Carries(Place)'
  BY DEF Carries
<1>3. \A f \in Fields' :
        entry'[f] = IF f \in FieldsRead' THEN Whole(Turn', Reading')[f] ELSE << >>
  BY <1>1 DEF Fields, NoEntry
<1> QED
  BY <1>1, <1>2, <1>3 DEF InPlace, EntryStages

(* or has read all there was of an entry that is not whole. *)
LEMMA RunsDry ==
  ASSUME ChildRests, shown' = shown, pc' \in EntryStages, child = "died", wire' = << >>,
         \A f \in Fields : entry'[f] \in {<< >>, Whole(Turn, Reading)[f]},
         whole <= Turn,
         whole = Turn => /\ pc' \in {"sep", "slash", "sep2", "next"}
                         /\ \A f \in Fields : entry'[f] = Whole(Turn, Reading)[f],
         pc' = "text" => held' \in {<< >>, <<Tok("size", Reading.text)>>},
         pc' = "data" => held' \in {<< >>, <<Tok("size", Reading.file)>>}
  PROVE  Short'
<1>1. Turn' = Turn /\ Reading' = Reading
  BY PlacesAfter DEF ChildRests
<1>2. \A f \in Fields' : entry'[f] \in {<< >>, Whole(Turn', Reading')[f]}
  BY <1>1 DEF Fields, NoEntry
<1>3. whole' = Turn' => /\ pc' \in {"sep", "slash", "sep2", "next"}
                        /\ \A f \in Fields' : entry'[f] = Whole(Turn', Reading')[f]
  BY <1>1 DEF ChildRests, Fields, NoEntry
<1>4. whole' <= Turn' /\ child' = "died" /\ pc' # "ahead"
  BY <1>1 DEF ChildRests, EntryStages
<1> QED
  BY <1>1, <1>2, <1>3, <1>4 DEF Short

(* A field of the entry is filled. *)
LEMMA Filled ==
  ASSUME Typing, NEW word \in Seq(Token)
  PROVE  /\ [entry EXCEPT !.uid = word] \in [Fields -> Seq(Token)]
         /\ \A f \in Fields : [entry EXCEPT !.uid = word][f] = IF f = "uid" THEN word ELSE entry[f]
         /\ [entry EXCEPT !.text = word] \in [Fields -> Seq(Token)]
         /\ \A f \in Fields : [entry EXCEPT !.text = word][f] = IF f = "text" THEN word ELSE entry[f]
         /\ [entry EXCEPT !.fname = word] \in [Fields -> Seq(Token)]
         /\ \A f \in Fields : [entry EXCEPT !.fname = word][f] = IF f = "fname" THEN word ELSE entry[f]
         /\ [entry EXCEPT !.file = word] \in [Fields -> Seq(Token)]
         /\ \A f \in Fields : [entry EXCEPT !.file = word][f] = IF f = "file" THEN word ELSE entry[f]
  BY EntryFields DEF Typing

(* What stands in the entry that the client reads, and what it is to show. *)
LEMMA AtTurn ==
  ASSUME Typing, Following, pc \in EntryStages
  PROVE  LET t == Reading.text
             f == Reading.file
         IN  /\ At(answer, Turn, 3) = Tok("uid", Turn) /\ At(answer, Turn, 4) = SP
             /\ At(answer, Turn, 5) = Tok("size", t) /\ At(answer, Turn, 6) = SP
             /\ \A i \in 1..t : At(answer, Turn, 6 + i) = Tok("text", Turn)
             /\ HasFile(Reading) =>
                  /\ At(answer, Turn, 8 + t) = Tok("/", 0) /\ At(answer, Turn, 9 + t) = SP
                  /\ At(answer, Turn, 10 + t) = Tok("fname", Turn) /\ At(answer, Turn, 11 + t) = SP
                  /\ At(answer, Turn, 12 + t) = Tok("size", f) /\ At(answer, Turn, 13 + t) = SP
                  /\ \A i \in 1..f : At(answer, Turn, 13 + t + i) = Tok("data", Turn)
             /\ Whole(Turn, Reading) \in [Fields -> Seq(Token)]
             /\ Whole(Turn, Reading)["uid"] = <<Tok("uid", Turn)>>
             /\ Whole(Turn, Reading)["text"] = Text(Turn, t)
             /\ HasFile(Reading) => /\ Whole(Turn, Reading)["fname"] = <<Tok("fname", Turn)>>
                                    /\ Whole(Turn, Reading)["file"] = Data(Turn, f)
             /\ ~HasFile(Reading) => /\ Whole(Turn, Reading)["fname"] = << >>
                                     /\ Whole(Turn, Reading)["file"] = << >>
<1>1. Turn \in 1..Entries(answer) /\ answer \in Answers /\ Reading.text \in Nat
  BY AtEntry
<1>2. \A i \in 1..Reading.text : At(answer, Turn, 6 + i) = Tok("text", Turn)
  <2>1. \A j \in 7..(6 + Reading.text) : At(answer, Turn, j) = Tok("text", Turn)
    BY <1>1, EntryPieces DEF Reading
  <2>2. \A i \in 1..Reading.text : 6 + i \in 7..(6 + Reading.text)
    BY <1>1
  <2> QED
    BY <2>1, <2>2
<1>3. HasFile(Reading) => \A i \in 1..Reading.file : At(answer, Turn, 13 + Reading.text + i) = Tok("data", Turn)
  BY <1>1, EntryPieces DEF Reading
<1>4. /\ At(answer, Turn, 3) = Tok("uid", Turn) /\ At(answer, Turn, 4) = SP
      /\ At(answer, Turn, 5) = Tok("size", Reading.text) /\ At(answer, Turn, 6) = SP
      /\ HasFile(Reading) =>
           /\ At(answer, Turn, 8 + Reading.text) = Tok("/", 0)
           /\ At(answer, Turn, 9 + Reading.text) = SP
           /\ At(answer, Turn, 10 + Reading.text) = Tok("fname", Turn)
           /\ At(answer, Turn, 11 + Reading.text) = SP
           /\ At(answer, Turn, 12 + Reading.text) = Tok("size", Reading.file)
           /\ At(answer, Turn, 13 + Reading.text) = SP
  BY <1>1, EntryTokens DEF Reading
<1> QED
  BY <1>1, <1>2, <1>3, <1>4, WholeFields DEF Reading

(* How long it is. *)
LEMMA TurnSize ==
  ASSUME Typing, Following, pc \in EntryStages
  PROVE  /\ Turn \in Nat /\ Begins(Turn) \in Nat /\ Place \in Nat
         /\ Reading.text \in Nat /\ Size(answer, Turn) \in Nat
         /\ Size(answer, Turn) >= 7 + Reading.text
         /\ ~HasFile(Reading) => Size(answer, Turn) = 7 + Reading.text
         /\ HasFile(Reading) =>
              Reading.file \in Nat /\ Size(answer, Turn) = 14 + Reading.text + Reading.file
<1>1. /\ Turn \in Nat /\ Begins(Turn) \in Nat /\ Place \in Nat
      /\ Reading.text \in Nat /\ (HasFile(Reading) => Reading.file \in Nat)
      /\ Size(answer, Turn) = IF HasFile(Reading) THEN 14 + Reading.text + Reading.file
                              ELSE 7 + Reading.text
  BY AtEntry, PlaceType DEF EntryStages
<1> QED
  BY <1>1

(* The author of a message. *)
LEMMA UidStep ==
  ASSUME RInv, ReadUid
  PROVE  RInv'
<1>1. /\ pc = "uid" /\ WordReady /\ KeepsFrom(WordLen + 2) /\ pc' = "size" /\ ChildRests
      /\ entry' = [entry EXCEPT !.uid = Word] /\ left' = left /\ held' = held /\ shown' = shown
  BY DEF ReadUid, Reads, KeepsFrom, ChildRests
<1>2. /\ Typing /\ Following /\ held \in Seq(Token) /\ whole' = whole /\ child' = child
      /\ answer' = answer
  BY <1>1 DEF RInv, Typing, ChildRests
<1>3. pc \in EntryStages /\ pc' \in EntryStages /\ pc' \notin FileStages
  BY <1>1 DEF EntryStages, FileStages
<1>4. Place = Begins(Turn) + 2
  BY <1>1, Places
<1>5. InPlace \/ whole < Turn
  BY <1>1, <1>2, <1>3, PartlyRead, TurnSize DEF Short, Typing, TypeOK
<1>6. PICK b \in Nat : b = Place
  BY <1>2, <1>3, TurnSize
<1> DEFINE token == Tok("uid", Turn)
<1>7. ~IsSeparator(token) /\ token \in Token /\ <<token>> \in Seq(Token) /\ << >> \in Seq(Token)
  <2>1. token \in Token /\ ~IsSeparator(token)
    BY <1>2, <1>3, TurnSize, WordTokens DEF IsWord
  <2> QED
    BY <2>1
<1>8. /\ 3 \in 1..Size(answer, Turn) /\ 3 + 1 < Size(answer, Turn)
      /\ Begins(Turn) + 3 = b + 1 /\ b + 2 = Begins(Turn) + 4
  BY <1>2, <1>3, <1>4, <1>6, TurnSize
<1>9. At(answer, Turn, 3) = token /\ IsSeparator(At(answer, Turn, 3 + 1))
  BY <1>2, <1>3, AtTurn, Tokens
<1> HIDE DEF token
<1>10. /\ wire' \in Seq(Token)
       /\ \/ InPlace /\ Word = <<token>> /\ Carries(b + 2)'
          \/ /\ Word \in {<< >>, <<token>>} /\ wire' = << >>
             /\ child = "died" /\ whole < Turn
  BY <1>1, <1>3, <1>5, <1>6, <1>7, <1>8, <1>9, EntryWord
<1>11. Word \in Seq(Token)
  BY <1>7, <1>10
<1>12. /\ entry' \in [Fields -> Seq(Token)]
       /\ \A f \in Fields : entry'[f] = IF f = "uid" THEN Word ELSE entry[f]
  BY <1>1, <1>2, <1>11, Filled
<1>13. b + 2 \in Nat /\ b + 2 = Place'
  BY <1>1, <1>2, <1>6, <1>8, PlacesAfter
<1>14. CASE InPlace /\ Word = <<token>> /\ Carries(b + 2)'
  <2>1. \A f \in Fields : entry'[f] = IF f \in FieldsRead' THEN Whole(Turn, Reading)[f] ELSE << >>
    <3>1. FieldsRead = {"mid"} /\ FieldsRead' = {"mid", "uid"}
      BY <1>1 DEF FieldsRead
    <3>2. \A f \in Fields : entry[f] = IF f \in FieldsRead THEN Whole(Turn, Reading)[f] ELSE << >>
      BY <1>3, <1>14 DEF InPlace
    <3>3. Word = Whole(Turn, Reading)["uid"]
      BY <1>2, <1>3, <1>14, AtTurn DEF token
    <3> QED
      BY <1>12, <3>1, <3>2, <3>3
  <2>2. InPlace'
    BY <1>1, <1>3, <1>13, <1>14, <2>1, GetsOn
  <2> QED
    BY <1>1, <1>2, <1>3, <1>10, <1>12, <2>2, SameTurn
<1>15. CASE /\ Word \in {<< >>, <<token>>} /\ wire' = << >>
            /\ child = "died" /\ whole < Turn
  <2>1. \A f \in Fields : entry'[f] \in {<< >>, Whole(Turn, Reading)[f]}
    <3>1. <<token>> = Whole(Turn, Reading)["uid"]
      BY <1>2, <1>3, AtTurn DEF token
    <3> QED
      BY <1>3, <1>12, <1>15, <3>1, PartlyRead
  <2>2. whole <= Turn /\ whole # Turn
    BY <1>2, <1>3, <1>15, TurnSize DEF Typing, TypeOK
  <2>3. Short'
    BY <1>1, <1>3, <1>15, <2>1, <2>2, RunsDry
  <2> QED
    BY <1>1, <1>2, <1>3, <1>10, <1>12, <2>3, SameTurn
<1> QED
  BY <1>10, <1>14, <1>15

(* The size of a text. *)
LEMMA SizeStep ==
  ASSUME RInv, ReadSize
  PROVE  RInv'
<1>1. /\ pc = "size" /\ WordReady /\ KeepsFrom(WordLen + 2) /\ pc' = "text" /\ ChildRests
      /\ entry' = entry /\ left' = left /\ held' = Word /\ shown' = shown
  BY DEF ReadSize, Reads, KeepsFrom, ChildRests
<1>2. /\ Typing /\ Following /\ whole' = whole /\ child' = child
      /\ answer' = answer
  BY <1>1 DEF RInv, Typing, ChildRests
<1>3. pc \in EntryStages /\ pc' \in EntryStages /\ pc' \notin FileStages
  BY <1>1 DEF EntryStages, FileStages
<1>4. Place = Begins(Turn) + 4
  BY <1>1, Places
<1>5. InPlace \/ whole < Turn
  BY <1>1, <1>2, <1>3, PartlyRead, TurnSize DEF Short, Typing, TypeOK
<1>6. PICK b \in Nat : b = Place
  BY <1>2, <1>3, TurnSize
<1> DEFINE token == Tok("size", Reading.text)
<1>7. ~IsSeparator(token) /\ token \in Token /\ <<token>> \in Seq(Token) /\ << >> \in Seq(Token)
  <2>1. token \in Token /\ ~IsSeparator(token)
    BY <1>2, <1>3, TurnSize, WordTokens DEF IsWord
  <2> QED
    BY <2>1
<1>8. /\ 5 \in 1..Size(answer, Turn) /\ 5 + 1 < Size(answer, Turn)
      /\ Begins(Turn) + 5 = b + 1 /\ b + 2 = Begins(Turn) + 6
  BY <1>2, <1>3, <1>4, <1>6, TurnSize
<1>9. At(answer, Turn, 5) = token /\ IsSeparator(At(answer, Turn, 5 + 1))
  BY <1>2, <1>3, AtTurn, Tokens
<1> HIDE DEF token
<1>10. /\ wire' \in Seq(Token)
       /\ \/ InPlace /\ Word = <<token>> /\ Carries(b + 2)'
          \/ /\ Word \in {<< >>, <<token>>} /\ wire' = << >>
             /\ child = "died" /\ whole < Turn
  BY <1>1, <1>3, <1>5, <1>6, <1>7, <1>8, <1>9, EntryWord
<1>11. Word \in Seq(Token)
  BY <1>7, <1>10
<1>12. entry' \in [Fields -> Seq(Token)] /\ held' \in Seq(Token)
  BY <1>1, <1>2, <1>11 DEF Typing
<1>13. b + 2 \in Nat /\ b + 2 = Place'
  BY <1>1, <1>2, <1>6, <1>8, PlacesAfter
<1>14. CASE InPlace /\ Word = <<token>> /\ Carries(b + 2)'
  <2>1. \A f \in Fields : entry'[f] = IF f \in FieldsRead' THEN Whole(Turn, Reading)[f] ELSE << >>
    <3>1. FieldsRead' = FieldsRead
      BY <1>1 DEF FieldsRead
    <3>2. \A f \in Fields : entry[f] = IF f \in FieldsRead THEN Whole(Turn, Reading)[f] ELSE << >>
      BY <1>3, <1>14 DEF InPlace
    <3> QED
      BY <1>1, <3>1, <3>2
  <2>2. InPlace'
    BY <1>1, <1>3, <1>13, <1>14, <2>1, GetsOn DEF token
  <2> QED
    BY <1>1, <1>2, <1>3, <1>10, <1>12, <2>2, SameTurn
<1>15. CASE /\ Word \in {<< >>, <<token>>} /\ wire' = << >>
            /\ child = "died" /\ whole < Turn
  <2>1. \A f \in Fields : entry'[f] \in {<< >>, Whole(Turn, Reading)[f]}
    BY <1>1, <1>3, PartlyRead
  <2>2. whole <= Turn /\ whole # Turn
    BY <1>2, <1>3, <1>15, TurnSize DEF Typing, TypeOK
  <2>3. Short'
    BY <1>1, <1>3, <1>15, <2>1, <2>2, RunsDry DEF token
  <2> QED
    BY <1>1, <1>2, <1>3, <1>10, <1>12, <2>3, SameTurn
<1> QED
  BY <1>10, <1>14, <1>15

(* The name of a file. *)
LEMMA FnameStep ==
  ASSUME RInv, ReadFname
  PROVE  RInv'
<1>1. /\ pc = "fname" /\ WordReady /\ KeepsFrom(WordLen + 2) /\ pc' = "fsize" /\ ChildRests
      /\ entry' = [entry EXCEPT !.fname = Word] /\ left' = left /\ held' = held /\ shown' = shown
  BY DEF ReadFname, Reads, KeepsFrom, ChildRests
<1>2. /\ Typing /\ Following /\ held \in Seq(Token) /\ whole' = whole /\ child' = child
      /\ answer' = answer
  BY <1>1 DEF RInv, Typing, ChildRests
<1>3. pc \in EntryStages /\ pc' \in EntryStages /\ HasFile(Reading)
  BY <1>1, <1>2, AtEntry DEF EntryStages, FileStages
<1>4. Place = Begins(Turn) + 9 + Reading.text
  BY <1>1, Places
<1>5. InPlace \/ whole < Turn
  BY <1>1, <1>2, <1>3, PartlyRead, TurnSize DEF Short, Typing, TypeOK
<1>6. PICK b \in Nat : b = Place
  BY <1>2, <1>3, TurnSize
<1> DEFINE token == Tok("fname", Turn)
<1>7. ~IsSeparator(token) /\ token \in Token /\ <<token>> \in Seq(Token) /\ << >> \in Seq(Token)
  <2>1. token \in Token /\ ~IsSeparator(token)
    BY <1>2, <1>3, TurnSize, WordTokens DEF IsWord
  <2> QED
    BY <2>1
<1> DEFINE j == 10 + Reading.text
<1>8. /\ j \in 1..Size(answer, Turn) /\ j + 1 < Size(answer, Turn)
      /\ Begins(Turn) + j = b + 1 /\ b + 2 = Begins(Turn) + 11 + Reading.text
      /\ j + 1 = 11 + Reading.text
  <2>1. /\ Begins(Turn) \in Nat /\ Reading.text \in Nat /\ Reading.file \in Nat
        /\ Size(answer, Turn) = 14 + Reading.text + Reading.file
    BY <1>2, <1>3, TurnSize
  <2> QED
    BY <1>4, <1>6, <2>1
<1>9. At(answer, Turn, j) = token /\ IsSeparator(At(answer, Turn, j + 1))
  BY <1>2, <1>3, <1>8, AtTurn, Tokens
<1> HIDE DEF token, j
<1>10. /\ wire' \in Seq(Token)
       /\ \/ InPlace /\ Word = <<token>> /\ Carries(b + 2)'
          \/ /\ Word \in {<< >>, <<token>>} /\ wire' = << >>
             /\ child = "died" /\ whole < Turn
  BY <1>1, <1>3, <1>5, <1>6, <1>7, <1>8, <1>9, EntryWord
<1>11. Word \in Seq(Token)
  BY <1>7, <1>10
<1>12. /\ entry' \in [Fields -> Seq(Token)]
       /\ \A f \in Fields : entry'[f] = IF f = "fname" THEN Word ELSE entry[f]
  BY <1>1, <1>2, <1>11, Filled
<1>13. b + 2 \in Nat /\ b + 2 = Place'
  BY <1>1, <1>2, <1>6, <1>8, PlacesAfter
<1>14. CASE InPlace /\ Word = <<token>> /\ Carries(b + 2)'
  <2>1. \A f \in Fields : entry'[f] = IF f \in FieldsRead' THEN Whole(Turn, Reading)[f] ELSE << >>
    <3>1. FieldsRead = {"mid", "uid", "text"} /\ FieldsRead' = {"mid", "uid", "text", "fname"}
      BY <1>1 DEF FieldsRead
    <3>2. \A f \in Fields : entry[f] = IF f \in FieldsRead THEN Whole(Turn, Reading)[f] ELSE << >>
      BY <1>3, <1>14 DEF InPlace
    <3>3. Word = Whole(Turn, Reading)["fname"]
      BY <1>2, <1>3, <1>14, AtTurn DEF token
    <3> QED
      BY <1>12, <3>1, <3>2, <3>3
  <2>2. InPlace'
    BY <1>1, <1>3, <1>13, <1>14, <2>1, GetsOn
  <2> QED
    BY <1>1, <1>2, <1>3, <1>10, <1>12, <2>2, SameTurn
<1>15. CASE /\ Word \in {<< >>, <<token>>} /\ wire' = << >>
            /\ child = "died" /\ whole < Turn
  <2>1. \A f \in Fields : entry'[f] \in {<< >>, Whole(Turn, Reading)[f]}
    <3>1. <<token>> = Whole(Turn, Reading)["fname"]
      BY <1>2, <1>3, AtTurn DEF token
    <3> QED
      BY <1>3, <1>12, <1>15, <3>1, PartlyRead
  <2>2. whole <= Turn /\ whole # Turn
    BY <1>2, <1>3, <1>15, TurnSize DEF Typing, TypeOK
  <2>3. Short'
    BY <1>1, <1>3, <1>15, <2>1, <2>2, RunsDry
  <2> QED
    BY <1>1, <1>2, <1>3, <1>10, <1>12, <2>3, SameTurn
<1> QED
  BY <1>10, <1>14, <1>15

(* The size of a file. *)
LEMMA FsizeStep ==
  ASSUME RInv, ReadFsize
  PROVE  RInv'
<1>1. /\ pc = "fsize" /\ WordReady /\ KeepsFrom(WordLen + 2) /\ pc' = "data" /\ ChildRests
      /\ entry' = entry /\ left' = left /\ held' = Word /\ shown' = shown
  BY DEF ReadFsize, Reads, KeepsFrom, ChildRests
<1>2. /\ Typing /\ Following /\ whole' = whole /\ child' = child
      /\ answer' = answer
  BY <1>1 DEF RInv, Typing, ChildRests
<1>3. pc \in EntryStages /\ pc' \in EntryStages /\ HasFile(Reading)
  BY <1>1, <1>2, AtEntry DEF EntryStages, FileStages
<1>4. Place = Begins(Turn) + 11 + Reading.text
  BY <1>1, Places
<1>5. InPlace \/ whole < Turn
  BY <1>1, <1>2, <1>3, PartlyRead, TurnSize DEF Short, Typing, TypeOK
<1>6. PICK b \in Nat : b = Place
  BY <1>2, <1>3, TurnSize
<1> DEFINE token == Tok("size", Reading.file)
<1>7. ~IsSeparator(token) /\ token \in Token /\ <<token>> \in Seq(Token) /\ << >> \in Seq(Token)
  <2>1. token \in Token /\ ~IsSeparator(token)
    BY <1>2, <1>3, TurnSize, WordTokens DEF IsWord
  <2> QED
    BY <2>1
<1> DEFINE j == 12 + Reading.text
<1>8. /\ j \in 1..Size(answer, Turn) /\ j + 1 < Size(answer, Turn)
      /\ Begins(Turn) + j = b + 1 /\ b + 2 = Begins(Turn) + 13 + Reading.text
      /\ j + 1 = 13 + Reading.text
  <2>1. /\ Begins(Turn) \in Nat /\ Reading.text \in Nat /\ Reading.file \in Nat
        /\ Size(answer, Turn) = 14 + Reading.text + Reading.file
    BY <1>2, <1>3, TurnSize
  <2> QED
    BY <1>4, <1>6, <2>1
<1>9. At(answer, Turn, j) = token /\ IsSeparator(At(answer, Turn, j + 1))
  BY <1>2, <1>3, <1>8, AtTurn, Tokens
<1> HIDE DEF token, j
<1>10. /\ wire' \in Seq(Token)
       /\ \/ InPlace /\ Word = <<token>> /\ Carries(b + 2)'
          \/ /\ Word \in {<< >>, <<token>>} /\ wire' = << >>
             /\ child = "died" /\ whole < Turn
  BY <1>1, <1>3, <1>5, <1>6, <1>7, <1>8, <1>9, EntryWord
<1>11. Word \in Seq(Token)
  BY <1>7, <1>10
<1>12. entry' \in [Fields -> Seq(Token)] /\ held' \in Seq(Token)
  BY <1>1, <1>2, <1>11 DEF Typing
<1>13. b + 2 \in Nat /\ b + 2 = Place'
  BY <1>1, <1>2, <1>6, <1>8, PlacesAfter
<1>14. CASE InPlace /\ Word = <<token>> /\ Carries(b + 2)'
  <2>1. \A f \in Fields : entry'[f] = IF f \in FieldsRead' THEN Whole(Turn, Reading)[f] ELSE << >>
    <3>1. FieldsRead' = FieldsRead
      BY <1>1 DEF FieldsRead
    <3>2. \A f \in Fields : entry[f] = IF f \in FieldsRead THEN Whole(Turn, Reading)[f] ELSE << >>
      BY <1>3, <1>14 DEF InPlace
    <3> QED
      BY <1>1, <3>1, <3>2
  <2>2. InPlace'
    BY <1>1, <1>3, <1>13, <1>14, <2>1, GetsOn DEF token
  <2> QED
    BY <1>1, <1>2, <1>3, <1>10, <1>12, <2>2, SameTurn
<1>15. CASE /\ Word \in {<< >>, <<token>>} /\ wire' = << >>
            /\ child = "died" /\ whole < Turn
  <2>1. \A f \in Fields : entry'[f] \in {<< >>, Whole(Turn, Reading)[f]}
    BY <1>1, <1>3, PartlyRead
  <2>2. whole <= Turn /\ whole # Turn
    BY <1>2, <1>3, <1>15, TurnSize DEF Typing, TypeOK
  <2>3. Short'
    BY <1>1, <1>3, <1>15, <2>1, <2>2, RunsDry DEF token
  <2> QED
    BY <1>1, <1>2, <1>3, <1>10, <1>12, <2>3, SameTurn
<1> QED
  BY <1>10, <1>14, <1>15

(* The bytes at the front of the wire. *)
LEMMA FirstBytes ==
  ASSUME Typing, NEW n \in Nat
  PROVE  FirstOf(n) \in Seq(Token) /\ (wire = << >> => FirstOf(n) = << >>)
<1>1. wire \in Seq(Token) /\ Len(wire) \in Nat /\ \A i \in 1..Len(wire) : wire[i] \in Token
  BY DEF Typing
<1>2. Min({n, Len(wire)}) \in 0..Len(wire)
  <2>1. CASE n <= Len(wire)
    <3>1. Min({n, Len(wire)}) = n
      BY <1>1, <2>1 DEF Min
    <3> QED
      BY <1>1, <2>1, <3>1
  <2>2. CASE Len(wire) <= n
    <3>1. Min({n, Len(wire)}) = Len(wire)
      BY <1>1, <2>2 DEF Min
    <3> QED
      BY <1>1, <3>1
  <2> QED
    BY <1>1, <2>1, <2>2
<1> DEFINE m == Min({n, Len(wire)})
<1> HIDE DEF m
<1>3. FirstOf(n) = SubSeq(wire, 1, m) /\ m \in 0..Len(wire)
  BY <1>2 DEF FirstOf, m
<1>4. SubSeq(wire, 1, m) \in Seq(Token)
  <2>1. \A i \in 1..m : wire[i] \in Token
    BY <1>1, <1>3
  <2> QED
    BY <1>1, <1>3, <2>1, SubSeqProperties
<1>5. wire = << >> => SubSeq(wire, 1, m) = << >>
  <2>1. SUFFICES ASSUME wire = << >> PROVE SubSeq(wire, 1, m) = << >>
    OBVIOUS
  <2>2. m = 0
    BY <1>1, <1>3, <2>1
  <2> QED
    BY <1>1, <2>2, SubSeqEmpty
<1> QED
  BY <1>3, <1>4, <1>5

(* The client is caught in an entry that is not whole. *)
LEMMA Caught ==
  ASSUME RInv, ChildRests, pc \in EntryStages, pc' = "spins", shown' = shown, left' = left,
         wire' \in Seq(Token), held' \in Seq(Token), entry' \in [Fields -> Seq(Token)],
         child = "died", whole < Turn
  PROVE  RInv'
<1>1. /\ Making' /\ Expected' = Expected /\ answer' = answer /\ part' = part
      /\ whole' = whole /\ child' = child /\ Typing /\ Following /\ ShownRight'
      /\ whole \in Nat
  BY Rests
<1>2. Typing'
  <2>1. TypeOK'
    <3>1. pc' \in Stages
      BY DEF Stages
    <3>2. DOMAIN entry' = DOMAIN NoEntry
      BY DEF Fields
    <3> QED
      BY <1>1, <3>1, <3>2 DEF Typing, TypeOK
  <2> QED
    BY <1>1, <2>1 DEF Typing, Fields, NoEntry
<1>3. whole < Len(answer.list)
  <2>1. /\ Turn \in 1..Entries(answer) /\ Entries(answer) \in Nat /\ HasEntries(answer)
        /\ answer \in Answers
    BY <1>1, AtEntry
  <2>2. Entries(answer) = Len(answer.list)
    BY <2>1, Listing
  <2> QED
    BY <1>1, <2>1, <2>2
<1>4. Following'
  BY <1>1, <1>3 DEF Following, SpinsOnlyInside, EntryStages, EarlyStages, FileStages
<1> QED
  BY <1>1, <1>2, <1>4 DEF RInv

(* At the place of the client, which is the b-th token and the j-th of its *)
(* entry, stands n times the same, and it knows that unless it ran dry.    *)
TurnsRun(token, n, b, j) ==
  /\ b = Place /\ Begins(Turn) + j = b /\ j + n + 1 <= Size(answer, Turn)
  /\ \A i \in 1..n : At(answer, Turn, j + i) = token
  /\ InPlace => held = <<Tok("size", n)>>
  /\ Short => held \in {<< >>, <<Tok("size", n)>>} /\ whole < Turn

(* The client counts the n bytes of a text or a file, which may fail it.   *)
LEMMA EntryBytes ==
  ASSUME RInv, pc \in EntryStages, NEW next, Counts(pc, Number(held), next),
         NEW token \in Token, NEW n \in Nat, NEW b \in Nat, NEW j \in Nat,
         TurnsRun(token, n, b, j)
  PROVE  LET got == FirstOf(Number(held))
         IN  /\ got \in Seq(Token) /\ wire' \in Seq(Token)
             /\ \/ got = [i \in 1..n |-> token] /\ Carries(b + n)' /\ pc' = next /\ InPlace
                \/ /\ got = << >> /\ wire' = << >> /\ pc' = next
                   /\ child = "died" /\ whole < Turn
                \/ pc' = "spins" /\ child = "died" /\ whole < Turn
<1>1. /\ Typing /\ Making /\ Following /\ ChildRests
      /\ \/ /\ Len(wire) >= Number(held) /\ KeepsFrom(Number(held) + 1) /\ pc' = next
         \/ AtEnd /\ Len(wire) < Number(held) /\ wire' = << >> /\ pc' = "spins"
  BY DEF RInv, Counts, KeepsFrom, ChildRests
<1>2. /\ b = Place /\ Begins(Turn) + j = b /\ j + n + 1 <= Size(answer, Turn)
      /\ \A i \in 1..n : At(answer, Turn, j + i) = token
      /\ InPlace => held = <<Tok("size", n)>>
      /\ Short => held \in {<< >>, <<Tok("size", n)>>} /\ whole < Turn
  BY DEF TurnsRun
<1>3. /\ Turn \in 1..Entries(answer) /\ Turn \in 0..Entries(answer) /\ Begins(Turn) \in Nat
      /\ Begins(Turn + 1) = Begins(Turn) + Size(answer, Turn)
      /\ Size(answer, Turn) \in Nat /\ answer \in Answers
  BY <1>1, AtEntry, Sizes
<1>4. wire \in Seq(Token) /\ Len(wire) \in Nat /\ << >> \in Seq(Token)
  BY <1>1 DEF Typing
<1>5. held = <<Tok("size", n)>> => Number(held) = n
  BY DEF Number, Tok
<1>6. held = << >> => Number(held) = 0
  BY DEF Number
<1>7. CASE InPlace
  <2>1. Number(held) = n
    BY <1>2, <1>5, <1>7
  <2>2. Carries(b)
    BY <1>2, <1>7 DEF InPlace
  <2>3. j + n <= Size(answer, Turn)
    BY <1>2, <1>3
  <2>4. /\ Len(wire) >= n =>
              /\ FirstOf(n) = [i \in 1..n |-> token]
              /\ KeepsFrom(n + 1) /\ ChildRests => Carries(b + n)'
        /\ AtEnd /\ Len(wire) < n => child = "died" /\ Made < b + n
    <3>1. RunOf(token, n, b, Turn, j)
      BY <1>2, <2>2, <2>3 DEF RunOf
    <3> QED
      BY <1>1, <1>3, <3>1, BytesTaken
  <2>5. CASE Len(wire) >= n
    <3>1. wire' \in Seq(Token)
      <4>1. n \in 0..Len(wire)
        BY <1>4, <2>5
      <4>2. KeepsFrom(n + 1)
        BY <1>1, <1>4, <2>1, <2>5
      <4> QED
        BY <1>1, <4>1, <4>2, Taken
    <3>2. pc' = next /\ KeepsFrom(n + 1)
      BY <1>1, <1>4, <2>1, <2>5
    <3> QED
      BY <1>1, <1>7, <2>1, <2>4, <2>5, <3>1, <3>2, FirstBytes
  <2>6. CASE Len(wire) < n
    <3>1. AtEnd /\ pc' = "spins" /\ wire' = << >>
      BY <1>1, <1>4, <2>1, <2>6
    <3>2. child = "died" /\ Made < b + n
      BY <2>4, <2>6, <3>1
    <3>3. Made \in Nat
      BY <1>1, <3>2, Fits DEF PieceFits, Making
    <3>4. Made < Begins(Turn + 1) - 1
      BY <1>2, <1>3, <3>2, <3>3
    <3>5. whole < Turn
      BY <1>1, <1>3, <3>2, <3>4, NotWhole
    <3> QED
      BY <1>1, <1>4, <2>1, <3>1, <3>2, <3>5, FirstBytes
  <2> QED
    BY <1>4, <2>5, <2>6
<1>8. CASE Short
  <2>1. wire = << >> /\ child = "died" /\ whole < Turn /\ held \in {<< >>, <<Tok("size", n)>>}
    BY <1>2, <1>8 DEF Short
  <2>2. Number(held) \in Nat /\ Len(wire) = 0
    BY <1>5, <1>6, <2>1
  <2>3. FirstOf(Number(held)) = << >> /\ FirstOf(Number(held)) \in Seq(Token)
    BY <1>1, <2>1, <2>2, FirstBytes
  <2>4. wire' = << >>
    <3>1. CASE KeepsFrom(Number(held) + 1)
      BY <1>1, <1>4, <2>2, <3>1, NothingTaken
    <3> QED
      BY <1>1, <3>1
  <2> QED
    BY <1>1, <1>4, <2>1, <2>3, <2>4
<1> QED
  BY <1>7, <1>8, PartlyRead

(* The text of a message. *)
LEMMA TextStep ==
  ASSUME RInv, ReadText
  PROVE  RInv'
<1> DEFINE token == Tok("text", Turn)
           got == FirstOf(Number(held))
<1>1. /\ pc = "text" /\ Counts(pc, Number(held), "sep") /\ ChildRests
      /\ entry' = [entry EXCEPT !.text = got] /\ left' = left /\ held' = held /\ shown' = shown
  BY DEF ReadText, Counts, ChildRests
<1>2. /\ Typing /\ Following /\ held' \in Seq(Token) /\ whole' = whole /\ child' = child
      /\ answer' = answer
  BY <1>1 DEF RInv, Typing, ChildRests
<1>3. pc \in EntryStages
  BY <1>1 DEF EntryStages
<1>4. /\ Begins(Turn) \in Nat /\ Reading.text \in Nat /\ Size(answer, Turn) \in Nat
      /\ Size(answer, Turn) >= 7 + Reading.text /\ Place = Begins(Turn) + 6 /\ Turn \in Nat
  BY <1>1, <1>2, <1>3, TurnSize, Places
<1>5. PICK b \in Nat, t \in Nat : b = Place /\ t = Reading.text
  BY <1>4
<1>6. token \in Token
  BY <1>4, WordTokens DEF IsWord
<1>7. \A i \in 1..t : At(answer, Turn, 6 + i) = token
  BY <1>2, <1>3, <1>5, AtTurn
<1>8. Short => held \in {<< >>, <<Tok("size", t)>>} /\ whole < Turn
  BY <1>1, <1>2, <1>3, <1>4, <1>5 DEF Short, Typing, TypeOK
<1>9. InPlace => held = <<Tok("size", t)>>
  BY <1>1, <1>5 DEF InPlace
<1> HIDE DEF token, got
<1>10. Begins(Turn) + 6 = b /\ 6 + t + 1 <= Size(answer, Turn) /\ b + t \in Nat
  BY <1>4, <1>5
<1>11. /\ got \in Seq(Token) /\ wire' \in Seq(Token)
       /\ \/ got = [i \in 1..t |-> token] /\ Carries(b + t)' /\ pc' = "sep" /\ InPlace
          \/ /\ got = << >> /\ wire' = << >> /\ pc' = "sep"
             /\ child = "died" /\ whole < Turn
          \/ pc' = "spins" /\ child = "died" /\ whole < Turn
  <2>1. TurnsRun(token, t, b, 6)
    BY <1>5, <1>7, <1>8, <1>9, <1>10 DEF TurnsRun
  <2> QED
    BY <1>1, <1>3, <1>6, <2>1, EntryBytes DEF got
<1>12. /\ entry' \in [Fields -> Seq(Token)]
       /\ \A f \in Fields : entry'[f] = IF f = "text" THEN got ELSE entry[f]
  BY <1>1, <1>2, <1>11, Filled
<1>13. pc' = "sep" => /\ pc' \in EntryStages /\ pc' \notin FileStages /\ Place' = b + t
  BY <1>1, <1>2, <1>4, <1>5, PlacesAfter DEF EntryStages, FileStages
<1>14. CASE got = [i \in 1..t |-> token] /\ Carries(b + t)' /\ pc' = "sep" /\ InPlace
  <2>1. \A f \in Fields : entry'[f] = IF f \in FieldsRead' THEN Whole(Turn, Reading)[f] ELSE << >>
    <3>1. FieldsRead = {"mid", "uid"} /\ FieldsRead' = {"mid", "uid", "text"}
      BY <1>1, <1>14 DEF FieldsRead
    <3>2. \A f \in Fields : entry[f] = IF f \in FieldsRead THEN Whole(Turn, Reading)[f] ELSE << >>
      BY <1>3, <1>14 DEF InPlace
    <3>3. got = Whole(Turn, Reading)["text"]
      BY <1>2, <1>3, <1>5, <1>14, AtTurn DEF Text, token
    <3> QED
      BY <1>12, <3>1, <3>2, <3>3
  <2>2. InPlace'
    BY <1>1, <1>10, <1>13, <1>14, <2>1, GetsOn
  <2> QED
    BY <1>1, <1>2, <1>3, <1>11, <1>12, <1>13, <1>14, <2>2, SameTurn
<1>15. CASE got = << >> /\ wire' = << >> /\ pc' = "sep" /\ child = "died" /\ whole < Turn
  <2>1. \A f \in Fields : entry'[f] \in {<< >>, Whole(Turn, Reading)[f]}
    BY <1>3, <1>12, <1>15, PartlyRead
  <2>2. whole <= Turn /\ whole # Turn
    BY <1>2, <1>4, <1>15 DEF Typing, TypeOK
  <2>3. Short'
    BY <1>1, <1>13, <1>15, <2>1, <2>2, RunsDry
  <2> QED
    BY <1>1, <1>2, <1>3, <1>11, <1>12, <1>13, <1>15, <2>3, SameTurn
<1>16. CASE pc' = "spins" /\ child = "died" /\ whole < Turn
  BY <1>1, <1>2, <1>3, <1>11, <1>12, <1>16, Caught
<1> QED
  BY <1>11, <1>14, <1>15, <1>16

(* The file of a message. *)
LEMMA DataStep ==
  ASSUME RInv, ReadData
  PROVE  RInv'
<1> DEFINE token == Tok("data", Turn)
           got == FirstOf(Number(held))
<1>1. /\ pc = "data" /\ Counts(pc, Number(held), "sep2") /\ ChildRests
      /\ entry' = [entry EXCEPT !.file = got] /\ left' = left /\ held' = held /\ shown' = shown
  BY DEF ReadData, Counts, ChildRests
<1>2. /\ Typing /\ Following /\ held' \in Seq(Token) /\ whole' = whole /\ child' = child
      /\ answer' = answer
  BY <1>1 DEF RInv, Typing, ChildRests
<1>3. pc \in EntryStages /\ HasFile(Reading)
  BY <1>1, <1>2, AtEntry DEF EntryStages, FileStages
<1>4. /\ Begins(Turn) \in Nat /\ Reading.text \in Nat /\ Reading.file \in Nat
      /\ Size(answer, Turn) = 14 + Reading.text + Reading.file /\ Turn \in Nat
      /\ Place = Begins(Turn) + 13 + Reading.text
  BY <1>1, <1>2, <1>3, TurnSize, Places
<1>5. PICK b \in Nat, n \in Nat, j \in Nat :
             b = Place /\ n = Reading.file /\ j = 13 + Reading.text
  BY <1>4
<1>6. token \in Token
  BY <1>4, WordTokens DEF IsWord
<1>7. \A i \in 1..n : At(answer, Turn, j + i) = token
  BY <1>2, <1>3, <1>5, AtTurn
<1>8. Short => held \in {<< >>, <<Tok("size", n)>>} /\ whole < Turn
  BY <1>1, <1>2, <1>3, <1>4, <1>5 DEF Short, Typing, TypeOK
<1>9. InPlace => held = <<Tok("size", n)>>
  BY <1>1, <1>5 DEF InPlace
<1> HIDE DEF token, got
<1>10. Begins(Turn) + j = b /\ j + n + 1 <= Size(answer, Turn) /\ b + n \in Nat
  BY <1>4, <1>5
<1>11. /\ got \in Seq(Token) /\ wire' \in Seq(Token)
       /\ \/ got = [i \in 1..n |-> token] /\ Carries(b + n)' /\ pc' = "sep2" /\ InPlace
          \/ /\ got = << >> /\ wire' = << >> /\ pc' = "sep2"
             /\ child = "died" /\ whole < Turn
          \/ pc' = "spins" /\ child = "died" /\ whole < Turn
  <2>1. TurnsRun(token, n, b, j)
    BY <1>5, <1>7, <1>8, <1>9, <1>10 DEF TurnsRun
  <2> QED
    BY <1>1, <1>3, <1>6, <2>1, EntryBytes DEF got
<1>12. /\ entry' \in [Fields -> Seq(Token)]
       /\ \A f \in Fields : entry'[f] = IF f = "file" THEN got ELSE entry[f]
  BY <1>1, <1>2, <1>11, Filled
<1>13. pc' = "sep2" => /\ pc' \in EntryStages /\ HasFile(Reading) /\ Place' = b + n
  BY <1>1, <1>2, <1>3, <1>4, <1>5, PlacesAfter DEF EntryStages
<1>14. CASE got = [i \in 1..n |-> token] /\ Carries(b + n)' /\ pc' = "sep2" /\ InPlace
  <2>1. \A f \in Fields : entry'[f] = IF f \in FieldsRead' THEN Whole(Turn, Reading)[f] ELSE << >>
    <3>1. FieldsRead = {"mid", "uid", "text", "fname"} /\ FieldsRead' = Fields
      BY <1>1, <1>14 DEF FieldsRead
    <3>2. \A f \in Fields : entry[f] = IF f \in FieldsRead THEN Whole(Turn, Reading)[f] ELSE << >>
      BY <1>3, <1>14 DEF InPlace
    <3>3. got = Whole(Turn, Reading)["file"]
      BY <1>2, <1>3, <1>5, <1>14, AtTurn DEF Data, token
    <3> QED
      BY <1>12, <3>1, <3>2, <3>3, EntryFields
  <2>2. InPlace'
    BY <1>1, <1>10, <1>13, <1>14, <2>1, GetsOn
  <2> QED
    BY <1>1, <1>2, <1>3, <1>11, <1>12, <1>13, <1>14, <2>2, SameTurn
<1>15. CASE got = << >> /\ wire' = << >> /\ pc' = "sep2" /\ child = "died" /\ whole < Turn
  <2>1. \A f \in Fields : entry'[f] \in {<< >>, Whole(Turn, Reading)[f]}
    BY <1>3, <1>12, <1>15, PartlyRead
  <2>2. whole <= Turn /\ whole # Turn
    BY <1>2, <1>4, <1>15 DEF Typing, TypeOK
  <2>3. Short'
    BY <1>1, <1>13, <1>15, <2>1, <2>2, RunsDry
  <2> QED
    BY <1>1, <1>2, <1>3, <1>11, <1>12, <1>13, <1>15, <2>3, SameTurn
<1>16. CASE pc' = "spins" /\ child = "died" /\ whole < Turn
  BY <1>1, <1>2, <1>3, <1>11, <1>12, <1>16, Caught
<1> QED
  BY <1>11, <1>14, <1>15, <1>16

(* A child that died before the next entry was whole. *)
LEMMA AtMostTurn ==
  ASSUME RInv, pc \in EntryStages, child = "died", Made <= Begins(Turn + 1) + 1
  PROVE  /\ whole <= Turn /\ whole \in Nat
         /\ Made < Begins(Turn + 1) - 1 => whole < Turn
<1>1. Typing /\ Making /\ Following /\ whole \in 0..Entries(answer)
  BY Around DEF RInv
<1>2. /\ Turn \in 1..Entries(answer) /\ Begins(Turn + 1) \in Nat /\ Entries(answer) \in Nat
      /\ answer \in Answers
  <2>1. /\ Turn \in 1..Entries(answer) /\ Entries(answer) \in Nat /\ answer \in Answers
        /\ Begins(Turn) \in Nat /\ Begins(Turn + 1) = Begins(Turn) + Size(answer, Turn)
    BY <1>1, AtEntry
  <2>2. Size(answer, Turn) \in Nat
    BY <1>1, TurnSize
  <2> QED
    BY <2>1, <2>2
<1>3. Made < Begins(Turn + 1) - 1 => whole < Turn
  BY <1>1, <1>2, NotWhole
<1>4. whole <= Turn
  <2>1. CASE Turn = Entries(answer)
    BY <1>1, <1>2, <2>1
  <2>2. CASE Turn # Entries(answer)
    <3>1. Turn + 1 \in 1..Entries(answer) /\ Turn + 1 \in 0..Entries(answer)
      BY <1>2, <2>2
    <3>2. Begins((Turn + 1) + 1) = Begins(Turn + 1) + Size(answer, Turn + 1)
      BY <1>2, <3>1, LayoutLaws DEF Begins
    <3>3. Size(answer, Turn + 1) \in Nat /\ Size(answer, Turn + 1) >= 7
      <4>1. /\ answer.list[Turn + 1].text \in Nat
            /\ HasFile(answer.list[Turn + 1]) => answer.list[Turn + 1].file \in Nat
        BY <1>2, <3>1, Message
      <4>2. Turn + 1 # 0
        BY <3>1
      <4> QED
        BY <4>1, <4>2 DEF Size
    <3>4. Made \in Nat
      BY <1>1, Fits DEF PieceFits, Making
    <3>5. Made < Begins((Turn + 1) + 1) - 1
      BY <1>2, <3>2, <3>3, <3>4
    <3>6. whole < Turn + 1
      BY <1>1, <3>1, <3>5, NotWhole
    <3> QED
      BY <1>1, <1>2, <3>6
  <2> QED
    BY <2>1, <2>2
<1> QED
  BY <1>1, <1>3, <1>4

(* A byte is thrown away within an entry, or there was none. *)
LEMMA EntryByte ==
  ASSUME RInv, pc \in EntryStages, NEW b \in Nat, b = Place, b + 1 <= Begins(Turn + 1),
         NEW next, Skips(pc, next)
  PROVE  /\ wire' \in Seq(Token) /\ pc' = next /\ ChildRests
         /\ UNCHANGED <<left, held, entry, shown>>
         /\ \/ InPlace /\ Carries(b + 1)'
            \/ InPlace /\ wire' = << >> /\ child = "died" /\ Made <= b
            \/ Short /\ wire' = << >> /\ child = "died"
<1>1. /\ Typing /\ Making /\ Following /\ ChildRests /\ KeepsFrom(2) /\ pc' = next
      /\ (AtEnd \/ wire # << >>) /\ UNCHANGED <<left, held, entry, shown>>
  BY DEF RInv, Skips, Skipped, KeepsFrom, ChildRests
<1>2. CASE InPlace
  <2>1. b + 1 <= Total(answer)
    <3>1. Begins(Turn + 1) <= Total(answer) /\ Total(answer) \in Nat
      BY <1>1, AtEntry
    <3>2. Begins(Turn + 1) \in Nat
      <4>1. Begins(Turn + 1) = Begins(Turn) + Size(answer, Turn)
        BY <1>1, AtEntry
      <4>2. Begins(Turn) \in Nat /\ Size(answer, Turn) \in Nat
        BY <1>1, TurnSize
      <4> QED
        BY <4>1, <4>2
    <3> QED
      BY <3>1, <3>2
  <2>2. Carries(b)
    BY <1>2 DEF InPlace
  <2>3. /\ wire' \in Seq(Token)
        /\ \/ Carries(b + 1)'
           \/ wire' = << >> /\ child = "died" /\ Made <= b
    BY <1>1, <2>1, <2>2, ByteTaken
  <2> QED
    BY <1>1, <1>2, <2>3
<1>3. CASE Short
  <2>1. wire = << >> /\ child = "died"
    BY <1>3 DEF Short
  <2>2. wire' = << >> /\ wire' \in Seq(Token)
    BY <1>1, <2>1, NothingTaken
  <2> QED
    BY <1>1, <1>3, <2>1, <2>2
<1> QED
  BY <1>2, <1>3, PartlyRead

(* The byte behind a text. *)
LEMMA SepStep ==
  ASSUME RInv, SkipSep
  PROVE  RInv'
<1>1. pc = "sep" /\ Skips(pc, "slash")
  BY DEF SkipSep, Skips
<1>2. Typing /\ Following /\ pc \in EntryStages /\ held \in Seq(Token)
      /\ entry \in [Fields -> Seq(Token)]
  BY <1>1 DEF RInv, Typing, EntryStages
<1>3. /\ Begins(Turn) \in Nat /\ Reading.text \in Nat /\ Size(answer, Turn) \in Nat /\ Turn \in Nat
      /\ Size(answer, Turn) >= 7 + Reading.text /\ Place = Begins(Turn) + 6 + Reading.text
      /\ HasFile(Reading) => Size(answer, Turn) >= 14 + Reading.text
      /\ Begins(Turn + 1) = Begins(Turn) + Size(answer, Turn)
  <2>1. Begins(Turn + 1) = Begins(Turn) + Size(answer, Turn)
    BY <1>2, AtEntry
  <2>2. Place = Begins(Turn) + 6 + Reading.text
    BY <1>1, Places
  <2>3. /\ Begins(Turn) \in Nat /\ Reading.text \in Nat /\ Size(answer, Turn) \in Nat
        /\ Turn \in Nat /\ Size(answer, Turn) >= 7 + Reading.text
        /\ HasFile(Reading) => /\ Reading.file \in Nat
                               /\ Size(answer, Turn) = 14 + Reading.text + Reading.file
    BY <1>2, TurnSize
  <2> QED
    BY <2>1, <2>2, <2>3
<1>4. PICK b \in Nat : b = Place
  BY <1>3
<1>5. /\ b + 1 <= Begins(Turn + 1) /\ b + 1 \in Nat
      /\ HasFile(Reading) => b < Begins(Turn + 1) - 1
  BY <1>3, <1>4
<1>6. /\ wire' \in Seq(Token) /\ pc' = "slash" /\ ChildRests
      /\ UNCHANGED <<left, held, entry, shown>>
      /\ \/ InPlace /\ Carries(b + 1)'
         \/ InPlace /\ wire' = << >> /\ child = "died" /\ Made <= b
         \/ Short /\ wire' = << >> /\ child = "died"
  BY <1>1, <1>2, <1>4, <1>5, EntryByte
<1>7. pc' \in EntryStages /\ pc' \notin FileStages /\ Place' = b + 1
  <2>1. answer' = answer /\ shown' = shown
    BY <1>6 DEF ChildRests
  <2>2. Place' = Begins(Turn) + 7 + Reading.text
    BY <1>6, <2>1, PlacesAfter
  <2>3. Begins(Turn) + 7 + Reading.text = b + 1
    BY <1>3, <1>4
  <2>4. pc' \in EntryStages /\ pc' \notin FileStages
    BY <1>6 DEF EntryStages, FileStages
  <2> QED
    BY <2>2, <2>3, <2>4
<1>8. FieldsRead = {"mid", "uid", "text"} /\ FieldsRead' = FieldsRead
  BY <1>1, <1>6 DEF FieldsRead
<1>9. InPlace' \/ Short' => RInv'
  BY <1>2, <1>6, <1>7, SameTurn
<1>10. CASE InPlace /\ Carries(b + 1)'
  <2>1. \A f \in Fields : entry[f] = IF f \in FieldsRead THEN Whole(Turn, Reading)[f] ELSE << >>
    BY <1>2, <1>10 DEF InPlace
  <2>2. InPlace'
    BY <1>5, <1>6, <1>7, <1>8, <1>10, <2>1, GetsOn
  <2> QED
    BY <1>9, <2>2
<1>11. CASE InPlace /\ wire' = << >> /\ child = "died" /\ Made <= b
  <2>1. \A f \in Fields : entry[f] = IF f \in FieldsRead THEN Whole(Turn, Reading)[f] ELSE << >>
    BY <1>2, <1>11 DEF InPlace
  <2>2. Made \in Nat
    BY <1>11, Fits DEF PieceFits, Making, RInv
  <2>3. whole <= Turn /\ (HasFile(Reading) => whole < Turn) /\ whole \in Nat
    <3>1. /\ Made <= Begins(Turn + 1) + 1
          /\ HasFile(Reading) => Made < Begins(Turn + 1) - 1
      BY <1>3, <1>5, <1>11, <2>2
    <3> QED
      BY <1>2, <1>11, <3>1, AtMostTurn
  <2>4. ~HasFile(Reading) => \A f \in Fields : entry[f] = Whole(Turn, Reading)[f]
    BY <1>2, <1>8, <2>1, AtTurn, EntryFields
  <2>5. /\ \A f \in Fields : entry'[f] \in {<< >>, Whole(Turn, Reading)[f]}
        /\ whole = Turn => /\ pc' \in {"sep", "slash", "sep2", "next"}
                           /\ \A f \in Fields : entry'[f] = Whole(Turn, Reading)[f]
    BY <1>3, <1>6, <2>1, <2>3, <2>4
  <2>6. Short'
    BY <1>6, <1>7, <1>11, <2>3, <2>5, RunsDry
  <2> QED
    BY <1>9, <2>6
<1>12. CASE Short /\ wire' = << >> /\ child = "died"
  <2>1. /\ \A f \in Fields : entry[f] \in {<< >>, Whole(Turn, Reading)[f]}
        /\ whole <= Turn
        /\ whole = Turn => \A f \in Fields : entry[f] = Whole(Turn, Reading)[f]
    BY <1>2, <1>12 DEF Short
  <2>2. Short'
    BY <1>6, <1>7, <1>12, <2>1, RunsDry
  <2> QED
    BY <1>9, <2>2
<1> QED
  BY <1>6, <1>10, <1>11, <1>12

(* The byte behind a file. *)
LEMMA Sep2Step ==
  ASSUME RInv, SkipSep2
  PROVE  RInv'
<1>1. pc = "sep2" /\ Skips(pc, "next")
  BY DEF SkipSep2, Skips
<1>2. /\ Typing /\ Following /\ pc \in EntryStages /\ held \in Seq(Token)
      /\ entry \in [Fields -> Seq(Token)]
  BY <1>1 DEF RInv, Typing, EntryStages
<1>3. HasFile(Reading)
  BY <1>1, <1>2, AtEntry DEF FileStages
<1>4. PICK b \in Nat : b = Place
  BY <1>2, TurnSize
<1>5. /\ Begins(Turn + 1) = b + 1 /\ Turn \in Nat
      /\ Begins(Turn) + 14 + Reading.text + Reading.file = b + 1
  <2>1. Begins(Turn + 1) = Begins(Turn) + Size(answer, Turn)
    BY <1>2, AtEntry
  <2>2. b = Begins(Turn) + 13 + Reading.text + Reading.file
    BY <1>1, <1>4, Places
  <2>3. /\ Begins(Turn) \in Nat /\ Reading.text \in Nat /\ Reading.file \in Nat
        /\ Size(answer, Turn) = 14 + Reading.text + Reading.file /\ Turn \in Nat
    BY <1>2, <1>3, TurnSize
  <2> QED
    BY <2>1, <2>2, <2>3
<1>6. /\ wire' \in Seq(Token) /\ pc' = "next" /\ ChildRests
      /\ UNCHANGED <<left, held, entry, shown>>
      /\ \/ InPlace /\ Carries(b + 1)'
         \/ InPlace /\ wire' = << >> /\ child = "died" /\ Made <= b
         \/ Short /\ wire' = << >> /\ child = "died"
  BY <1>1, <1>2, <1>4, <1>5, EntryByte
<1>7. pc' \in EntryStages /\ Place' = b + 1
  <2>1. answer' = answer /\ shown' = shown
    BY <1>6 DEF ChildRests
  <2>2. Place' = Begins(Turn) + 14 + Reading.text + Reading.file
    BY <1>6, <2>1, PlacesAfter
  <2> QED
    BY <1>5, <1>6, <2>2 DEF EntryStages
<1>8. FieldsRead = Fields /\ FieldsRead' = FieldsRead
  BY <1>1, <1>6 DEF FieldsRead, Fields, NoEntry
<1>9. InPlace' \/ Short' => RInv'
  BY <1>2, <1>3, <1>6, <1>7, SameTurn
<1>10. CASE InPlace /\ Carries(b + 1)'
  <2>1. \A f \in Fields : entry[f] = IF f \in FieldsRead THEN Whole(Turn, Reading)[f] ELSE << >>
    BY <1>2, <1>10 DEF InPlace
  <2>2. InPlace'
    BY <1>5, <1>6, <1>7, <1>8, <1>10, <2>1, GetsOn
  <2> QED
    BY <1>9, <2>2
<1>11. CASE InPlace /\ wire' = << >> /\ child = "died" /\ Made <= b
  <2>1. \A f \in Fields : entry[f] = IF f \in FieldsRead THEN Whole(Turn, Reading)[f] ELSE << >>
    BY <1>2, <1>11 DEF InPlace
  <2>2. Made \in Nat
    BY <1>11, Fits DEF PieceFits, Making, RInv
  <2>3. whole <= Turn /\ whole \in Nat
    <3>1. Made <= Begins(Turn + 1) + 1
      BY <1>5, <1>11, <2>2
    <3> QED
      BY <1>2, <1>11, <3>1, AtMostTurn
  <2>4. \A f \in Fields : entry[f] = Whole(Turn, Reading)[f]
    BY <1>8, <2>1
  <2>5. /\ \A f \in Fields : entry'[f] \in {<< >>, Whole(Turn, Reading)[f]}
        /\ whole = Turn => /\ pc' \in {"sep", "slash", "sep2", "next"}
                           /\ \A f \in Fields : entry'[f] = Whole(Turn, Reading)[f]
    BY <1>6, <2>4
  <2>6. Short'
    BY <1>6, <1>7, <1>11, <2>3, <2>5, RunsDry
  <2> QED
    BY <1>9, <2>6
<1>12. CASE Short /\ wire' = << >> /\ child = "died"
  <2>1. /\ \A f \in Fields : entry[f] \in {<< >>, Whole(Turn, Reading)[f]}
        /\ whole <= Turn
        /\ whole = Turn => \A f \in Fields : entry[f] = Whole(Turn, Reading)[f]
    BY <1>2, <1>12 DEF Short
  <2>2. Short'
    BY <1>6, <1>7, <1>12, <2>1, RunsDry
  <2> QED
    BY <1>9, <2>2
<1> QED
  BY <1>6, <1>10, <1>11, <1>12

(* The client has read the first word of the k-th entry, or of what there  *)
(* was of it.                                                              *)
LEMMA Starts ==
  ASSUME answer \in Answers, whole \in Nat, ChildRests, NEW k \in 1..Entries(answer), Turn' = k,
         pc' = "uid", entry' = [NoEntry EXCEPT !.mid = Word], Word \in Seq(Token),
         NEW b \in Nat, b = Begins(k) + 2,
         \/ Word = <<Tok("mid", k)>> /\ Carries(b)'
         \/ Word \in {<< >>, <<Tok("mid", k)>>} /\ wire' = << >> /\ child = "died" /\ whole < k
  PROVE  InPlace' \/ Short'
<1>1. answer' = answer /\ whole' = whole /\ child' = child
  BY DEF ChildRests
<1>2. Reading' = answer.list[k]
  BY <1>1 DEF Reading
<1> DEFINE all == Whole(k, answer.list[k])
<1>3. all \in [Fields -> Seq(Token)] /\ all["mid"] = <<Tok("mid", k)>>
  BY WholeFields
<1>4. \A f \in Fields : entry'[f] = IF f = "mid" THEN Word ELSE << >>
  BY EntryFields
<1>5. Whole(Turn, Reading)' = all
  BY <1>1, <1>2
<1> HIDE DEF all
<1>6. Fields' = Fields /\ "mid" \in Fields
  BY EntryFields DEF Fields, NoEntry
<1>7. CASE Word = <<Tok("mid", k)>> /\ Carries(b)'
  <2>1. Place' = b
    <3>1. Place' = Begins(Turn)' + 2
      BY DEF Place
    <3> QED
      BY <1>1, <3>1 DEF Begins
  <2>2. Carries(Place)'
    BY <1>7, <2>1 DEF Carries
  <2>3. FieldsRead' = {"mid"}
    BY DEF FieldsRead
  <2>4. \A f \in Fields : entry'[f] = IF f \in FieldsRead' THEN all[f] ELSE << >>
    BY <1>3, <1>4, <1>7, <2>3
  <2> QED
    BY <1>5, <1>6, <2>2, <2>4 DEF InPlace
<1>8. CASE Word \in {<< >>, <<Tok("mid", k)>>} /\ wire' = << >> /\ child = "died" /\ whole < k
  <2>1. \A f \in Fields : entry'[f] \in {<< >>, all[f]}
    BY <1>3, <1>4, <1>8
  <2>2. whole' <= Turn' /\ whole' # Turn' /\ child' = "died" /\ pc' \in EntryStages
    <3>1. k \in Nat
      BY Listing
    <3> QED
      BY <1>1, <1>8, <3>1 DEF EntryStages
  <2> QED
    BY <1>5, <1>6, <1>8, <2>1, <2>2 DEF Short
<1> QED
  BY <1>7, <1>8

(* The word behind an entry: the next one's MID, and there is none behind  *)
(* the last.                                                               *)
LEMMA WordBehind ==
  ASSUME RInv, pc \in EntryStages, Carries(Begins(Turn + 1)), WordReady,
         KeepsFrom(WordLen + 2), ChildRests, NEW b \in Nat, b = Begins(Turn + 1)
  PROVE  /\ wire' \in Seq(Token) /\ Word \in Seq(Token)
         /\ Word \in {<< >>, <<Tok("mid", Turn + 1)>>}
         /\ Turn < Entries(answer) =>
              \/ Word = <<Tok("mid", Turn + 1)>> /\ Carries(b + 2)'
              \/ /\ Word \in {<< >>, <<Tok("mid", Turn + 1)>>} /\ wire' = << >>
                 /\ child = "died" /\ whole < Turn + 1
<1>1. Typing /\ Making /\ Following /\ wire \in Seq(Token) /\ Len(wire) \in Nat
  BY DEF RInv, Typing
<1>2. /\ answer \in Answers /\ Turn \in 1..Entries(answer) /\ Entries(answer) \in Nat
      /\ Turn \in Nat /\ Carries(b)
  BY <1>1, AtEntry
<1>3. CASE Turn = Entries(answer)
  <2>1. b = Total(answer) /\ Total(answer) \in Nat
    BY <1>2, <1>3, LayoutLaws DEF Begins, Total
  <2>2. Len(wire) = 0
    BY <1>1, <1>2, <2>1 DEF Carries
  <2>3. wire = << >>
    BY <1>1, <2>2
  <2> QED
    BY <1>2, <1>3, <2>3, DryWord
<1>4. CASE Turn # Entries(answer)
  <2> DEFINE token == Tok("mid", Turn + 1)
  <2>1. PICK k \in 1..Entries(answer) : k = Turn + 1
    BY <1>2, <1>4
  <2>2. /\ k \in 0..Entries(answer) /\ 1 \in 1..Size(answer, k) /\ 1 + 1 \in 1..Size(answer, k)
        /\ Begins(k) + 1 = b + 1
    <3>1. k \in 0..Entries(answer) /\ k # 0
      BY <1>2, <2>1
    <3>2. Size(answer, k) \in Nat /\ Size(answer, k) >= 7
      <4>1. /\ answer.list[k].text \in Nat
            /\ HasFile(answer.list[k]) => answer.list[k].file \in Nat
        BY <1>2, Message
      <4> QED
        BY <3>1, <4>1 DEF Size
    <3> QED
      BY <2>1, <3>1, <3>2
  <2>3. /\ At(answer, k, 1) = token /\ IsSeparator(At(answer, k, 1 + 1))
        /\ ~IsSeparator(token) /\ token \in Token
    <3>1. At(answer, k, 1) = token /\ At(answer, k, 2) = SP
      BY <1>2, <2>1, EntryTokens
    <3>2. Turn + 1 \in Nat
      BY <1>2
    <3> QED
      BY <3>1, <3>2, Tokens, WordTokens DEF IsWord
  <2> HIDE DEF token
  <2>4. /\ wire' \in Seq(Token)
        /\ \/ Word = <<token>> /\ Carries(b + 2)'
           \/ /\ Word \in {<< >>, <<token>>} /\ wire' = << >>
              /\ child = "died" /\ Made <= b + 1
    BY <1>1, <1>2, <2>2, <2>3, WordTaken
  <2>5. Word \in Seq(Token)
    <3>1. <<token>> \in Seq(Token) /\ << >> \in Seq(Token)
      BY <2>3
    <3> QED
      BY <2>4, <3>1
  <2>6. child = "died" /\ Made <= b + 1 => whole < Turn + 1
    <3>1. SUFFICES ASSUME child = "died", Made <= b + 1 PROVE whole < Turn + 1
      OBVIOUS
    <3>2. Made <= Begins(Turn + 1) + 1
      BY <3>1
    <3>3. whole <= Turn /\ whole \in Nat
      BY <3>1, <3>2, AtMostTurn
    <3> QED
      BY <1>2, <3>3
  <2> QED
    BY <2>4, <2>5, <2>6 DEF token
<1> QED
  BY <1>3, <1>4

(* An entry is shown and the next one begun, if there is one. *)
LEMMA NextEntry ==
  ASSUME RInv, pc \in EntryStages, WordReady, KeepsFrom(WordLen + 2), ChildRests,
         pc' = LoopOn(left - 1), Shows(Word), shown' = Append(shown, entry),
         \/ /\ Carries(Begins(Turn + 1))
            /\ \A f \in Fields : entry[f] = Whole(Turn, Reading)[f]
         \/ /\ child = "died" /\ Word = << >> /\ wire' = << >> /\ whole <= Turn
            /\ \A f \in Fields : entry[f] \in {<< >>, Whole(Turn, Reading)[f]}
            /\ whole = Turn => \A f \in Fields : entry[f] = Whole(Turn, Reading)[f]
  PROVE  RInv'
<1>1. /\ Typing /\ Making /\ Following /\ entry \in [Fields -> Seq(Token)]
      /\ answer' = answer /\ whole' = whole /\ child' = child /\ part' = part
      /\ Making' /\ whole \in Nat
  BY Rests DEF Typing
<1>2. /\ answer \in Answers /\ HasEntries(answer) /\ Turn \in 1..Entries(answer)
      /\ Entries(answer) \in Nat /\ Len(shown) \in Nat /\ Turn = Len(shown) + 1
      /\ Begins(Turn + 1) \in Nat /\ Turn \in Nat
  <2>1. /\ answer \in Answers /\ HasEntries(answer) /\ Turn \in 1..Entries(answer)
        /\ Entries(answer) \in Nat /\ Len(shown) \in Nat /\ Turn = Len(shown) + 1
        /\ Begins(Turn) \in Nat /\ Begins(Turn + 1) = Begins(Turn) + Size(answer, Turn)
    BY <1>1, AtEntry
  <2>2. Size(answer, Turn) \in Nat
    BY <1>1, TurnSize
  <2> QED
    BY <2>1, <2>2
<1>3. left = Entries(answer) - Len(shown) /\ Entries(answer) <= MaxMessages /\ MaxMessages \in Nat
  BY <1>1, <1>2, Listing, StreamAssumption DEF Following, HasEntries
<1> DEFINE all == Whole(Turn, Reading)
<1>4. /\ all \in [Fields -> Seq(Token)] /\ Expected[Turn] = all /\ Len(Expected) = Entries(answer)
      /\ Len(shown) < Len(Expected)
  <2>1. all \in [Fields -> Seq(Token)]
    BY <1>1, AtTurn
  <2>2. Expected[Turn] = all /\ Len(Expected) = Entries(answer)
    BY <1>2, ExpectedIs DEF Reading
  <2> QED
    BY <1>2, <2>1, <2>2
<1> HIDE DEF all
<1>5. (\A f \in Fields : entry[f] = all[f]) => entry = all
  BY <1>1, <1>4
<1>6. /\ ShownRight' /\ shown' \in Seq([Fields -> Seq(Token)])
      /\ Len(shown') = Len(shown) + 1 /\ Len(shown') <= MaxMessages + MaxUsers + 1
  <2>1. \A f \in Fields : entry[f] \in {<< >>, Expected[Len(shown) + 1][f]}
    BY <1>2, <1>4 DEF all
  <2>2. (Len(shown) + 1 <= whole \/ child # "died") => entry = Expected[Len(shown) + 1]
    BY <1>1, <1>2, <1>4, <1>5 DEF all
  <2> QED
    BY <1>1, <1>4, <2>1, <2>2, ShowsMore
<1>7. PICK b \in Nat : b = Begins(Turn + 1)
  BY <1>2
<1>8. /\ wire' \in Seq(Token) /\ Word \in Seq(Token)
      /\ Turn < Entries(answer) =>
           \/ Word = <<Tok("mid", Turn + 1)>> /\ Carries(b + 2)'
           \/ /\ Word \in {<< >>, <<Tok("mid", Turn + 1)>>} /\ wire' = << >>
              /\ child = "died" /\ whole < Turn + 1
  <2>1. CASE Carries(Begins(Turn + 1))
    BY <1>7, <2>1, WordBehind
  <2>2. CASE child = "died" /\ Word = << >> /\ wire' = << >> /\ whole <= Turn
    <3>1. << >> \in Seq(Token)
      OBVIOUS
    <3> QED
      BY <1>1, <1>2, <2>2, <3>1
  <2> QED
    BY <2>1, <2>2
<1>9. left' \in 0..MaxMessages /\ left' = Entries(answer) - Len(shown')
  BY <1>2, <1>3, <1>6 DEF Shows
<1>10. held' \in Seq(Token) /\ entry' \in [Fields -> Seq(Token)]
  BY <1>8, EntryFields DEF Shows
<1>11. \/ pc' = "done" /\ Turn = Entries(answer)
       \/ pc' = "uid" /\ Turn < Entries(answer)
  <2>1. /\ left = Entries(answer) - Len(shown) /\ Turn = Len(shown) + 1
        /\ Entries(answer) \in Nat /\ Len(shown) \in Nat /\ Turn \in 1..Entries(answer)
    BY <1>2, <1>3
  <2>2. left - 1 = 0 <=> Turn = Entries(answer)
    BY ONLY <2>1
  <2>3. Turn = Entries(answer) \/ Turn < Entries(answer)
    BY ONLY <2>1
  <2>4. pc' = IF left - 1 = 0 THEN "done" ELSE "uid"
    BY DEF LoopOn
  <2> QED
    BY ONLY <2>1, <2>2, <2>3, <2>4
<1>12. Typing'
  <2>1. pc' \in Stages /\ DOMAIN entry' = DOMAIN NoEntry
    BY <1>10, <1>11 DEF Stages, Fields
  <2>2. TypeOK'
    BY <1>1, <1>6, <1>9, <2>1 DEF Typing, TypeOK
  <2> QED
    BY <1>6, <1>8, <1>10, <2>2 DEF Typing, Fields, NoEntry
<1>13. CASE pc' = "done"
  BY <1>1, <1>6, <1>12, <1>13
     DEF RInv, Following, SpinsOnlyInside, EntryStages, FileStages, EarlyStages
<1>14. CASE pc' = "uid" /\ Turn < Entries(answer)
  <2>1. PICK k \in 1..Entries(answer) : k = Turn + 1
    BY <1>2, <1>14
  <2>2. Turn' = k
    BY <1>2, <1>6, <2>1 DEF Turn
  <2>3. b + 2 = Begins(k) + 2 /\ b + 2 \in Nat
    BY <1>7, <2>1
  <2>4. InPlace' \/ Short'
    BY <1>1, <1>2, <1>8, <1>14, <2>1, <2>2, <2>3, Starts DEF Shows
  <2>5. Len(shown') < Entries(answer)
    BY <1>2, <1>6, <1>14
  <2>6. Following'
    BY <1>1, <1>2, <1>9, <1>14, <2>4, <2>5
       DEF Following, SpinsOnlyInside, EntryStages, FileStages, EarlyStages
  <2> QED
    BY <1>1, <1>6, <1>12, <2>6 DEF RInv
<1> QED
  BY <1>11, <1>13, <1>14

(* The word behind a file. *)
LEMMA NextStep ==
  ASSUME RInv, ReadNext
  PROVE  RInv'
<1>1. /\ pc = "next" /\ WordReady /\ KeepsFrom(WordLen + 2) /\ pc' = LoopOn(left - 1) /\ ChildRests
      /\ Shows(Word) /\ shown' = Append(shown, entry)
  BY DEF ReadNext, Reads, KeepsFrom, ChildRests
<1>2. Typing /\ Following /\ pc \in EntryStages
  BY <1>1 DEF RInv, EntryStages
<1>3. HasFile(Reading)
  BY <1>1, <1>2, AtEntry DEF FileStages
<1>4. Place = Begins(Turn + 1)
  <2>1. Begins(Turn + 1) = Begins(Turn) + Size(answer, Turn)
    BY <1>2, AtEntry
  <2>2. Place = Begins(Turn) + 14 + Reading.text + Reading.file
    BY <1>1, Places
  <2>3. /\ Begins(Turn) \in Nat /\ Reading.text \in Nat /\ Reading.file \in Nat
        /\ Size(answer, Turn) = 14 + Reading.text + Reading.file
    BY <1>2, <1>3, TurnSize
  <2> QED
    BY <2>1, <2>2, <2>3
<1>5. CASE InPlace
  <2>1. FieldsRead = Fields
    BY <1>1 DEF FieldsRead
  <2>2. Carries(Begins(Turn + 1)) /\ \A f \in Fields : entry[f] = Whole(Turn, Reading)[f]
    BY <1>2, <1>4, <1>5, <2>1 DEF InPlace
  <2> QED
    BY <1>1, <1>2, <2>2, NextEntry
<1>6. CASE Short
  <2>1. /\ child = "died" /\ whole <= Turn /\ wire = << >>
        /\ \A f \in Fields : entry[f] \in {<< >>, Whole(Turn, Reading)[f]}
        /\ whole = Turn => \A f \in Fields : entry[f] = Whole(Turn, Reading)[f]
    BY <1>2, <1>6 DEF Short
  <2>2. Word = << >> /\ wire' = << >>
    BY <1>1, <2>1, DryWord
  <2> QED
    BY <1>1, <1>2, <2>1, <2>2, NextEntry
<1> QED
  BY <1>2, <1>5, <1>6, PartlyRead

(* The word behind a text: a slash before a file, or what comes behind.    *)
LEMMA SlashStep ==
  ASSUME RInv, ReadSlash
  PROVE  RInv'
<1> DEFINE slash == Tok("/", 0)
           GoesOn == /\ pc' = "fname" /\ UNCHANGED <<left, held, entry, shown>>
           ShowsIt == /\ pc' = LoopOn(left - 1) /\ Shows(Word) /\ shown' = Append(shown, entry)
<1>1. /\ pc = "slash" /\ WordReady /\ KeepsFrom(WordLen + 2) /\ ChildRests
      /\ \/ Says(Word, "/") /\ GoesOn
         \/ ~Says(Word, "/") /\ ShowsIt
  BY DEF ReadSlash, Reads, KeepsFrom, ChildRests
<1>2. /\ Typing /\ Following /\ pc \in EntryStages /\ held \in Seq(Token)
      /\ entry \in [Fields -> Seq(Token)]
  BY <1>1 DEF RInv, Typing, EntryStages
<1>3. /\ Begins(Turn) \in Nat /\ Reading.text \in Nat /\ Size(answer, Turn) \in Nat
      /\ Turn \in Nat /\ Begins(Turn + 1) = Begins(Turn) + Size(answer, Turn)
      /\ Place = Begins(Turn) + 7 + Reading.text
  BY <1>1, <1>2, AtEntry, TurnSize, Places
<1>4. PICK b \in Nat : b = Place
  BY <1>3
<1>5. Says(<<slash>>, "/") /\ ~Says(<< >>, "/") /\ ~Says(<<Tok("mid", Turn + 1)>>, "/")
  BY DEF Says, Tok
<1>6. /\ FieldsRead = {"mid", "uid", "text"}
      /\ InPlace => \A f \in Fields :
           entry[f] = IF f \in FieldsRead THEN Whole(Turn, Reading)[f] ELSE << >>
  <2>1. FieldsRead = {"mid", "uid", "text"}
    BY <1>1 DEF FieldsRead
  <2> QED
    BY <1>2, <2>1 DEF InPlace
<1>7. CASE InPlace /\ ~HasFile(Reading)
  <2>1. Place = Begins(Turn + 1)
    <3>1. Size(answer, Turn) = 7 + Reading.text
      BY <1>2, <1>7, TurnSize
    <3> QED
      BY <1>3, <3>1
  <2>2. Carries(Begins(Turn + 1)) /\ b = Begins(Turn + 1)
    BY <1>4, <1>7, <2>1 DEF InPlace
  <2>3. Word \in {<< >>, <<Tok("mid", Turn + 1)>>}
    BY <1>1, <1>2, <2>2, WordBehind
  <2>4. ShowsIt
    BY <1>1, <1>5, <2>3
  <2>5. \A f \in Fields : entry[f] = Whole(Turn, Reading)[f]
    BY <1>2, <1>6, <1>7, AtTurn, EntryFields
  <2> QED
    BY <1>1, <1>2, <2>2, <2>4, <2>5, NextEntry
<1>8. CASE Short
  <2>1. /\ child = "died" /\ whole <= Turn /\ wire = << >>
        /\ \A f \in Fields : entry[f] \in {<< >>, Whole(Turn, Reading)[f]}
        /\ whole = Turn => \A f \in Fields : entry[f] = Whole(Turn, Reading)[f]
    BY <1>2, <1>8 DEF Short
  <2>2. Word = << >> /\ wire' = << >>
    BY <1>1, <2>1, DryWord
  <2>3. ShowsIt
    BY <1>1, <1>5, <2>2
  <2> QED
    BY <1>1, <1>2, <2>1, <2>2, <2>3, NextEntry
<1>9. CASE InPlace /\ HasFile(Reading)
  <2> DEFINE j == 8 + Reading.text
  <2>1. /\ j \in 1..Size(answer, Turn) /\ j + 1 < Size(answer, Turn)
        /\ Begins(Turn) + j = b + 1 /\ b + 2 = Begins(Turn) + 9 + Reading.text
        /\ j + 1 = 9 + Reading.text /\ b + 2 \in Nat
    <3>1. /\ Begins(Turn) \in Nat /\ Reading.text \in Nat /\ Reading.file \in Nat
          /\ Size(answer, Turn) = 14 + Reading.text + Reading.file
      BY <1>2, <1>9, TurnSize
    <3> QED
      BY <1>3, <1>4, <3>1
  <2>2. /\ At(answer, Turn, j) = slash /\ IsSeparator(At(answer, Turn, j + 1))
        /\ ~IsSeparator(slash)
    BY <1>2, <1>9, <2>1, AtTurn, Tokens, WordTokens DEF IsWord
  <2> HIDE DEF slash, j, GoesOn, ShowsIt
  <2>3. /\ wire' \in Seq(Token)
        /\ \/ InPlace /\ Word = <<slash>> /\ Carries(b + 2)'
           \/ /\ Word \in {<< >>, <<slash>>} /\ wire' = << >>
              /\ child = "died" /\ whole < Turn
    BY <1>1, <1>2, <1>4, <1>9, <2>1, <2>2, EntryWord
  <2>4. /\ \A f \in Fields : entry[f] \in {<< >>, Whole(Turn, Reading)[f]}
        /\ whole < Turn => whole <= Turn /\ whole # Turn
    BY <1>2, <1>3, PartlyRead DEF Typing, TypeOK
  <2>5. CASE GoesOn
    <3>1. /\ pc' = "fname" /\ UNCHANGED <<left, held, entry, shown>>
      BY <2>5 DEF GoesOn
    <3>2. pc' \in EntryStages /\ Place' = b + 2 /\ FieldsRead' = FieldsRead
      <4>1. answer' = answer /\ shown' = shown
        BY <1>1, <3>1 DEF ChildRests
      <4>2. Place' = Begins(Turn) + 9 + Reading.text
        BY <3>1, <4>1, PlacesAfter
      <4>3. FieldsRead' = {"mid", "uid", "text"}
        BY <3>1 DEF FieldsRead
      <4> QED
        BY <1>6, <2>1, <3>1, <4>2, <4>3 DEF EntryStages
    <3>3. InPlace' \/ Short'
      <4>1. CASE Carries(b + 2)'
        BY <1>1, <1>6, <1>9, <2>1, <3>1, <3>2, <4>1, GetsOn
      <4>2. CASE wire' = << >> /\ child = "died" /\ whole < Turn
        BY <1>1, <2>4, <3>1, <3>2, <4>2, RunsDry
      <4> QED
        BY <2>3, <4>1, <4>2
    <3> QED
      BY <1>1, <1>2, <1>9, <2>3, <3>1, <3>2, <3>3, SameTurn
  <2>6. CASE ~Says(Word, "/") /\ ShowsIt
    <3>1. Word = << >> /\ wire' = << >> /\ child = "died" /\ whole < Turn
      BY <1>5, <2>3, <2>6
    <3> QED
      BY <1>1, <1>2, <2>4, <2>6, <3>1, NextEntry DEF ShowsIt
  <2> QED
    BY <1>1, <2>5, <2>6
<1> QED
  BY <1>2, <1>7, <1>8, <1>9, PartlyRead

(* What stands before the entries. *)
LEMMA AtStart ==
  ASSUME NEW a \in Answers
  PROVE  /\ 0 \in 0..Entries(a) /\ Size(a, 0) \in Nat /\ Size(a, 0) >= 4
         /\ Layout(a)[0] = 0 /\ Layout(a)[1] = Size(a, 0)
         /\ ~IsSeparator(At(a, 0, 1)) /\ IsSeparator(At(a, 0, 2))
         /\ At(a, 0, 3) = Tok(a.status, 0) /\ ~IsSeparator(At(a, 0, 3)) /\ IsSeparator(At(a, 0, 4))
         /\ HasEntries(a) =>
              /\ Size(a, 0) = 6 /\ At(a, 0, 5) = Tok("size", Entries(a))
              /\ ~IsSeparator(At(a, 0, 5)) /\ IsSeparator(At(a, 0, 6))
         /\ a.to = "ulist" /\ a.status = "OK" =>
              /\ Entries(a) = 0 /\ Size(a, 0) = 7 + 2 * Len(a.list)
              /\ At(a, 0, 5) = Tok("name", 0)
              /\ ~IsSeparator(At(a, 0, 5)) /\ IsSeparator(At(a, 0, 6))
<1>1. /\ Len(First(a)) \in Nat /\ Len(First(a)) >= 4
      /\ ~IsSeparator(First(a)[1]) /\ IsSeparator(First(a)[2])
      /\ First(a)[3] = Tok(a.status, 0) /\ IsSeparator(First(a)[4])
      /\ HasEntries(a) => Len(First(a)) = 5 /\ First(a)[5] = Tok("size", Len(a.list))
      /\ a.to = "ulist" /\ a.status = "OK" =>
           /\ Len(First(a)) = 7 + 2 * Len(a.list) /\ First(a)[5] = Tok("name", 0) /\ First(a)[6] = SP
  BY FirstTokens
<1>2. 0 \in 0..Entries(a) /\ Len(a.list) \in Nat /\ (HasEntries(a) => Entries(a) = Len(a.list))
  BY Listing
<1>3. Layout(a)[0] = 0 /\ Layout(a)[1] = Size(a, 0)
  <2>1. Layout(a)[0] = 0 /\ Layout(a)[0 + 1] = Layout(a)[0] + Size(a, 0) /\ Size(a, 0) \in Nat
    BY <1>2, LayoutLaws, Sizes
  <2> QED
    BY <2>1
<1>4. /\ Size(a, 0) \in Nat /\ Size(a, 0) >= 4 /\ (HasEntries(a) => Size(a, 0) = 6)
      /\ a.to = "ulist" => ~HasEntries(a)
      /\ ~HasEntries(a) => Size(a, 0) = Len(First(a)) /\ Entries(a) = 0
  BY <1>1 DEF Size, HasEntries, Entries
<1>5. ~IsSeparator(Tok(a.status, 0))
  <2>1. a.status \in {"OK", "EOF", "NOK"}
    BY Listing
  <2>2. 0 \in Nat /\ "OK" \in Words /\ "EOF" \in Words /\ "NOK" \in Words
    BY DEF Words
  <2> QED
    BY <2>1, <2>2, Tokens
<1>6. ~IsSeparator(Tok("size", Len(a.list))) /\ ~IsSeparator(Tok("name", 0)) /\ IsSeparator(SP)
  BY <1>2, Tokens, WordTokens DEF IsWord
<1>7. \A j \in 1..4 : At(a, 0, j) = First(a)[j]
  BY <1>1 DEF At
<1>8. /\ HasEntries(a) => At(a, 0, 5) = First(a)[5] /\ At(a, 0, 6) = SP
      /\ a.to = "ulist" /\ a.status = "OK" => At(a, 0, 5) = First(a)[5] /\ At(a, 0, 6) = First(a)[6]
  BY <1>1, <1>2 DEF At
<1> QED
  BY <1>1, <1>2, <1>3, <1>4, <1>5, <1>6, <1>7, <1>8

(* The client reads a word before the entries. *)
LEMMA EarlyWord ==
  ASSUME RInv, pc \in EarlyStages \cup {"user"}, NEW b \in Nat, b = Place, NEW token,
         NEW j \in 1..Size(answer, 0), j = b + 1, j + 1 \in 1..Size(answer, 0),
         At(answer, 0, j) = token, ~IsSeparator(token), IsSeparator(At(answer, 0, j + 1)),
         WordReady, KeepsFrom(WordLen + 2), ChildRests
  PROVE  /\ wire' \in Seq(Token)
         /\ \/ InPlace /\ Word = <<token>> /\ Carries(b + 2)'
            \/ /\ Word \in {<< >>, <<token>>} /\ wire' = << >>
               /\ child = "died" /\ whole = 0 /\ (InPlace \/ Short)
<1>1. Typing /\ Making /\ Following /\ answer \in Answers
  BY DEF RInv, Typing, TypeOK
<1>2. /\ 0 \in 0..Entries(answer) /\ Begins(0) = 0 /\ Begins(1) = Size(answer, 0)
      /\ Size(answer, 0) \in Nat
  BY <1>1, AtStart DEF Begins
<1>3. InPlace \/ Short
  BY <1>1 DEF Following, EarlyStages
<1>4. CASE InPlace
  <2>1. Carries(b) /\ Begins(0) + j = b + 1
    BY <1>2, <1>4 DEF InPlace
  <2>2. /\ wire' \in Seq(Token)
        /\ \/ Word = <<token>> /\ Carries(b + 2)'
           \/ /\ Word \in {<< >>, <<token>>} /\ wire' = << >>
              /\ child = "died" /\ Made <= b + 1
    BY <1>1, <1>2, <2>1, WordTaken
  <2>3. child = "died" /\ Made <= b + 1 => whole = 0
    <3>1. SUFFICES ASSUME child = "died", Made <= b + 1 PROVE whole = 0
      OBVIOUS
    <3>2. Made \in Nat
      BY <1>1, <3>1, Fits DEF PieceFits, Making
    <3>3. Made <= Begins(1)
      BY <1>2, <3>1, <3>2
    <3> QED
      BY <1>1, <3>1, <3>3, Early
  <2> QED
    BY <1>4, <2>2, <2>3
<1>5. CASE Short
  <2>1. wire = << >> /\ child = "died" /\ whole = 0
    BY <1>5 DEF Short, EarlyStages, EntryStages
  <2> QED
    BY <1>5, <2>1, DryWord
<1> QED
  BY <1>3, <1>4, <1>5

(* A step before the entries. *)
LEMMA EarlyStep ==
  ASSUME RInv, ChildRests, pc \in EarlyStages, UNCHANGED <<held, entry, shown>>,
         pc' \in {"status", "count", "ahead", "name", "user", "done"},
         wire' \in Seq(Token), left' \in 0..MaxMessages,
         pc' \in {"count", "ahead"} => HasEntries(answer),
         pc' \in {"name", "user"} => answer.to = "ulist" /\ answer.status = "OK",
         NEW b \in Nat, pc' # "done" => b = Place',
         pc' # "done" =>
           \/ Carries(b)' /\ (pc' = "ahead" => left' = Entries(answer))
           \/ /\ wire' = << >> /\ child = "died" /\ whole = 0
              /\ pc' = "ahead" => left' \in {0, Entries(answer)}
  PROVE  RInv'
<1>1. /\ Making' /\ Expected' = Expected /\ answer' = answer /\ part' = part
      /\ whole' = whole /\ child' = child /\ Typing /\ Following /\ ShownRight'
      /\ answer \in Answers
  BY Rests
<1>2. shown = << >> /\ shown' = << >> /\ Len(shown) = 0
  BY <1>1 DEF Following
<1>3. Typing'
  <2>1. TypeOK'
    <3>1. pc' \in Stages
      BY DEF Stages
    <3> QED
      BY <1>1, <3>1 DEF Typing, TypeOK, NoEntry
  <2> QED
    BY <1>1, <2>1 DEF Typing, Fields, NoEntry
<1>4. pc' # "done" => InPlace' \/ Short'
  <2>1. SUFFICES ASSUME pc' # "done" PROVE InPlace' \/ Short'
    OBVIOUS
  <2>2. pc' \notin EntryStages
    BY DEF EntryStages
  <2>3. CASE Carries(b)' /\ (pc' = "ahead" => left' = Entries(answer))
    <3>1. Carries(Place)'
      BY <2>1, <2>3 DEF Carries
    <3> QED
      BY <1>1, <2>2, <2>3, <3>1 DEF InPlace, EntryStages
  <2>4. CASE /\ wire' = << >> /\ child = "died" /\ whole = 0
             /\ pc' = "ahead" => left' \in {0, Entries(answer)}
    BY <1>1, <2>2, <2>4 DEF Short, EntryStages
  <2> QED
    BY <2>1, <2>3, <2>4
<1>5. Len(answer.list) \in Nat
  BY <1>1, Listing
<1>6. Following'
  BY <1>1, <1>2, <1>4, <1>5 DEF Following, SpinsOnlyInside, EntryStages, FileStages, EarlyStages
<1> QED
  BY <1>1, <1>3, <1>6 DEF RInv

(* What the answer is to. *)
LEMMA VerbStep ==
  ASSUME RInv, ReadVerb
  PROVE  RInv'
<1>1. /\ pc = "verb" /\ WordReady /\ KeepsFrom(WordLen + 2) /\ pc' = "status" /\ ChildRests
      /\ UNCHANGED <<left, held, entry, shown>>
  BY DEF ReadVerb, Reads, KeepsFrom, ChildRests
<1>2. answer \in Answers /\ left' \in 0..MaxMessages /\ answer' = answer
  BY <1>1 DEF RInv, Typing, TypeOK, ChildRests
<1>3. 0 = Place /\ 2 = Place'
  BY <1>1, <1>2, Places, PlacesAfter
<1>4. /\ 1 \in 1..Size(answer, 0) /\ 1 + 1 \in 1..Size(answer, 0) /\ 1 = 0 + 1
      /\ ~IsSeparator(At(answer, 0, 1)) /\ IsSeparator(At(answer, 0, 1 + 1))
  BY <1>2, AtStart
<1>5. pc \in EarlyStages
  BY <1>1 DEF EarlyStages
<1>6. /\ wire' \in Seq(Token)
      /\ \/ InPlace /\ Carries(0 + 2)'
         \/ wire' = << >> /\ child = "died" /\ whole = 0
  BY <1>1, <1>3, <1>4, <1>5, EarlyWord
<1>7. 2 \in Nat /\ (Carries(0 + 2)' => Carries(2)')
  OBVIOUS
<1> QED
  BY <1>1, <1>2, <1>3, <1>5, <1>6, <1>7, EarlyStep

(* Whether there is more. *)
LEMMA StatusStep ==
  ASSUME RInv, ReadStatus
  PROVE  RInv'
<1>1. /\ pc = "status" /\ WordReady /\ KeepsFrom(WordLen + 2) /\ ChildRests
      /\ pc' = IF ~Says(Word, "OK") THEN "done"
               ELSE IF answer.to = "ulist" THEN "name" ELSE "count"
      /\ UNCHANGED <<left, held, entry, shown>>
  BY DEF ReadStatus, Reads, KeepsFrom, ChildRests
<1>2. answer \in Answers /\ left' \in 0..MaxMessages /\ answer' = answer
  BY <1>1 DEF RInv, Typing, TypeOK, ChildRests
<1>3. 2 = Place
  BY <1>1, Places
<1> DEFINE token == Tok(answer.status, 0)
<1>4. /\ 3 \in 1..Size(answer, 0) /\ 3 + 1 \in 1..Size(answer, 0) /\ 3 = 2 + 1
      /\ At(answer, 0, 3) = token /\ ~IsSeparator(token) /\ IsSeparator(At(answer, 0, 3 + 1))
  <2>1. /\ At(answer, 0, 3) = token /\ ~IsSeparator(At(answer, 0, 3))
        /\ IsSeparator(At(answer, 0, 4)) /\ Size(answer, 0) \in Nat /\ Size(answer, 0) >= 4
    BY <1>2, AtStart
  <2> QED
    BY <2>1
<1>5. pc \in EarlyStages
  BY <1>1 DEF EarlyStages
<1>6. Says(<<token>>, "OK") => answer.status = "OK"
  BY DEF Says, Tok
<1>7. ~Says(<< >>, "OK")
  BY DEF Says
<1> HIDE DEF token
<1>8. /\ wire' \in Seq(Token)
      /\ \/ InPlace /\ Word = <<token>> /\ Carries(2 + 2)'
         \/ /\ Word \in {<< >>, <<token>>} /\ wire' = << >> /\ child = "died" /\ whole = 0
  BY <1>1, <1>3, <1>4, <1>5, EarlyWord
<1>9. 4 \in Nat /\ (Carries(2 + 2)' => Carries(4)')
  OBVIOUS
<1>10. pc' # "done" => /\ answer.status = "OK" /\ pc' \in {"name", "count"} /\ Place' = 4
                       /\ pc' = "name" <=> answer.to = "ulist"
  <2>1. SUFFICES ASSUME pc' # "done"
                 PROVE  /\ answer.status = "OK" /\ pc' \in {"name", "count"} /\ Place' = 4
                        /\ pc' = "name" <=> answer.to = "ulist"
    OBVIOUS
  <2>2. Says(Word, "OK") /\ pc' \in {"name", "count"} /\ (pc' = "name" <=> answer.to = "ulist")
    BY <1>1, <2>1
  <2>3. answer.status = "OK"
    BY <1>6, <1>7, <1>8, <2>2
  <2> QED
    BY <1>1, <1>2, <2>2, <2>3, PlacesAfter
<1>11. /\ pc' \in {"count", "ahead"} => HasEntries(answer)
       /\ pc' \in {"name", "user"} => answer.to = "ulist" /\ answer.status = "OK"
       /\ pc' \in {"status", "count", "ahead", "name", "user", "done"} /\ pc' # "ahead"
  BY <1>1, <1>2, <1>10, Listing DEF HasEntries
<1>12. pc' # "done" => 4 = Place'
  BY <1>10
<1>13. pc' # "done" =>
         \/ Carries(4)' /\ (pc' = "ahead" => left' = Entries(answer))
         \/ /\ wire' = << >> /\ child = "died" /\ whole = 0
            /\ pc' = "ahead" => left' \in {0, Entries(answer)}
  BY <1>8, <1>9, <1>11
<1> QED
  BY <1>1, <1>2, <1>5, <1>8, <1>9, <1>11, <1>12, <1>13, EarlyStep

(* The number of messages. *)
LEMMA CountStep ==
  ASSUME RInv, ReadCount
  PROVE  RInv'
<1>1. /\ pc = "count" /\ WordReady /\ KeepsFrom(WordLen + 2) /\ ChildRests /\ pc' = "ahead"
      /\ left' = Number(Word) /\ UNCHANGED <<held, entry, shown>>
  BY DEF ReadCount, Reads, KeepsFrom, ChildRests
<1>2. answer \in Answers /\ answer' = answer /\ HasEntries(answer)
  BY <1>1 DEF RInv, Typing, TypeOK, ChildRests, Following
<1>3. 4 = Place /\ 6 = Place'
  BY <1>1, <1>2, Places, PlacesAfter
<1> DEFINE token == Tok("size", Entries(answer))
<1>4. /\ 5 \in 1..Size(answer, 0) /\ 5 + 1 \in 1..Size(answer, 0) /\ 5 = 4 + 1
      /\ At(answer, 0, 5) = token /\ ~IsSeparator(token) /\ IsSeparator(At(answer, 0, 5 + 1))
  <2>1. /\ At(answer, 0, 5) = token /\ ~IsSeparator(At(answer, 0, 5))
        /\ IsSeparator(At(answer, 0, 6)) /\ Size(answer, 0) = 6
    BY <1>2, AtStart
  <2> QED
    BY <2>1
<1>5. pc \in EarlyStages
  BY <1>1 DEF EarlyStages
<1>6. Number(<<token>>) = Entries(answer)
  BY DEF Number, Tok
<1>7. Number(<< >>) = 0
  BY DEF Number
<1>8. Entries(answer) \in 0..MaxMessages /\ 0 \in 0..MaxMessages
  BY <1>2, Listing, StreamAssumption DEF HasEntries
<1> HIDE DEF token
<1>9. /\ wire' \in Seq(Token)
      /\ \/ InPlace /\ Word = <<token>> /\ Carries(4 + 2)'
         \/ /\ Word \in {<< >>, <<token>>} /\ wire' = << >> /\ child = "died" /\ whole = 0
  BY <1>1, <1>3, <1>4, <1>5, EarlyWord
<1>10. 6 \in Nat /\ (Carries(4 + 2)' => Carries(6)')
  OBVIOUS
<1>11. /\ left' \in 0..MaxMessages
       /\ \/ Carries(6)' /\ left' = Entries(answer)
          \/ /\ wire' = << >> /\ child = "died" /\ whole = 0
             /\ left' \in {0, Entries(answer)}
  BY <1>1, <1>6, <1>7, <1>8, <1>9, <1>10
<1> QED
  BY <1>1, <1>2, <1>3, <1>5, <1>9, <1>10, <1>11, EarlyStep

(* The name of the group. *)
LEMMA NameStep ==
  ASSUME RInv, ReadName
  PROVE  RInv'
<1>1. /\ pc = "name" /\ WordReady /\ KeepsFrom(WordLen + 2) /\ ChildRests
      /\ pc' = IF Word = << >> THEN "done" ELSE "user"
      /\ UNCHANGED <<left, held, entry, shown>>
  BY DEF ReadName, Reads, KeepsFrom, ChildRests
<1>2. /\ answer \in Answers /\ answer' = answer /\ answer.to = "ulist" /\ answer.status = "OK"
      /\ left' \in 0..MaxMessages /\ shown = << >>
  BY <1>1 DEF RInv, Typing, TypeOK, ChildRests, Following, EarlyStages
<1>3. 4 = Place /\ (pc' = "user" => 6 = Place')
  <2>1. pc' = "user" => Place' = 6 + 2 * Len(shown)
    BY <1>1, <1>2, PlacesAfter
  <2>2. Len(shown) = 0
    BY <1>2
  <2> QED
    BY <1>1, <2>1, <2>2, Places
<1> DEFINE token == Tok("name", 0)
<1>4. /\ 5 \in 1..Size(answer, 0) /\ 5 + 1 \in 1..Size(answer, 0) /\ 5 = 4 + 1
      /\ At(answer, 0, 5) = token /\ ~IsSeparator(token) /\ IsSeparator(At(answer, 0, 5 + 1))
  <2>1. /\ At(answer, 0, 5) = token /\ ~IsSeparator(At(answer, 0, 5))
        /\ IsSeparator(At(answer, 0, 6)) /\ Size(answer, 0) = 7 + 2 * Len(answer.list)
        /\ Len(answer.list) \in Nat
    BY <1>2, AtStart, Listing
  <2> QED
    BY <2>1
<1>5. pc \in EarlyStages
  BY <1>1 DEF EarlyStages
<1> HIDE DEF token
<1>6. /\ wire' \in Seq(Token)
      /\ \/ InPlace /\ Word = <<token>> /\ Carries(4 + 2)'
         \/ /\ Word \in {<< >>, <<token>>} /\ wire' = << >> /\ child = "died" /\ whole = 0
  BY <1>1, <1>3, <1>4, <1>5, EarlyWord
<1>7. 6 \in Nat /\ (Carries(4 + 2)' => Carries(6)')
  OBVIOUS
<1>8. pc' \in {"user", "done"}
  BY <1>1
<1> QED
  BY <1>1, <1>2, <1>3, <1>5, <1>6, <1>7, <1>8, EarlyStep

(* The word before the loop: the first MID. *)
LEMMA AheadStep ==
  ASSUME RInv, ReadAhead
  PROVE  RInv'
<1>1. /\ pc = "ahead" /\ WordReady /\ KeepsFrom(WordLen + 2) /\ ChildRests /\ pc' = LoopOn(left)
      /\ held' = Word /\ entry' = [NoEntry EXCEPT !.mid = Word] /\ left' = left /\ shown' = shown
  BY DEF ReadAhead, Reads, KeepsFrom, ChildRests
<1>2. /\ Typing /\ Making /\ Following /\ answer \in Answers /\ answer' = answer
      /\ HasEntries(answer) /\ shown = << >> /\ left' \in 0..MaxMessages
      /\ whole' = whole /\ child' = child /\ part' = part /\ Making' /\ ShownRight'
      /\ whole \in Nat
  BY <1>1, Rests DEF Typing, TypeOK, Following, EarlyStages
<1>3. /\ 1 \in 1..Entries(answer) /\ 1 \in 0..Entries(answer) /\ Entries(answer) \in Nat \ {0}
      /\ Turn' = 1 /\ Len(shown') = 0
  <2>1. Entries(answer) \in Nat \ {0}
    BY <1>2, Listing
  <2>2. shown' = << >>
    BY <1>1, <1>2
  <2> QED
    BY <2>1, <2>2 DEF Turn
<1>4. Place = 6 /\ Begins(1) = 6
  BY <1>1, <1>2, Places, AtStart DEF Begins
<1> DEFINE token == Tok("mid", 1)
<1>5. Size(answer, 1) \in Nat /\ Size(answer, 1) >= 7 /\ Begins(1 + 1) = Begins(1) + Size(answer, 1)
  <2>1. answer.list[1].text \in Nat /\ (HasFile(answer.list[1]) => answer.list[1].file \in Nat)
    BY <1>2, <1>3, Message
  <2>2. Begins(1 + 1) = Begins(1) + Size(answer, 1)
    BY <1>2, <1>3, LayoutLaws DEF Begins
  <2> QED
    BY <2>1, <2>2 DEF Size
<1>6. /\ 1 \in 1..Size(answer, 1) /\ 1 + 1 \in 1..Size(answer, 1) /\ Begins(1) + 1 = 6 + 1
      /\ At(answer, 1, 1) = token /\ ~IsSeparator(token) /\ IsSeparator(At(answer, 1, 1 + 1))
      /\ <<token>> \in Seq(Token) /\ << >> \in Seq(Token)
  <2>1. At(answer, 1, 1) = token /\ At(answer, 1, 2) = SP
    BY <1>2, <1>3, EntryTokens
  <2>2. token \in Token /\ ~IsSeparator(token) /\ IsSeparator(SP)
    BY Tokens, WordTokens DEF IsWord
  <2> HIDE DEF token
  <2>3. <<token>> \in Seq(Token) /\ << >> \in Seq(Token)
    BY <2>2
  <2> QED
    BY <1>4, <1>5, <2>1, <2>2, <2>3
<1> HIDE DEF token
<1>7. InPlace \/ Short
  BY <1>1, <1>2 DEF Following
<1>8. /\ wire' \in Seq(Token) /\ left \in {0, Entries(answer)}
      /\ \/ Word = <<token>> /\ Carries(6 + 2)'
         \/ Word \in {<< >>, <<token>>} /\ wire' = << >> /\ child = "died" /\ whole < 1
  <2>1. CASE InPlace
    <3>1. Carries(6) /\ left = Entries(answer)
      BY <1>1, <1>4, <2>1 DEF InPlace
    <3>2. /\ wire' \in Seq(Token)
          /\ \/ Word = <<token>> /\ Carries(6 + 2)'
             \/ /\ Word \in {<< >>, <<token>>} /\ wire' = << >>
                /\ child = "died" /\ Made <= 6 + 1
      BY <1>1, <1>2, <1>3, <1>6, <3>1, WordTaken
    <3>3. child = "died" /\ Made <= 6 + 1 => whole < 1
      <4>1. SUFFICES ASSUME child = "died", Made <= 6 + 1 PROVE whole < 1
        OBVIOUS
      <4>2. Made \in Nat
        BY <1>2, <4>1, Fits DEF PieceFits, Making
      <4>3. Made < Begins(1 + 1) - 1
        BY <1>4, <1>5, <4>1, <4>2
      <4> QED
        BY <1>2, <1>3, <4>1, <4>3, NotWhole
    <3> QED
      BY <3>1, <3>2, <3>3
  <2>2. CASE Short
    <3>1. wire = << >> /\ child = "died" /\ whole = 0 /\ left \in {0, Entries(answer)}
      BY <1>1, <2>2 DEF Short, EntryStages
    <3> QED
      BY <1>1, <3>1, DryWord
  <2> QED
    BY <1>7, <2>1, <2>2
<1>9. Word \in Seq(Token) /\ held' \in Seq(Token) /\ entry' \in [Fields -> Seq(Token)]
  <2>1. Word \in Seq(Token)
    BY <1>6, <1>8
  <2> QED
    BY <1>1, <2>1, EntryFields
<1>10. \/ pc' = "done"
       \/ pc' = "uid" /\ left' = Entries(answer)
  BY <1>1, <1>8 DEF LoopOn
<1>11. Typing'
  <2>1. pc' \in Stages /\ DOMAIN entry' = DOMAIN NoEntry
    BY <1>9, <1>10 DEF Stages, Fields
  <2>2. TypeOK'
    BY <1>1, <1>2, <2>1 DEF Typing, TypeOK
  <2> QED
    BY <1>1, <1>2, <1>8, <1>9, <2>2 DEF Typing, Fields, NoEntry
<1>12. CASE pc' = "done"
  BY <1>2, <1>11, <1>12
     DEF RInv, Following, SpinsOnlyInside, EntryStages, FileStages, EarlyStages
<1>13. CASE pc' = "uid" /\ left' = Entries(answer)
  <2>1. 6 + 2 = Begins(1) + 2 /\ 6 + 2 \in Nat
    BY <1>4
  <2>2. InPlace' \/ Short'
    BY <1>1, <1>2, <1>3, <1>8, <1>9, <1>13, <2>1, Starts DEF token
  <2>3. Following'
    BY <1>2, <1>3, <1>13, <2>2
       DEF Following, SpinsOnlyInside, EntryStages, FileStages, EarlyStages
  <2> QED
    BY <1>2, <1>11, <2>3 DEF RInv
<1> QED
  BY <1>10, <1>12, <1>13

(* What stands where a user is to be read, and where they end. *)
LEMMA AtUser ==
  ASSUME NEW a \in Answers, a.to = "ulist", a.status = "OK", NEW u \in 0..Len(a.list)
  PROVE  /\ u < Len(a.list) =>
              At(a, 0, 7 + 2 * u) = Tok("uid", u + 1) /\ At(a, 0, 8 + 2 * u) = SP
         /\ u = Len(a.list) => At(a, 0, 7 + 2 * u) = NL
<1> DEFINE n == Len(a.list)
<1>1. n \in Nat /\ DOMAIN a.list = 1..n
  BY Listing
<1>2. /\ Len(First(a)) = 7 + 2 * n
      /\ \A v \in 1..n : First(a)[5 + 2 * v] = Tok("uid", v) /\ First(a)[6 + 2 * v] = SP
      /\ First(a)[7 + 2 * n] = NL
  BY <1>1, FirstTokens
<1> HIDE DEF n
<1>3. \A j \in 1..(7 + 2 * n) : At(a, 0, j) = First(a)[j]
  BY <1>1, <1>2 DEF At
<1>4. ASSUME u < n
      PROVE  At(a, 0, 7 + 2 * u) = Tok("uid", u + 1) /\ At(a, 0, 8 + 2 * u) = SP
  <2>1. u + 1 \in 1..n /\ 5 + 2 * (u + 1) = 7 + 2 * u /\ 6 + 2 * (u + 1) = 8 + 2 * u
    BY <1>1, <1>4
  <2>2. First(a)[5 + 2 * (u + 1)] = Tok("uid", u + 1) /\ First(a)[6 + 2 * (u + 1)] = SP
    BY <1>2, <2>1
  <2>3. 7 + 2 * u \in 1..(7 + 2 * n) /\ 8 + 2 * u \in 1..(7 + 2 * n)
    BY <1>1, <1>4
  <2> QED
    BY <1>3, <2>1, <2>2, <2>3
<1>5. ASSUME u = n
      PROVE  At(a, 0, 7 + 2 * u) = NL
  <2>1. 7 + 2 * n \in 1..(7 + 2 * n)
    BY <1>1
  <2> QED
    BY <1>2, <1>3, <1>5, <2>1
<1> QED
  BY <1>4, <1>5 DEF n

(* The word behind the last user is empty. *)
LEMMA UsersEnd ==
  ASSUME Typing, answer.to = "ulist", answer.status = "OK", Len(shown) = Len(answer.list),
         InPlace \/ wire = << >>, pc = "user", KeepsFrom(WordLen + 2)
  PROVE  Word = << >> /\ wire' \in Seq(Token)
<1>1. answer \in Answers /\ wire \in Seq(Token) /\ Len(wire) \in Nat /\ Len(answer.list) \in Nat
  BY Listing DEF Typing, TypeOK
<1>2. CASE Len(wire) = 0
  <2>1. wire = << >>
    BY <1>1, <1>2
  <2> QED
    BY <2>1, DryWord
<1>3. CASE Len(wire) >= 1
  <2> DEFINE n == Len(answer.list)
  <2>1. InPlace
    BY <1>1, <1>3
  <2>2. PICK b \in Nat : b = 6 + 2 * n
    BY <1>1
  <2>3. Carries(b)
    BY <2>1, <2>2, Places DEF InPlace
  <2>4. /\ 0 \in 0..Entries(answer) /\ Size(answer, 0) = 7 + 2 * n /\ Begins(0) = 0
    BY <1>1, AtStart DEF Begins
  <2>5. 7 + 2 * n \in 1..Size(answer, 0) /\ Begins(0) + (7 + 2 * n) = b + 1 /\ 1 \in 1..Len(wire)
    BY <1>1, <1>3, <2>2, <2>4
  <2>6. wire[1] = At(answer, 0, 7 + 2 * n)
    BY <2>3, <2>4, <2>5, OnPlace
  <2>7. n \in 0..Len(answer.list)
    BY <1>1
  <2>8. IsSeparator(wire[1])
    <3>1. At(answer, 0, 7 + 2 * n) = NL
      BY <1>1, <2>7, AtUser
    <3> QED
      BY <2>6, <3>1, Tokens
  <2>9. WordLen = 0 /\ Word = << >>
    BY <1>1, <1>3, <2>8, WordEnds
  <2>10. wire' \in Seq(Token)
    <3>1. KeepsFrom(2)
      BY <2>9
    <3>2. \A i \in 2..Len(wire) : wire[i] \in Token
      BY <1>1
    <3>3. SubSeq(wire, 2, Len(wire)) \in Seq(Token)
      BY <1>1, <3>2, SubSeqProperties
    <3> QED
      BY <3>1, <3>3 DEF KeepsFrom
  <2> QED
    BY <2>9, <2>10
<1> QED
  BY <1>1, <1>2, <1>3

(* A user of the group, or the end of them. *)
LEMMA UserStep ==
  ASSUME RInv, ReadUser
  PROVE  RInv'
<1> DEFINE u == Len(shown)
           n == Len(answer.list)
           token == Tok("uid", u + 1)
           x == [NoEntry EXCEPT !.uid = Word]
<1>1. /\ pc = "user" /\ WordReady /\ KeepsFrom(WordLen + 2) /\ ChildRests
      /\ pc' = IF Word = << >> THEN "done" ELSE "user"
      /\ left' = left /\ held' = held /\ entry' = entry /\ shown' = Append(shown, x)
  BY DEF ReadUser, Reads, KeepsFrom, ChildRests
<1>2. /\ Typing /\ Making /\ Following /\ answer \in Answers /\ answer' = answer
      /\ answer.to = "ulist" /\ answer.status = "OK" /\ u <= n
      /\ whole' = whole /\ child' = child /\ part' = part /\ Making' /\ whole \in Nat
      /\ InPlace \/ Short
  BY <1>1, Rests DEF Typing, TypeOK, Following
<1>3. u \in 0..n /\ u \in Nat /\ n \in Nat /\ Entries(answer) = 0 /\ whole = 0
  <2>1. u \in Nat
    BY <1>2 DEF Typing
  <2>2. n \in Nat /\ Entries(answer) = 0
    BY <1>2, Listing, AtStart
  <2>3. whole \in 0..0
    BY <1>2, <2>2, Around
  <2> QED
    BY <1>2, <2>1, <2>2, <2>3
<1>4. PICK b \in Nat : b = Place /\ b = 6 + 2 * u
  <2>1. Place = 6 + 2 * u
    BY <1>1, Places
  <2> QED
    BY <1>3, <2>1
<1>5. /\ Len(Expected) = n + 1 /\ (u = n => Expected[u + 1] = NoEntry)
      /\ u < n => Expected[u + 1] = [NoEntry EXCEPT !.uid = <<token>>]
  <2>1. /\ Len(Expected) = n + 1 /\ Expected[n + 1] = NoEntry
        /\ \A v \in 1..n : Expected[v] = [NoEntry EXCEPT !.uid = <<Tok("uid", v)>>]
    BY <1>2, ExpectedIs
  <2>2. u < n => u + 1 \in 1..n
    BY <1>3
  <2> QED
    BY <2>1, <2>2
<1>6. /\ token \in Token /\ ~IsSeparator(token)
      /\ u < n => At(answer, 0, 7 + 2 * u) = token /\ IsSeparator(At(answer, 0, 8 + 2 * u))
  <2>1. token \in Token /\ ~IsSeparator(token)
    BY <1>3, WordTokens DEF IsWord
  <2> QED
    BY <1>2, <1>3, <2>1, AtUser, Tokens
<1> HIDE DEF u, n, token, x
<1>7. <<token>> \in Seq(Token) /\ << >> \in Seq(Token)
  BY <1>6
<1>8. \/ /\ u < n /\ Word = <<token>> /\ Carries(b + 2)' /\ wire' \in Seq(Token)
      \/ /\ u < n /\ Word \in {<< >>, <<token>>} /\ wire' = << >> /\ child = "died"
      \/ u = n /\ Word = << >> /\ wire' \in Seq(Token)
  <2>1. CASE u < n
    <3> DEFINE j == 7 + 2 * u
    <3>1. /\ j \in 1..Size(answer, 0) /\ j + 1 \in 1..Size(answer, 0) /\ j = b + 1
          /\ j + 1 = 8 + 2 * u
      <4>1. Size(answer, 0) = 7 + 2 * n
        BY <1>2, AtStart DEF n
      <4> QED
        BY <1>3, <1>4, <2>1, <4>1
    <3> HIDE DEF j
    <3>2. At(answer, 0, j) = token /\ IsSeparator(At(answer, 0, j + 1))
      BY <1>6, <2>1, <3>1 DEF j
    <3>3. /\ wire' \in Seq(Token)
          /\ \/ Word = <<token>> /\ Carries(b + 2)'
             \/ Word \in {<< >>, <<token>>} /\ wire' = << >> /\ child = "died"
      BY <1>1, <1>4, <1>6, <3>1, <3>2, EarlyWord
    <3> QED
      BY <2>1, <3>3
  <2>2. CASE u = n
    <3>1. InPlace \/ wire = << >>
      BY <1>2 DEF Short
    <3> QED
      BY <1>1, <1>2, <2>2, <3>1, UsersEnd DEF u, n
  <2> QED
    BY <1>3, <2>1, <2>2
<1>9. Word \in Seq(Token) /\ wire' \in Seq(Token)
  BY <1>7, <1>8
<1>10. /\ x \in [Fields -> Seq(Token)]
       /\ \A f \in Fields : x[f] = IF f = "uid" THEN Word ELSE << >>
       /\ Word = << >> => x = NoEntry
  <2>1. /\ x \in [Fields -> Seq(Token)] /\ NoEntry \in [Fields -> Seq(Token)]
        /\ \A f \in Fields : x[f] = IF f = "uid" THEN Word ELSE << >>
        /\ \A f \in Fields : NoEntry[f] = << >>
    BY <1>9, EntryFields DEF x
  <2> QED
    BY <2>1
<1>11. /\ ShownRight' /\ shown' \in Seq([Fields -> Seq(Token)])
       /\ Len(shown') = u + 1 /\ Len(shown') <= MaxMessages + MaxUsers + 1
  <2>1. Len(shown) < Len(Expected)
    BY <1>3, <1>5 DEF u
  <2>2. \A f \in Fields : x[f] \in {<< >>, Expected[Len(shown) + 1][f]}
    <3>1. CASE u = n
      BY <1>5, <1>8, <1>10, <3>1 DEF u
    <3>2. CASE u < n
      <4>1. \A f \in Fields : Expected[u + 1][f] = IF f = "uid" THEN <<token>> ELSE << >>
        BY <1>5, <1>7, <3>2, EntryFields
      <4> QED
        BY <1>3, <1>8, <1>10, <3>2, <4>1 DEF u
    <3> QED
      BY <1>3, <3>1, <3>2
  <2>3. (Len(shown) + 1 <= whole \/ child # "died") => x = Expected[Len(shown) + 1]
    <3>1. SUFFICES ASSUME child # "died" PROVE x = Expected[u + 1]
      BY <1>3 DEF u
    <3>2. CASE u = n
      BY <1>3, <1>5, <1>8, <1>10, <3>2
    <3>3. CASE u < n
      BY <1>3, <1>5, <1>8, <3>1, <3>3 DEF x
    <3> QED
      BY <1>3, <3>2, <3>3
  <2> QED
    BY <1>1, <1>10, <2>1, <2>2, <2>3, ShowsMore DEF u
<1>12. Typing'
  <2>1. pc' \in Stages
    BY <1>1 DEF Stages
  <2>2. TypeOK'
    BY <1>1, <1>2, <1>11, <2>1 DEF Typing, TypeOK, NoEntry
  <2> QED
    BY <1>1, <1>2, <1>9, <1>11, <2>2 DEF Typing, Fields, NoEntry
<1>13. CASE pc' = "done"
  BY <1>2, <1>11, <1>12, <1>13
     DEF RInv, Following, SpinsOnlyInside, EntryStages, FileStages, EarlyStages
<1>14. CASE pc' = "user"
  <2>1. Word # << >>
    BY <1>1, <1>14
  <2>2. u < n /\ (Carries(b + 2)' \/ (wire' = << >> /\ child = "died"))
    BY <1>8, <2>1
  <2>3. b + 2 = Place' /\ Len(shown') <= n
    <3>1. Place' = 6 + 2 * Len(shown')
      BY <1>14 DEF Place
    <3> QED
      BY <1>3, <1>4, <1>11, <2>2, <3>1
  <2>4. InPlace' \/ Short'
    <3>1. CASE Carries(b + 2)'
      <4>1. Carries(Place)'
        BY <2>3, <3>1 DEF Carries
      <4> QED
        BY <1>14, <4>1 DEF InPlace, EntryStages
    <3>2. CASE wire' = << >> /\ child = "died"
      BY <1>2, <1>3, <1>14, <3>2 DEF Short, EntryStages
    <3> QED
      BY <2>2, <3>1, <3>2
  <2>5. Following'
    BY <1>2, <1>14, <2>3, <2>4
       DEF Following, SpinsOnlyInside, EntryStages, FileStages, EarlyStages, n
  <2> QED
    BY <1>2, <1>11, <1>12, <2>5 DEF RInv
<1> QED
  BY <1>1, <1>13, <1>14

(***************************************************************************)
(* The theorems.                                                           *)
(***************************************************************************)

(* Nothing is written, read or shown at first. *)
LEMMA RInvInit ==
  ASSUME Init
  PROVE  RInv
<1>1. /\ answer \in Answers /\ part = "first" /\ whole = 0 /\ wire = << >> /\ child = "writes"
      /\ pc = "verb" /\ left = 0 /\ held = << >> /\ entry = NoEntry /\ shown = << >>
  BY DEF Init
<1>2. << >> \in Seq(Token) /\ << >> \in Seq([Fields -> Seq(Token)]) /\ Len(<< >>) = 0
  OBVIOUS
<1>3. /\ Len(answer.list) \in Nat /\ Total(answer) \in Nat /\ Len(Expected) \in Nat
      /\ MaxMessages \in Nat /\ MaxUsers \in Nat
  BY <1>1, Listing, LayoutLaws, ExpectedIs, StreamAssumption
<1>4. Typing
  <2>1. TypeOK
    BY <1>1, <1>2, <1>3 DEF TypeOK, Parts, Stages
  <2> QED
    BY <1>1, <1>2, <2>1, EntryFields DEF Typing
<1>5. Making
  BY <1>1 DEF Making
<1>6. Place = 0 /\ Made = 0
  BY <1>1 DEF Place, Made
<1>7. Carries(Place)
  BY <1>1, <1>2, <1>3, <1>6 DEF Carries
<1>8. Following
  BY <1>1, <1>7 DEF Following, InPlace, SpinsOnlyInside, EntryStages, FileStages, EarlyStages
<1>9. ShownRight
  BY <1>1, <1>2, <1>3 DEF ShownRight
<1> QED
  BY <1>4, <1>5, <1>8, <1>9 DEF RInv

(* A step that changes nothing keeps it. *)
LEMMA RInvStutters ==
  ASSUME RInv, UNCHANGED vars
  PROVE  RInv'
<1>1. /\ answer' = answer /\ part' = part /\ whole' = whole /\ wire' = wire /\ child' = child
      /\ pc' = pc /\ left' = left /\ held' = held /\ entry' = entry /\ shown' = shown
  BY DEF vars
<1>2. Typing /\ Making /\ Following /\ ShownRight
  BY DEF RInv
<1>3. Typing' /\ Making'
  BY <1>1, <1>2 DEF Typing, TypeOK, Making, Current, Fields, NoEntry
<1>4. Expected' = Expected /\ Turn' = Turn /\ Reading' = Reading /\ Made' = Made
  BY <1>1 DEF Expected, Turn, Reading, Made, Begins, Current
<1>5. ShownRight'
  BY <1>1, <1>2, <1>4 DEF ShownRight
<1>6. Place' = Place /\ FieldsRead' = FieldsRead /\ Fields' = Fields
  BY <1>1, <1>4 DEF Place, FieldsRead, Begins, Fields, NoEntry
<1>7. InPlace => InPlace'
  <2>1. Carries(Place) => Carries(Place)'
    BY <1>1, <1>4, <1>6 DEF Carries
  <2> QED
    BY <1>1, <1>4, <1>6, <2>1 DEF InPlace
<1>8. Short => Short'
  BY <1>1, <1>4, <1>6 DEF Short
<1>9. Following'
  BY <1>1, <1>2, <1>4, <1>7, <1>8 DEF Following, SpinsOnlyInside
<1> QED
  BY <1>3, <1>5, <1>9 DEF RInv

(* The invariant is one. *)
LEMMA RInvHolds == Spec => []RInv
<1>1. Init => RInv
  BY RInvInit
<1>2. RInv /\ [Next]_vars => RInv'
  <2>1. SUFFICES ASSUME RInv, [Next]_vars PROVE RInv'
    OBVIOUS
  <2>2. CASE Write \/ Close \/ Die
    BY <2>1, <2>2, ChildStep
  <2>3. CASE ReadVerb
    BY <2>1, <2>3, VerbStep
  <2>4. CASE ReadStatus
    BY <2>1, <2>4, StatusStep
  <2>5. CASE ReadCount
    BY <2>1, <2>5, CountStep
  <2>6. CASE ReadAhead
    BY <2>1, <2>6, AheadStep
  <2>7. CASE ReadUid
    BY <2>1, <2>7, UidStep
  <2>8. CASE ReadSize
    BY <2>1, <2>8, SizeStep
  <2>9. CASE ReadText
    BY <2>1, <2>9, TextStep
  <2>10. CASE SkipSep
    BY <2>1, <2>10, SepStep
  <2>11. CASE ReadSlash
    BY <2>1, <2>11, SlashStep
  <2>12. CASE ReadFname
    BY <2>1, <2>12, FnameStep
  <2>13. CASE ReadFsize
    BY <2>1, <2>13, FsizeStep
  <2>14. CASE ReadData
    BY <2>1, <2>14, DataStep
  <2>15. CASE SkipSep2
    BY <2>1, <2>15, Sep2Step
  <2>16. CASE ReadNext
    BY <2>1, <2>16, NextStep
  <2>17. CASE ReadName
    BY <2>1, <2>17, NameStep
  <2>18. CASE ReadUser
    BY <2>1, <2>18, UserStep
  <2>19. CASE UNCHANGED vars
    BY <2>1, <2>19, RInvStutters
  <2> QED
    BY <2>1, <2>2, <2>3, <2>4, <2>5, <2>6, <2>7, <2>8, <2>9, <2>10, <2>11, <2>12, <2>13,
       <2>14, <2>15, <2>16, <2>17, <2>18, <2>19 DEF Next, Client, Retrieve
<1> QED
  BY <1>1, <1>2, PTL DEF Spec

(* What is to be shown has the type of what is. *)
LEMMA ExpectedType ==
  ASSUME answer \in Answers, NEW k \in 1..Len(Expected)
  PROVE  Expected[k] \in [Fields -> Seq(Token)]
<1>1. Len(answer.list) \in Nat /\ answer.to \in {"retrieve", "ulist"}
  BY Listing
<1>2. CASE HasEntries(answer)
  BY <1>2, ExpectedIs, WholeFields
<1>3. CASE answer.to = "ulist" /\ answer.status = "OK"
  <2> DEFINE n == Len(answer.list)
  <2>1. /\ Len(Expected) = n + 1 /\ Expected[n + 1] = NoEntry
        /\ \A u \in 1..n : Expected[u] = [NoEntry EXCEPT !.uid = <<Tok("uid", u)>>]
    BY <1>3, ExpectedIs
  <2>2. ASSUME NEW u \in 1..n PROVE [NoEntry EXCEPT !.uid = <<Tok("uid", u)>>] \in [Fields -> Seq(Token)]
    <3>1. <<Tok("uid", u)>> \in Seq(Token)
      BY WordTokens DEF IsWord
    <3> QED
      BY <3>1, EntryFields
  <2>3. k = n + 1 \/ k \in 1..n
    BY <1>1, <2>1
  <2> HIDE DEF n
  <2>4. CASE k = n + 1
    BY <2>1, <2>4, EntryFields
  <2>5. CASE k \in 1..n
    <3>1. Expected[k] = [NoEntry EXCEPT !.uid = <<Tok("uid", k)>>]
      BY <2>1, <2>5
    <3> QED
      BY <2>2, <2>5, <3>1
  <2> QED
    BY <2>3, <2>4, <2>5
<1>4. CASE answer.status # "OK"
  <2>1. Expected = << >>
    BY <1>4 DEF Expected
  <2> QED
    BY <2>1
<1> QED
  BY <1>1, <1>2, <1>3, <1>4 DEF HasEntries

(* Every variable has its type, with any number of messages and users and  *)
(* texts and files of any length.                                          *)
THEOREM TypeCorrect == Spec => []TypeOK
<1>1. RInv => TypeOK
  BY DEF RInv, Typing
<1> QED
  BY <1>1, RInvHolds, PTL

(* The client's retrieve() and ulist() show the entries in their order     *)
(* and unmixed, those that were written whole as they are, and of the      *)
(* others nothing but what came of them, wherever the child died.          *)
THEOREM EntriesAreTrue == Spec => []EntriesTrue
<1>1. RInv => EntriesTrue
  <2>1. SUFFICES ASSUME RInv PROVE EntriesTrue
    OBVIOUS
  <2>2. /\ Len(shown) <= Len(Expected) /\ DOMAIN shown = 1..Len(shown)
        /\ shown \in Seq([Fields -> Seq(Token)])
        /\ \A k \in 1..Len(shown) :
             /\ k <= whole \/ child # "died" => shown[k] = Expected[k]
             /\ \A f \in Fields : shown[k][f] \in {<< >>, Expected[k][f]}
    BY <2>1 DEF RInv, Typing, ShownRight
  <2>3. ASSUME NEW k \in 1..Len(shown), NEW f \in Fields
        PROVE  IsPrefix(shown[k][f], Expected[k][f])
    <3> DEFINE has == shown[k][f]
               all == Expected[k][f]
    <3>1. answer \in Answers /\ Len(Expected) \in Nat /\ Len(shown) \in Nat
      BY <2>1, <2>2, ExpectedIs DEF RInv, Typing, TypeOK
    <3>2. k \in 1..Len(Expected)
      BY <2>2, <3>1
    <3>3. Expected[k] \in [Fields -> Seq(Token)]
      BY <3>1, <3>2, ExpectedType
    <3>4. has \in {<< >>, all} /\ all \in Seq(Token)
      BY <2>2, <3>3
    <3> HIDE DEF has, all
    <3>5. CASE has = << >>
      <4>1. Len(has) = 0 /\ Len(all) \in Nat
        BY <3>4, <3>5
      <4>2. SubSeq(has, 1, 0) = << >> /\ SubSeq(all, 1, 0) = << >>
        <5>1. has \in Seq(Token) /\ 1 > 0
          BY <3>5
        <5> QED
          BY <3>4, <5>1, SubSeqEmpty
      <4> QED
        BY <4>1, <4>2 DEF IsPrefix, has, all
    <3>6. CASE has = all
      <4>1. Len(all) <= Len(all)
        BY <3>4
      <4> QED
        BY <3>6, <4>1 DEF IsPrefix, has, all
    <3> QED
      BY <3>4, <3>5, <3>6
  <2>4. /\ DOMAIN shown = 1..Len(shown)
        /\ \A k \in 1..Len(shown) :
             /\ k <= whole \/ child # "died" => shown[k] = Expected[k]
             /\ \A f \in Fields : IsPrefix(shown[k][f], Expected[k][f])
    BY <2>2, <2>3
  <2> QED
    BY <2>2, <2>4 DEF EntriesTrue, Fields
<1> QED
  BY <1>1, RInvHolds, PTL

(* A client spins in a loop of reads only when the child died with an      *)
(* entry unfinished.                                                       *)
THEOREM SpinsInside == Spec => []SpinsOnlyInside
<1>1. RInv => SpinsOnlyInside
  BY DEF RInv, Following
<1> QED
  BY <1>1, RInvHolds, PTL

=============================================================================
