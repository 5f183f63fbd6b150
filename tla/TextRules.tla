------------------------------- MODULE TextRules -------------------------------
(***************************************************************************)
(* Functions without state that money, queues and lists depend on: the     *)
(* amount in a SePay Telegram message, an amount read aloud in Vietnamese, *)
(* the text form of a moment that the database compares, and the pages of  *)
(* the lists of reviews, transactions, orders and deliveries.  A behaviour *)
(* is one call of one of them, or a walk over the pages of a list whose    *)
(* rows change meanwhile; its result is compared with what it should be.   *)
(***************************************************************************)
EXTENDS Integers, Sequences, FiniteSets

CONSTANTS MaxAmountVND,   \* maxAmountVND: 2^53 - 1 in the code
          AmountLength,   \* bound on the length of the amounts checked
          DigitChars,     \* the digits and their values
          OtherChars,     \* characters that no amount has
          Moments,        \* the moments compared
          Rows,           \* the rows of each list checked
          Days,           \* the days filtered by, 0 for none
          Limits,         \* the page sizes checked
          SpokenGroups    \* sets of amounts of one size, as their groups

Separators  == {",", "."}
Instants    == [sec: Nat, tenth: 0..9, hundredth: 0..9]
GroupValues == 0..999   \* three digits of an amount

ASSUME TextAssumption ==
    /\ MaxAmountVND \in Nat \ {0}
    /\ AmountLength \in Nat
    /\ \A c \in DOMAIN DigitChars : DigitChars[c] \in 0..9
    /\ Separators \cap DOMAIN DigitChars = {}
    /\ OtherChars \cap (Separators \cup DOMAIN DigitChars) = {}
    /\ Moments \subseteq Instants
    /\ \A fn \in DOMAIN Rows :
         \/ \A r \in Rows[fn] : r.key \in [1..2 -> Nat]
         \/ \A r \in Rows[fn] : r.key \in [1..3 -> Nat]
    /\ \A fn \in DOMAIN Rows : fn \notin {"none", "parseAmountVND", "RFC3339Nano", "SpeakVND"}
    /\ Days \subseteq Nat /\ Limits \subseteq Nat \ {0}

ASSUME SpokenAssumption == \A amounts \in SpokenGroups :
    IsFiniteSet(amounts) /\ \E n \in 0..8 : amounts \subseteq [0..n -> GroupValues]

VARIABLE call   \* the function called, its arguments, and the pages of a walk

NoCall == [fn |-> "none"]

-----------------------------------------------------------------------------
(* Amounts.  A text is a sequence of characters.                           *)

Chars       == DOMAIN DigitChars \cup Separators \cup OtherChars
IsDigit(ch) == ch \in DOMAIN DigitChars

InvalidAmount == 0

NothingRead == [separator |-> "none", length |-> 0, groups |-> 0, value |-> 0, bad |-> FALSE]

\* A separator ends a group of one to three digits, and later of three; it is
\* the one used before.
EndsGroup(s, ch) ==
    /\ ch \in Separators
    /\ IF s.groups = 0 THEN s.length \in 1..3
       ELSE s.separator = ch /\ s.length = 3

CountDigit(s, d) == [s EXCEPT !.length = @ + 1, !.value = 10 * @ + d]

NextGroup(s, ch) == [s EXCEPT !.separator = ch, !.length = 0, !.groups = @ + 1]

Refused(s) == [s EXCEPT !.bad = TRUE]

\* One turn of the loop over the bytes.
ScanGroup(s, ch) ==
    IF s.bad THEN s
    ELSE IF IsDigit(ch)
    THEN CountDigit(s, DigitChars[ch])
    ELSE IF EndsGroup(s, ch)
    THEN NextGroup(s, ch)
    ELSE Refused(s)

\* What the loop knows after each byte.
Scan(raw) ==
    LET scan[i \in 0..Len(raw)] ==
          IF i = 0 THEN NothingRead ELSE ScanGroup(scan[i - 1], raw[i])
    IN  scan

NoLastGroup(raw) ==   \* faulty variant: the last group may have any length
    LET end == Scan(raw)[Len(raw)]
    IN  IF end.bad \/ end.value \notin 1..MaxAmountVND THEN InvalidAmount
        ELSE end.value

parseAmountVND(raw) ==
    LET end == Scan(raw)[Len(raw)]
    IN  IF \/ raw = <<>> \/ end.bad
           \/ end.groups > 0 /\ end.length # 3
           \/ end.value \notin 1..MaxAmountVND
        THEN InvalidAmount ELSE end.value

\* What an amount is: digits, plain or with one kind of separator at every
\* fourth place counted from the right and nowhere else.
Plain(raw)   == \A i \in DOMAIN raw : IsDigit(raw[i])
Grouped(raw) == \E sep \in Separators : \A i \in DOMAIN raw :
                  IF (Len(raw) - i + 1) % 4 = 0 THEN i > 1 /\ raw[i] = sep
                  ELSE IsDigit(raw[i])

\* The number that the digits up to each place are.
DigitsValue(raw) ==
    LET value[i \in 0..Len(raw)] ==
          IF i = 0 THEN 0
          ELSE IF IsDigit(raw[i]) THEN 10 * value[i - 1] + DigitChars[raw[i]]
          ELSE value[i - 1]
    IN  value
AmountOf(raw) ==
    LET value == DigitsValue(raw)[Len(raw)]
    IN  IF raw # <<>> /\ (Plain(raw) \/ Grouped(raw)) /\ value <= MaxAmountVND
        THEN value ELSE InvalidAmount

AmountTexts == UNION {[1..n -> Chars] : n \in 0..AmountLength}

(* The hand-written scanner reads every text as the amount that it is: no  *)
(* decimal fraction, mixed separator or short group passes as a larger sum,*)
(* and no well-formed amount is refused.                                   *)
AmountsReadRight ==
    call.fn = "parseAmountVND" => parseAmountVND(call.raw) = AmountOf(call.raw)

-----------------------------------------------------------------------------
(* Moments.  The database holds them as text in the RFC3339Nano form, which*)
(* drops the trailing zeros of the fraction (two digits here), and compares*)
(* them as text.  The part up to the second has a fixed width and stands   *)
(* for one character.                                                      *)

DotCode  == 46
ZeroCode == 48
ZuluCode == 90

RFC3339(t) ==   \* faulty variant: without the fraction
    <<t.sec, ZuluCode>>

RFC3339Nano(t) ==
    IF t.hundredth # 0 THEN <<t.sec, DotCode, ZeroCode + t.tenth, ZeroCode + t.hundredth, ZuluCode>>
    ELSE IF t.tenth # 0 THEN <<t.sec, DotCode, ZeroCode + t.tenth, ZuluCode>>
    ELSE <<t.sec, ZuluCode>>

TextLess(a, b) == \E i \in DOMAIN a \cap DOMAIN b :
                    a[i] < b[i] /\ \A j \in 1..(i - 1) : a[j] = b[j]

Earlier(a, b) == \/ a.sec < b.sec
                 \/ a.sec = b.sec /\ 10 * a.tenth + a.hundredth < 10 * b.tenth + b.hundredth

(* Comparing the texts of two moments finds every difference between them, *)
(* and orders them rightly unless they fall into the same second: a lease, *)
(* a retry time or an expiry is misjudged by less than a second.  (Within a*)
(* second ".1Z" sorts after ".12Z".)                                       *)
TextOrderToTheSecond ==
    call.fn = "RFC3339Nano" => LET a == call.a
                                   b == call.b
                               IN
      /\ (RFC3339Nano(a) = RFC3339Nano(b)) = (a = b)
      /\ a # b => TextLess(RFC3339Nano(a), RFC3339Nano(b))
                    # TextLess(RFC3339Nano(b), RFC3339Nano(a))
      /\ a.sec # b.sec => TextLess(RFC3339Nano(a), RFC3339Nano(b)) = Earlier(a, b)

-----------------------------------------------------------------------------
(* Speech.  An amount is its groups of three digits, group 0 the units; the*)
(* words are spelled in Telex.                                             *)

Groups  == 0..8
Hundred == "trawm"

digits == <<"moojt", "hai", "ba", "boosn", "nawm", "saus", "bary", "tams", "chins">>

Digit(n) == IF n = 0 THEN "khoong" ELSE digits[n]

\* Units after "ten" and after more tens.
AfterTen(units)  == IF units = 5 THEN "lawm" ELSE Digit(units)
AfterTens(units) == IF units = 1 THEN "moost" ELSE IF units = 4 THEN "tuw" ELSE AfterTen(units)

If(condition, words) == IF condition THEN words ELSE <<>>

Hundreds(n, high) == If(high, <<Digit(n), Hundred>>)

TensAndUnits(tens, units, high) ==
    IF tens > 1 THEN <<Digit(tens), "muwowi">> \o If(units > 0, <<AfterTens(units)>>)
    ELSE IF tens = 1 THEN <<"muwowif">> \o If(units > 0, <<AfterTen(units)>>)
    ELSE If(units > 0, If(high, <<"linh">>) \o <<Digit(units)>>)

readThreeDigits(n, hasHigherGroup) ==
    LET hundreds == n \div 100
        high     == hundreds > 0 \/ hasHigherGroup
    IN  Hundreds(hundreds, high) \o TensAndUnits((n % 100) \div 10, n % 10, high)

OneTyr(b) == If(b > 0, <<"tyr">>)   \* faulty variant: the same for every block

\* strings.Repeat(" tỷ", b)
Tyrs(b) == [i \in 1..b |-> "tyr"]

SpeakGroup(n, hasHigherOverall, scale) ==
    If(n > 0, readThreeDigits(n, hasHigherOverall) \o scale)

\* A group has a higher one if any was spoken before.
HasHigher(groups, i) == \E j \in Groups : j > i /\ groups[j] > 0

\* A block of three groups.
BlockWords(groups, b) ==
    LET Group(i, scale) == SpeakGroup(groups[i], HasHigher(groups, i), scale)
    IN  Group(3 * b + 2, <<"trieeuj">>) \o (Group(3 * b + 1, <<"nghifn">>) \o Group(3 * b, <<>>))

SpeakBlock(groups, b) ==
    LET words == BlockWords(groups, b) IN words \o If(words # <<>>, Tyrs(b))

SpeakVND(groups) ==
    IF \A g \in Groups : groups[g] = 0 THEN <<Digit(0), "ddoofng">>
    ELSE SpeakBlock(groups, 2) \o (SpeakBlock(groups, 1) \o (SpeakBlock(groups, 0) \o <<"ddoofng">>))

\* The amount that begins with groups f.
Amount(f) == [g \in Groups |-> IF g \in DOMAIN f THEN f[g] ELSE 0]

(* Two different amounts are never announced in the same words: a listener *)
(* tells a thousand from a million and a billion from a billion billions,  *)
(* whichever groups are zero; and every number below a thousand has words  *)
(* of its own, with or without a group before it (SpeakVND).               *)
AmountsSpokenApart ==
    call.fn = "SpeakVND" =>
      /\ Cardinality({SpeakVND(Amount(f)) : f \in call.amounts}) = Cardinality(call.amounts)
      /\ \A high \in BOOLEAN :
           Cardinality({readThreeDigits(n, high) : n \in GroupValues \ {0}}) = 999

-----------------------------------------------------------------------------
(* Lists.  A row has the key it is sorted by, which is a moment and what   *)
(* tells rows of the same moment apart, and a cursor is the key of a row.  *)

NoCursor == <<>>

Found(rows, cursor) == {r \in rows : cursor = NoCursor \/ TextLess(r.key, cursor)}

\* ORDER BY key DESC LIMIT limit
First(limit, rows) ==
    {r \in rows : Cardinality({q \in rows : TextLess(r.key, q.key)}) < limit}

Lowest(keys)  == CHOOSE k \in keys : \A l \in keys : ~TextLess(l, k)
Highest(keys) == CHOOSE k \in keys : \A l \in keys : ~TextLess(k, l)
Keys(rows)    == {r.key : r \in rows}

PageFromNext(rows, cursor, limit) ==  \* faulty variant: the cursor is the row
    LET found == Found(rows, cursor)  \* after the page
        items == First(limit, found)
    IN  [items |-> items,
         next  |-> IF items = found THEN NoCursor ELSE Highest(Keys(found \ items))]

\* ListDeliveriesPage, and the end of the others.
KeysetPage(rows, cursor, limit) ==
    LET found == Found(rows, cursor)
        items == First(limit, found)
    IN  [items |-> items,
         next  |-> IF items = found THEN NoCursor ELSE Lowest(Keys(items))]

ListDeliveriesPage(rows, cursor, limit) == KeysetPage(rows, cursor, limit)

ListSePayReviews(rows, cursor, limit) == KeysetPage(rows, cursor, limit)

\* The log only grows.
ListAuditLogsPage(rows, cursor, limit) == KeysetPage(rows, cursor, limit)

\* Kept payOS callbacks by their arrival and hash, until they are processed.
ListPaymentReviews(rows, cursor, limit) ==
    KeysetPage({r \in rows : ~r.processed}, cursor, limit)

\* Payment orders, which change their status while somebody pages.
ListPaymentOrders(rows, cursor, limit, status) ==
    KeysetPage({o \in rows : o.status = status}, cursor, limit)

\* Transactions: the day they were seen and an id; the bank's day, 0 for none.
\* The WHERE clause compares text, so a day that is missing is never after
\* the last day asked for.
Selected(t, f) ==
    /\ f.from # 0 => t.day >= f.from \/ (t.day = 0 /\ t.key[1] >= f.from)
    /\ f.to # 0 => t.day <= f.to \/ (t.day = 0 /\ t.key[1] <= f.to)
    /\ f.direction # "any" => t.credit = (f.direction = "credit")

ListTransactionsFiltered(rows, cursor, limit, f) ==
    KeysetPage({t \in rows : Selected(t, f)}, cursor, limit)

NoFilter == [from |-> 0, to |-> 0, direction |-> "any", status |-> "any"]
Filters(fn) ==
    IF fn = "ListTransactionsFiltered"
    THEN {[from |-> from, to |-> to, direction |-> d, status |-> "any"] :
            from \in Days, to \in Days, d \in {"any", "credit", "debit"}}
    ELSE IF fn = "ListPaymentOrders" THEN {[NoFilter EXCEPT !.status = "PENDING"]}
    ELSE {NoFilter}

List(fn, f, rows, cursor, limit) ==
    IF fn = "ListTransactionsFiltered" THEN ListTransactionsFiltered(rows, cursor, limit, f)
    ELSE IF fn = "ListPaymentOrders" THEN ListPaymentOrders(rows, cursor, limit, f.status)
    ELSE IF fn = "ListPaymentReviews" THEN ListPaymentReviews(rows, cursor, limit)
    ELSE IF fn = "ListSePayReviews" THEN ListSePayReviews(rows, cursor, limit)
    ELSE IF fn = "ListAuditLogsPage" THEN ListAuditLogsPage(rows, cursor, limit)
    ELSE ListDeliveriesPage(rows, cursor, limit)

\* What a reader who asks with f wants to see; the day of a transaction that
\* has none is a guess, and it is not said here which of them are listed.
Fits(t, f) == /\ t.day # 0
              /\ f.from = 0 \/ f.from <= t.day
              /\ f.to = 0 \/ t.day <= f.to
              /\ f.direction = "any" \/ t.credit = (f.direction = "credit")
Asked(fn, f, rows) ==
    IF fn = "ListTransactionsFiltered" THEN {t \in rows : Fits(t, f)}
    ELSE IF fn = "ListPaymentOrders" THEN {o \in rows : o.status = f.status}
    ELSE IF fn = "ListPaymentReviews" THEN {r \in rows : ~r.processed}
    ELSE rows

\* What a table can hold: finitely many rows with a key each.
Keyed(rows) == \A a, b \in rows : a.key = b.key => a = b
Tables(fn)  == {table \in SUBSET Rows[fn] : Keyed(table) /\ IsFiniteSet(table)}
Lists       == DOMAIN Rows

(* Somebody who pages through a list sees each row that was there all the  *)
(* time exactly once, whatever arrives, leaves or changes its status       *)
(* between two pages, with rows of the same moment and a page ending       *)
(* between them; a filter passes the transactions whose day is in its range*)
(* and no others (ListSePayReviews, ListTransactionsFiltered,              *)
(* ListPaymentOrders, ListPaymentReviews, ListAuditLogsPage,               *)
(* ListDeliveriesPage).                                                    *)
PagesListOnce ==
    call.fn \in Lists =>
      /\ Keys(call.page) \cap Keys(call.earlier) = {}
      /\ call.next = NoCursor =>
           Asked(call.fn, call.filter, call.stay) \subseteq call.page \cup call.earlier
      /\ call.fn = "ListTransactionsFiltered" =>
           \A t \in call.page : t.day # 0 => Fits(t, call.filter)

-----------------------------------------------------------------------------
(* The calls.                                                              *)

CallText ==
    \/ \E raw \in AmountTexts : call' = [fn |-> "parseAmountVND", raw |-> raw]
    \/ \E a, b \in Moments : call' = [fn |-> "RFC3339Nano", a |-> a, b |-> b]
    \/ \E amounts \in SpokenGroups : call' = [fn |-> "SpeakVND", amounts |-> amounts]

\* A reader has a page, and has had the pages before it.
Reads(fn, f, limit, table, stay, earlier, page) ==
    call' = [fn |-> fn, filter |-> f, limit |-> limit, table |-> table, stay |-> stay,
             earlier |-> earlier, page |-> page.items, next |-> page.next]

\* The first page of table.
CallList(fn, f, table, limit) ==
    Reads(fn, f, limit, table, table, {}, List(fn, f, table, NoCursor, limit))

\* Another one, when table has become of it.
NextPage(table) ==
    /\ call.next # NoCursor
    /\ call.fn = "ListAuditLogsPage" => call.table \subseteq table
    /\ Reads(call.fn, call.filter, call.limit, table, call.stay \cap table,
             call.earlier \cup call.page,
             List(call.fn, call.filter, table, call.next, call.limit))

Call ==
    \/ call = NoCall /\ CallText
    \/ /\ call = NoCall
       /\ \E fn \in Lists : \E f \in Filters(fn), table \in Tables(fn), limit \in Limits :
             CallList(fn, f, table, limit)
    \/ /\ call.fn \in Lists
       /\ \E table \in Tables(call.fn) : NextPage(table)

TextSpec == call = NoCall /\ [][Call]_call
=============================================================================
