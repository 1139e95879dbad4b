------------------------------ MODULE QueryBuilder ------------------------------
(***************************************************************************)
(* QueryBuilder (db/query_builder.h): predicates, order, pagination and    *)
(* fetches collected call by call into a text with positional parameters,  *)
(* then run as list, single, project, count, exists or page.               *)
(*                                                                         *)
(* The text is a sequence of tokens.  The database is external: it parses  *)
(* the tokens with SQL's precedence, binds the parameters by position, and *)
(* may change between two statements.  A row has an id, a column a and a   *)
(* @ManyToOne rel, whose target has a column b.                            *)
(***************************************************************************)
EXTENDS Integers, Sequences, FiniteSets, FiniteSetsExt, SequencesExt

CONSTANTS Tables,      \* contents of the table: sets of rows [id, a, rel]
          Target,      \* the target table: rel |-> b
          Children,    \* the table of a collection's members: [id, parent]
          Conds, Groups, \* predicates, and sequences of calls that configure a group
          Orders, Limits, Pages, \* arguments of order_by, limit and page
          MaxCalls     \* bound of the model: calls on one builder

VARIABLES sql, params,     \* sql_where_, params_
          order, limit, offset, \* sql_order_, limit_val_, offset_val_
          joined, many,    \* fetch_to_one_members_, fetch_collection_members_ are not empty
          asked,           \* history: the calls since the predicate was last cleared
          calls,           \* calls so far
          table,           \* the table
          pc, result       \* the statement that runs and what it gave

vars == <<sql, params, order, limit, offset, joined, many, asked, calls, table, pc, result>>

Null == -1
NoResult == [kind |-> "none", rows |-> <<>>, members |-> <<>>, page |-> 0, size |-> 0, total |-> 0, counted |-> {}]

Init ==
  /\ sql = <<>> /\ params = <<>> /\ order = <<>> /\ limit = -1 /\ offset = -1 /\ joined = FALSE /\ many = FALSE
  /\ asked = <<>> /\ calls = 0 /\ table \in Tables /\ pc = "build" /\ result = NoResult

-----------------------------------------------------------------------------
(* Tokens: predicates with n placeholders, connectors, parentheses.        *)
Token(t, op, n) == [t |-> t, op |-> op, n |-> n]
Word(w) == Token(w, "", 0)

(* append_condition, on a text and its parameters.                         *)
Append_(q, how, text, values) ==
  [sql |-> IF q.sql = <<>> THEN text ELSE q.sql \o <<Word(IF how = "or" THEN "OR" ELSE "AND")>> \o text,
   params |-> q.params \o values]
Cleared == [sql |-> <<>>, params |-> <<>>]

(* The text of a predicate that is not a group: an empty IN is false.      *)
Text(c) ==
  CASE c.k = "in" -> IF c.vals = <<>> THEN <<Word("FALSE")>> ELSE <<Token("in", "", Len(c.vals))>>
    [] c.k = "between" -> <<Token("between", "", 2)>>
    [] OTHER -> <<Token(c.k, c.op, Len(c.vals))>>

(* where... clears what was collected; and..., or... append to it.         *)
Apply(q, call) == Append_(IF call.how = "where" THEN Cleared ELSE q, call.how, Text(call.cond), call.cond.vals)
RECURSIVE Built(_)
Built(group) == IF group = <<>> THEN Cleared ELSE Apply(Built(Front(group)), Last(group))

(* Mutant: the parameters of a group are put in front.                     *)
AppendGroupFirst(q, how, group) ==
  LET b == Built(group)
      a == Append_(q, how, <<Word("(")>> \o b.sql \o <<Word(")")>>, <<>>)
  IN [a EXCEPT !.params = b.params \o @]
(* append_group: the group's text in parentheses, its parameters after     *)
(* those collected so far.                                                 *)
AppendGroup(q, how, group) ==
  LET b == Built(group) IN Append_(q, how, <<Word("(")>> \o b.sql \o <<Word(")")>>, b.params)

(* The calls the class has: there is no or_in, or_between, and_is_not_null.*)
Offered(how, k) ==
  CASE how = "where" -> TRUE
    [] how = "and" -> k # "notnull"
    [] OTHER -> k \in {"op", "related", "null", "group"}

Called == pc = "build" /\ calls < MaxCalls /\ calls' = calls + 1 /\ UNCHANGED <<table, pc, result>>
Collected(q, how, call) ==
  /\ sql' = q.sql /\ params' = q.params
  /\ asked' = IF how = "where" \/ sql = <<>> THEN <<call>> ELSE Append(asked, call)
  /\ UNCHANGED <<order, limit, offset, joined, many>>

Predicate(how, c) ==
  /\ Called /\ Offered(how, c.k)
  /\ Collected(Apply([sql |-> sql, params |-> params], [how |-> how, cond |-> c]), how, [how |-> how, cond |-> c])
(* A group without a predicate throws; where_group has cleared by then.    *)
Group(how, group) ==
  LET call == [how |-> how, cond |-> [k |-> "group", op |-> "", vals |-> <<>>, calls |-> group]]
      q == IF how = "where" THEN Cleared ELSE [sql |-> sql, params |-> params]
  IN /\ Called
     /\ IF group = <<>>
        THEN /\ sql' = q.sql /\ params' = q.params
             /\ asked' = IF how = "where" THEN <<>> ELSE asked
             /\ UNCHANGED <<order, limit, offset, joined, many>>
        ELSE Collected(AppendGroup(q, how, group), how, call)

OrderBy(o) == Called /\ order' = Append(order, o) /\ UNCHANGED <<sql, params, limit, offset, joined, many, asked>>
Limit(n) == Called /\ limit' = n /\ UNCHANGED <<sql, params, order, offset, joined, many, asked>>
Offset(n) == Called /\ offset' = n /\ UNCHANGED <<sql, params, order, limit, joined, many, asked>>
Fetch ==
  /\ Called
  /\ \/ joined' = TRUE /\ UNCHANGED many
     \/ many' = TRUE /\ UNCHANGED joined
  /\ UNCHANGED <<sql, params, order, limit, offset, asked>>

-----------------------------------------------------------------------------
(* The database: which rows a text with parameters selects.                *)
Compare(op, x, v) == x # Null /\ (CASE op = "=" -> x = v [] op = "<" -> x < v [] OTHER -> x >= v)
Matches(tok, vals, row) ==
  CASE tok.t = "op" -> Compare(tok.op, row.a, vals[1])
    [] tok.t = "related" -> row.rel # Null /\ Compare(tok.op, Target[row.rel], vals[1])
    [] tok.t = "null" -> row.a = Null
    [] tok.t = "notnull" -> row.a # Null
    [] tok.t = "in" -> row.a # Null /\ \E i \in DOMAIN vals : vals[i] = row.a
    [] tok.t = "between" -> row.a # Null /\ vals[1] <= row.a /\ row.a <= vals[2]
    [] OTHER -> FALSE
Bound(i) == MapThenSumSet(LAMBDA j : sql[j].n, 1 .. i - 1)
Depth(i) == Cardinality({j \in 1 .. i : sql[j].t = "("}) - Cardinality({j \in 1 .. i : sql[j].t = ")"})
RECURSIVE Selects(_, _, _)
Selects(i, j, row) ==
  LET at(w) == {k \in i .. j : sql[k].t = w /\ Depth(k) = Depth(i - 1)}
  IN IF at("OR") # {} THEN Selects(i, Min(at("OR")) - 1, row) \/ Selects(Min(at("OR")) + 1, j, row)
     ELSE IF at("AND") # {} THEN Selects(i, Min(at("AND")) - 1, row) /\ Selects(Min(at("AND")) + 1, j, row)
     ELSE IF sql[i].t = "(" THEN Selects(i + 1, j - 1, row)
     ELSE Matches(sql[i], SubSeq(params, Bound(i) + 1, Bound(i) + sql[i].n), row)
Selected == {row \in table : sql = <<>> \/ Selects(1, Len(sql), row)}

(* ORDER BY, in which ties have any order, then LIMIT and OFFSET when they *)
(* are positive.  A joined fetch wraps the whole in an outer SELECT, whose *)
(* order SQL leaves open.                                                  *)
Key(o, row) == IF o.col = "id" THEN row.id ELSE row.a
Precedes(os, x, y) ==
  \E i \in DOMAIN os :
    /\ \A j \in 1 .. i - 1 : Key(os[j], x) = Key(os[j], y)
    /\ IF os[i].asc THEN Key(os[i], x) < Key(os[i], y) ELSE Key(os[i], x) > Key(os[i], y)
Sorted(set, os) == {s \in SetToSeqs(set) : \A i, j \in DOMAIN s : i < j => ~Precedes(os, s[j], s[i])}
Paginated(s, lim, off) ==
  LET from == IF off > 0 THEN off ELSE 0
      rest == SubSeq(s, from + 1, Len(s))
  IN IF lim > 0 /\ lim < Len(rest) THEN SubSeq(rest, 1, lim) ELSE rest
Listed(os, lim, off) ==
  LET base == {Paginated(s, lim, off) : s \in Sorted(Selected, os)}
  IN IF joined THEN UNION {SetToSeqs(ToSet(s)) : s \in base} ELSE base

-----------------------------------------------------------------------------
Builder == <<sql, params, order, offset, joined, many, asked, calls>>
(* The collections that were fetched are loaded once the rows are there.   *)
Read == IF many THEN "hydrate" ELSE "done"
(* list(), project(), and single(), which sets the limit for good.         *)
List ==
  /\ pc = "build" /\ \E s \in Listed(order, limit, offset) : result' = [NoResult EXCEPT !.kind = "list", !.rows = s]
  /\ pc' = Read /\ UNCHANGED <<Builder, limit, table>>
Single ==
  /\ pc = "build" /\ limit' = 1
  /\ \E s \in Listed(order, 1, offset) : result' = [NoResult EXCEPT !.kind = "single", !.rows = s]
  /\ pc' = Read /\ UNCHANGED <<Builder, table>>
(* count() has no ORDER BY and no pagination; exists() a limit of 1.       *)
Count ==
  /\ pc = "build" /\ result' = [NoResult EXCEPT !.kind = "count", !.total = Cardinality(Selected)]
  /\ pc' = "done" /\ UNCHANGED <<Builder, limit, table>>
Exists ==
  /\ pc = "build"
  /\ result' = [NoResult EXCEPT !.kind = "exists", !.total = IF Selected = {} THEN 0 ELSE 1]
  /\ pc' = "done" /\ UNCHANGED <<Builder, limit, table>>
(* page(): the count, then the list of a copy with the page's sort and     *)
(* window, each a statement of its own.                                    *)
PageCount(p, size) ==
  /\ pc = "build" /\ pc' = "counted"
  /\ result' = [NoResult EXCEPT !.kind = "page", !.page = p, !.size = size, !.total = Cardinality(Selected), !.counted = table]
  /\ UNCHANGED <<Builder, limit, table>>
PageSort == [col |-> "id", asc |-> TRUE]
PageList ==
  /\ pc = "counted" /\ pc' = Read
  /\ \E s \in Listed(Append(order, PageSort), result.size, result.page * result.size) : result' = [result EXCEPT !.rows = s]
  /\ UNCHANGED <<Builder, limit, table>>
(* hydrate_requested_collections: one statement for the members of all     *)
(* parents, grouped by parent; each entity takes its group.                *)
Grouped(s) == [p \in {row.id : row \in ToSet(s)} |-> {c \in Children : c.parent = p}]
Hydrate ==
  /\ pc = "hydrate" /\ pc' = "done"
  /\ result' = [result EXCEPT !.members = [i \in DOMAIN result.rows |-> Grouped(result.rows)[result.rows[i].id]]]
  /\ UNCHANGED <<Builder, limit, table>>
TotalPages == IF result.size = 0 THEN 0 ELSE (result.total + result.size - 1) \div result.size
HasNext == result.page + 1 < TotalPages
HasPrevious == result.page > 0 /\ TotalPages > 0
(* Another session writes; the caller goes on with the same builder.       *)
Write == pc = "counted" /\ \E t \in Tables : table' = t /\ UNCHANGED <<Builder, limit, pc, result>>
Again == pc = "done" /\ pc' = "build" /\ result' = NoResult /\ UNCHANGED <<Builder, limit, table>>

Next ==
  \/ \E how \in {"where", "and", "or"} : (\E c \in Conds : Predicate(how, c)) \/ (\E g \in Groups : Group(how, g))
  \/ (\E o \in Orders : OrderBy(o)) \/ (\E n \in Limits : Limit(n) \/ Offset(n)) \/ Fetch
  \/ List \/ Single \/ Count \/ Exists \/ (\E p \in Pages : PageCount(p[1], p[2])) \/ PageList \/ Hydrate \/ Write \/ Again
Spec == Init /\ [][Next]_vars

-----------------------------------------------------------------------------
(* What the calls mean: alternatives separated by or..., each a            *)
(* conjunction, with every predicate's own values.                         *)
RECURSIVE Means(_, _), MeansCond(_, _)
MeansCond(c, row) == IF c.k = "group" THEN Means(c.calls, row) ELSE Matches([t |-> c.k, op |-> c.op], c.vals, row)
Means(list, row) ==
  list = <<>> \/ \E i \in DOMAIN list :
    /\ i = 1 \/ list[i].how = "or"
    /\ \A j \in DOMAIN list : j >= i /\ (\A k \in i + 1 .. j : list[k].how # "or") => MeansCond(list[j].cond, row)
Wanted(t) == {row \in t : Means(asked, row)}

(* The rows are a window of the wanted ones: as many as the limit and the  *)
(* offset leave, no more rows sort before one of them than the offset      *)
(* skips, nor after one than are left, and they are in order themselves.   *)
(* With a to-one fetch the outer SELECT has no ORDER BY, and only the      *)
(* order inside the window is lost.                                        *)
Window(rows, os, lim, off) ==
  LET wanted == Wanted(table)
      from == IF off > 0 THEN off ELSE 0
      left == IF from < Cardinality(wanted) THEN Cardinality(wanted) - from ELSE 0
      others == wanted \ ToSet(rows)
  IN /\ ToSet(rows) \subseteq wanted /\ IsInjective(rows)
     /\ Len(rows) = IF lim > 0 /\ lim < left THEN lim ELSE left
     /\ Cardinality({x \in others : \E y \in ToSet(rows) : Precedes(os, x, y)}) <= from
     /\ Cardinality({x \in others : \E y \in ToSet(rows) : Precedes(os, y, x)}) <= left - Len(rows)
     /\ joined \/ \A i, j \in DOMAIN rows : i < j => ~Precedes(os, rows[j], rows[i])

(* Whatever the sequence of calls, the rows are those that the calls mean: *)
(* every placeholder has its own value, a group counts as one predicate,   *)
(* count() and exists() see the same rows, and the builder stays usable.   *)
(* list(), single() and page() give the window of those rows that limit,   *)
(* offset and page ask for, in the order asked for unless a to-one         *)
(* association is fetched.  A page that has rows says there is a next or a *)
(* previous one exactly when rows follow or come before, unless another    *)
(* session wrote in between; a fetched collection holds the members of its *)
(* own entity.                                                             *)
QueriesSound ==
  /\ Bound(Len(sql) + 1) = Len(params)
  /\ pc = "build" => Selected = Wanted(table)
  /\ pc = "done" /\ result.kind = "count" => result.total = Cardinality(Wanted(table))
  /\ pc = "done" /\ result.kind = "exists" => (result.total > 0) = (Wanted(table) # {})
  /\ pc = "done" /\ result.kind \in {"list", "single"} => Window(result.rows, order, limit, offset)
  /\ pc = "done" /\ many /\ result.kind \in {"list", "single", "page"} =>
       /\ Len(result.members) = Len(result.rows)
       /\ \A i \in DOMAIN result.rows : \A c \in Children : c \in result.members[i] <=> c.parent = result.rows[i].id
  /\ pc = "done" /\ result.kind = "page" =>
       /\ Window(result.rows, Append(order, PageSort), result.size, result.page * result.size)
       /\ result.counted = table /\ result.rows # <<>> =>
            LET os == Append(order, PageSort)
            IN /\ HasNext <=> \E x \in Wanted(table) : \A y \in ToSet(result.rows) : Precedes(os, y, x)
               /\ HasPrevious <=> \E x \in Wanted(table) : \A y \in ToSet(result.rows) : Precedes(os, x, y)
=============================================================================
