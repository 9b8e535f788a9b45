--------------------------------- MODULE Pp ----------------------------------
(***************************************************************************)
(* The C compiler's preprocessor (cc/pp.c): the stack of frames a token    *)
(* comes from, directives and the stack of conditions, replacement of      *)
(* macros with their arguments, # and ##, and the expressions of #if.      *)
(*                                                                         *)
(* A token has a kind k, a text t (a sequence of pieces: more than one     *)
(* when it was pasted or made a string) and the mark no of a name that     *)
(* will not be replaced.  A directive is one token of kind "#" at the      *)
(* beginning of its line.  __FILE__ and __LINE__ are left out.             *)
(***************************************************************************)
EXTENDS Integers, Sequences, SequencesExt, FiniteSets, TLC

CONSTANTS MAXINC, W

Id(x)  == [k |-> "id", t |-> <<x>>, no |-> FALSE]
Pu(x)  == [k |-> "p", t |-> <<x>>, no |-> FALSE]
Dir(x, n) == [k |-> "#", t |-> <<x, n>>, no |-> FALSE]
END    == [k |-> "end", t |-> <<>>, no |-> FALSE]
ERR    == [k |-> "err", t |-> <<>>, no |-> FALSE]
LP     == Pu("(")
RP     == Pu(")")
COMMA  == Pu(",")
HASH   == Pu("#")
PASTE  == Pu("##")
None   == <<>>

A == Id("A")
B == Id("B")
C == Id("C")
X == Id("x")
Y == Id("y")
Z == Id("z")

Obj(n, body)        == [name |-> <<n>>, fn |-> FALSE, variadic |-> FALSE, params |-> <<>>, body |-> body]
Fun(n, ps1, body)   == [name |-> <<n>>, fn |-> TRUE, variadic |-> FALSE, params |-> ps1, body |-> body]
Var(n, ps1, body)   == [name |-> <<n>>, fn |-> TRUE, variadic |-> TRUE, params |-> ps1, body |-> body]

(* The definitions a source may make, and the files it may include         *)
Defs ==
    "A1" :> Obj("A", <<Y>>) @@ "A2" :> Obj("A", <<A, Y>>) @@ "A3" :> Obj("A", <<B, LP, Y, RP>>) @@ "A4" :> Obj("A", <<B>>)
    @@ "A5" :> Obj("A", <<>>) @@ "A6" :> Obj("A", <<C, LP, A, COMMA, B, RP>>)
    @@ "B1" :> Fun("B", <<X>>, <<X, X>>) @@ "B2" :> Fun("B", <<X>>, <<A, X>>) @@ "B3" :> Fun("B", <<X>>, <<X, B>>)
    @@ "B4" :> Fun("B", <<X>>, <<B, LP, X, RP>>) @@ "B5" :> Fun("B", <<X>>, <<HASH, X, X>>)
    @@ "B6" :> Fun("B", <<X>>, <<X, PASTE, Y>>) @@ "B7" :> Fun("B", <<X>>, <<A, PASTE, X, Z>>) @@ "B8" :> Fun("B", <<>>, <<A>>)
    @@ "C1" :> Fun("C", <<X, Z>>, <<Z, X>>) @@ "C2" :> Fun("C", <<X, Z>>, <<X, PASTE, Z>>)
    @@ "C3" :> Var("C", <<X, Z>>, <<B, LP, Z, RP, X>>) @@ "C4" :> Fun("C", <<X, Z>>, <<A, LP, Z, RP>>)
    @@ "H1" :> Obj("H", <<>>) @@ "AY" :> [Obj("A", <<Z>>) EXCEPT !.name = <<"A", "y">>]

Files == "h" :> <<Dir("ifndef", "H"), Dir("define", "H1"), Y, Dir("include", "h"), Dir("else", ""), Z, Dir("endif", "")>>
           @@ "deep" :> <<Dir("include", "deep")>>
           @@ "name" :> <<B>>

(***************************************************************************)
(* The input s: frames, tokens put back, the macros being replaced, the    *)
(* macros, the conditions, what came out so far                            *)
(***************************************************************************)
push_frame(s, list, m, file) ==
    [s EXCEPT !.frames = <<[toks |-> list, mac |-> m, file |-> file]>> \o @, !.active = IF m = None THEN @ ELSE @ \cup {m}]

unmarked(s, f) == s.active \ {f.mac}

RECURSIVE raw_next(_)
raw_next(s) ==
    IF s.back # <<>> THEN [t |-> Head(s.back), s |-> [s EXCEPT !.back = Tail(@)]]
    ELSE IF s.frames = <<>> THEN [t |-> END, s |-> s]
    ELSE LET f == Head(s.frames)
         IN  IF f.toks # <<>> THEN [t |-> Head(f.toks), s |-> [s EXCEPT !.frames[1].toks = Tail(@)]]
             ELSE IF f.file /\ s.depth = 0 /\ Len(s.frames) = 1 THEN [t |-> END, s |-> s]
             ELSE raw_next([s EXCEPT !.frames = Tail(@), !.active = unmarked(s, f), !.depth = IF f.file THEN @ - 1 ELSE @])

unget(s, t) == IF t = END THEN s ELSE [s EXCEPT !.back = <<t>> \o @]
Emit(s, t)  == [s EXCEPT !.out = Append(@, t)]
error_at(s) == [s EXCEPT !.err = TRUE]

(***************************************************************************)
(* Replacement                                                             *)
(***************************************************************************)
RECURSIVE expand(_, _), Scan(_), read_args(_, _, _, _, _), Body(_, _, _, _, _)

(* What a list becomes by itself, while the macros of s are being replaced *)
expand_list(list, s) ==
    LET r == Scan(push_frame([s EXCEPT !.frames = <<>>, !.back = <<>>, !.out = <<>>], list, None, FALSE))
    IN  IF r.err THEN <<ERR>> ELSE r.out

Scan(s) == LET r == raw_next(s) IN IF r.t = END \/ s.err THEN r.s ELSE Scan(expand(r.s, r.t))

stringize(a) == [k |-> "str", t |-> FlattenSeq([i \in DOMAIN a |-> a[i].t]), no |-> FALSE]

paste(a, b) == IF a.k = "id" /\ b.k = "id" THEN [k |-> "id", t |-> a.t \o b.t, no |-> FALSE] ELSE ERR

param_index(m, i) ==
    IF i > Len(m.body) \/ \A j \in DOMAIN m.params : m.body[i] # m.params[j] THEN 0
    ELSE CHOOSE j \in DOMAIN m.params : m.body[i] = m.params[j]

(* A parameter in front of ## is not replaced                              *)
Raw(m, i) == i < Len(m.body) /\ m.body[i + 1] = PASTE

(* The body from its i-th token on, behind what it became so far           *)
Body(m, args, s, i, out) ==
    IF i > Len(m.body) THEN out
    ELSE LET t  == m.body[i]
             pi == param_index(m, i)
             pn == param_index(m, i + 1)
             rl == IF pn > 0 THEN args[pn] ELSE <<m.body[i + 1]>>
         IN  CASE t = HASH /\ m.fn ->
                     IF pn = 0 THEN <<ERR>> ELSE Body(m, args, s, i + 2, Append(out, stringize(args[pn])))
               [] t = PASTE ->
                     IF out = <<>> \/ i = Len(m.body) THEN <<ERR>>
                     ELSE Body(m, args, s, i + 2, IF rl = <<>> THEN out
                                                  ELSE Front(out) \o <<paste(Last(out), Head(rl))>> \o Tail(rl))
               [] pi > 0 -> Body(m, args, s, i + 1, out \o IF Raw(m, i) THEN args[pi] ELSE expand_list(args[pi], s))
               [] OTHER  -> Body(m, args, s, i + 1, Append(out, t))

substitute(m, args, s) == Body(m, args, s, 1, <<>>)

(* The arguments read, with those the call may leave out                   *)
Counted(m, a) ==
    IF Len(a) = 1 /\ Len(m.params) = 0 /\ a[1] = <<>> THEN <<>>
    ELSE IF m.variadic /\ Len(a) = Len(m.params) - 1 THEN Append(a, <<>>) ELSE a

read_args(s, m, args, cur, depth) ==
    LET more == m.variadic /\ Len(args) = Len(m.params) - 1
        token(u, t) ==
            IF t = END THEN [s |-> error_at(s), args |-> <<>>]
            ELSE IF depth = 0 /\ t = RP
                 THEN LET a == Counted(m, Append(args, cur))
                      IN  [s |-> IF Len(a) = Len(m.params) THEN u ELSE error_at(u), args |-> a]
            ELSE IF depth = 0 /\ t = COMMA /\ ~more THEN read_args(u, m, Append(args, cur), <<>>, 0)
            ELSE read_args(u, m, args, Append(cur, t), depth + (IF t = LP THEN 1 ELSE 0) - (IF t = RP THEN 1 ELSE 0))
        read(r) == token(r.s, r.t)
    IN  read(raw_next(s))

(* A token is replaced, by a frame of its own, or comes out                *)
expand(s, t) ==
    IF t.k # "id" \/ t.t \notin DOMAIN s.macros \/ t.no THEN Emit(s, t)
    ELSE IF t.t \in s.active THEN Emit(s, [t EXCEPT !.no = TRUE])
    ELSE LET m == s.macros[t.t]
             put(u, b) == IF u.err \/ ERR \in Range(b) THEN error_at(u) ELSE push_frame(u, b, t.t, FALSE)
             replace(a) == put(a.s, substitute(m, a.args, a.s))
             call(r) == IF r.t # LP THEN Emit(unget(r.s, r.t), t) ELSE replace(read_args(r.s, m, <<>>, <<>>, 0))
         IN  IF m.fn THEN call(raw_next(s)) ELSE replace([s |-> s, args |-> <<>>])

(***************************************************************************)
(* Directives                                                              *)
(***************************************************************************)
skipping(s) == s.conds # <<>> /\ ~Head(s.conds).taking

elifTried(c) == c.outer /\ ~c.done

If(s, v) == LET outer == ~skipping(s)
                taking == outer /\ v
            IN  [s EXCEPT !.conds = <<[taking |-> taking, done |-> taking, in_else |-> FALSE, outer |-> outer]>> \o @]

Elif(s, v) ==
    IF s.conds = <<>> \/ Head(s.conds).in_else THEN error_at(s)
    ELSE LET c == Head(s.conds)
         IN  [s EXCEPT !.conds[1] = IF elifTried(c) THEN [c EXCEPT !.taking = v, !.done = v] ELSE [c EXCEPT !.taking = FALSE]]

Else(s) ==
    IF s.conds = <<>> \/ Head(s.conds).in_else THEN error_at(s)
    ELSE LET c == Head(s.conds)
         IN  [s EXCEPT !.conds[1] = [c EXCEPT !.in_else = TRUE, !.taking = c.outer /\ ~c.done, !.done = TRUE]]

include_file(s, n) ==
    IF s.depth > MAXINC THEN error_at(s) ELSE push_frame([s EXCEPT !.depth = @ + 1], Files[n], None, TRUE)

(* A directive of the file on top.  #if and #elif ask whether a name is    *)
(* defined; a definition is one of Defs.                                   *)
directive(s, d) ==
    LET x == d.t[1]
        n == d.t[2]
        v == <<n>> \in DOMAIN s.macros
    IN  CASE x = "if"     -> If(s, v)
          [] x = "ifndef" -> If(s, ~v)
          [] x = "elif"   -> Elif(s, v)
          [] x = "else"   -> Else(s)
          [] x = "endif"  -> IF s.conds = <<>> THEN error_at(s) ELSE [s EXCEPT !.conds = Tail(@)]
          [] skipping(s)  -> s
          [] x = "define" -> [s EXCEPT !.macros = (Defs[n].name :> Defs[n]) @@ @]
          [] x = "undef"  -> [s EXCEPT !.macros = [y \in DOMAIN @ \ {<<n>>} |-> @[y]]]
          [] x = "include" -> include_file(s, n)

(* preprocess takes one token                                              *)
Step(s) ==
    LET take(u, t) == IF t = END THEN [IF s.conds # <<>> THEN error_at(u) ELSE u EXCEPT !.done = TRUE]
                      ELSE IF t.k = "#" /\ Head(u.frames).file /\ u.back = <<>> THEN directive(u, t)
                      ELSE IF skipping(s) THEN u
                      ELSE expand(u, t)
        read(r) == take(r.s, r.t)
    IN  read(raw_next(s))

Start(text) ==
    push_frame([frames |-> <<>>, back |-> <<>>, active |-> {}, macros |-> <<>>, conds |-> <<>>, out |-> <<>>, err |-> FALSE,
                depth |-> 0, done |-> FALSE], text, None, TRUE)

(***************************************************************************)
(* The expressions of #if, as sequences of numbers, names and operators.   *)
(* Each function returns the value v and the tokens left, or an error,     *)
(* which ends the preprocessor.  A number has W bits.                      *)
(***************************************************************************)
Nu(v) == [k |-> "num", v |-> v, o |-> ""]
Op(o) == [k |-> "op", v |-> 0, o |-> o]
Name  == [k |-> "id", v |-> 0, o |-> ""]

Got(v, ts) == [ok |-> TRUE, v |-> v, ts |-> ts]
Fail       == [ok |-> FALSE, v |-> 0, ts |-> <<>>]
is_punct(ts, o) == ts # <<>> /\ Head(ts).o = o

Wrap(v)    == ((v + 2^(W - 1)) % 2^W) - 2^(W - 1)
Truth(b)   == IF b THEN 1 ELSE 0
Trunc(a, b) == LET q == (IF a < 0 THEN -a ELSE a) \div (IF b < 0 THEN -b ELSE b) IN IF (a < 0) # (b < 0) THEN -q ELSE q
Bits(a, b, f(_, _)) == Wrap(FoldLeft(LAMBDA n, i : n + (2^i) * f((a \div 2^i) % 2, (b \div 2^i) % 2), 0, [i \in 1 .. W |-> i - 1]))

Prec == [x \in {"*", "/", "%"} |-> 10] @@ [x \in {"+", "-"} |-> 9] @@ [x \in {"<<", ">>"} |-> 8]
        @@ [x \in {"<", ">", "<=", ">="} |-> 7] @@ [x \in {"==", "!="} |-> 6]
        @@ [x \in {"&"} |-> 5] @@ [x \in {"^"} |-> 4] @@ [x \in {"|"} |-> 3] @@ [x \in {"&&"} |-> 2] @@ [x \in {"||"} |-> 1]

prec_of(ts) == IF ts = <<>> \/ Head(ts).o \notin DOMAIN Prec THEN -1 ELSE Prec[Head(ts).o]

Binary(o, l, r) ==
    CASE o = "*"  -> Wrap(l * r)          [] o = "/"  -> Wrap(Trunc(l, r))     [] o = "%"  -> Wrap(l - r * Trunc(l, r))
      [] o = "+"  -> Wrap(l + r)          [] o = "-"  -> Wrap(l - r)
      [] o = "<<" -> Wrap(l * 2^r)        [] o = ">>" -> l \div 2^r
      [] o = "<"  -> Truth(l < r)         [] o = ">"  -> Truth(l > r)
      [] o = "<=" -> Truth(l <= r)        [] o = ">=" -> Truth(l >= r)
      [] o = "==" -> Truth(l = r)         [] o = "!=" -> Truth(l # r)
      [] o = "&"  -> Bits(l, r, LAMBDA x, y : x * y)
      [] o = "^"  -> Bits(l, r, LAMBDA x, y : (x + y) % 2)
      [] o = "|"  -> Bits(l, r, LAMBDA x, y : x + y - x * y)
      [] o = "&&" -> Truth(l # 0 /\ r # 0) [] o = "||" -> Truth(l # 0 \/ r # 0)

ByZero(o, r) == o \in {"/", "%"} /\ r = 0

tighter(p) == p + 1

RECURSIVE eval_primary(_), eval_bin(_, _), More(_, _, _), eval_expr(_)

(* A name that is left stands for 0 *)
eval_primary(ts) ==
    LET x == Head(ts)
        u == eval_primary(Tail(ts))
        e == eval_expr(Tail(ts))
        Unary(v) == IF u.ok THEN Got(v, u.ts) ELSE Fail
    IN  CASE ts = <<>>    -> Fail
          [] is_punct(ts, "(") -> IF e.ok /\ is_punct(e.ts, ")") THEN Got(e.v, Tail(e.ts)) ELSE Fail
          [] is_punct(ts, "!") -> Unary(Truth(u.v = 0))
          [] is_punct(ts, "~") -> Unary(-u.v - 1)
          [] is_punct(ts, "-") -> Unary(Wrap(-u.v))
          [] is_punct(ts, "+") -> u
          [] ts # <<>> /\ x.k = "num" -> Got(x.v, Tail(ts))
          [] ts # <<>> /\ x.k = "id"  -> Got(0, Tail(ts))
          [] OTHER -> Fail

(* The operators that follow l and bind at least as tightly as minp; both  *)
(* operands are always evaluated                                           *)
More(l, ts, minp) ==
    IF prec_of(ts) < minp THEN Got(l, ts)
    ELSE LET r == eval_bin(Tail(ts), tighter(prec_of(ts)))
         IN  IF ~r.ok \/ ByZero(Head(ts).o, r.v) THEN Fail ELSE More(Binary(Head(ts).o, l, r.v), r.ts, minp)

eval_bin(ts, minp) == LET l == eval_primary(ts) IN IF l.ok THEN More(l.v, l.ts, minp) ELSE Fail

eval_expr(ts) ==
    LET c == eval_bin(ts, 1)
        a == eval_expr(Tail(c.ts))
        b == eval_expr(Tail(a.ts))
    IN  IF ~c.ok \/ ~is_punct(c.ts, "?") THEN c
        ELSE IF ~a.ok \/ ~is_punct(a.ts, ":") \/ ~b.ok THEN Fail
        ELSE Got(IF c.v # 0 THEN a.v ELSE b.v, b.ts)

(* Nothing may be left behind the expression *)
eval_if(ts) == LET e == eval_expr(ts) IN IF e.ok /\ e.ts = <<>> THEN e ELSE Fail

------------------------------------------------------------------------------
(***************************************************************************)
(* The preprocessor against a reference: a source of nested groups is its  *)
(* live lines, and a macro is replaced by the rule of hidden names, where  *)
(* each token carries the names it came from.  Expressions are checked     *)
(* against the trees they were written from.                               *)
(***************************************************************************)

VARIABLES src, ps, tree, value

Texts ==
    {<<A>>, <<A, LP, A, RP>>, <<B, LP, A, RP>>, <<B, LP, B, RP>>, <<B, LP, B, LP, A, RP, RP, Y>>, <<B, LP, A, RP, LP, Y, RP>>,
     <<B, LP, B, RP, LP, A, RP>>, <<B, A>>, <<C, LP, A, COMMA, B, RP, LP, Y, RP>>, <<C, LP, B, LP, A, RP, COMMA, A, RP>>,
     <<C, LP, A, COMMA, LP, Y, COMMA, Y, RP, RP>>, <<B, LP, C, LP, A, RP, RP>>, <<B, LP, C, LP, Y, COMMA, A, RP, RP, A>>, <<A, A, LP, C, RP>>}

Macros == {[i \in 1 .. 4 |-> Dir("define", <<d[1], d[2], d[3], "AY">>[i])] :
              d \in {"A1", "A2", "A3", "A4", "A5", "A6"} \X {"B1", "B2", "B3", "B4", "B5", "B6", "B7"} \X {"C1", "C2", "C3", "C4"}}

(* Conditions: at every place a line of text, or a group                   *)
Ask(x)     == {Dir(x, "A"), Dir(x, "B")}
Middle     == {<<>>} \cup {<<d, Y>> : d \in Ask("elif")} \cup {<<d, Y, e, C>> : d, e \in Ask("elif")}
Last1      == {<<>>, <<Dir("else", ""), Z>>}
Group(x)   == {<<i>> \o x \o m \o l \o <<Dir("endif", "")>> : i \in Ask("if") \cup Ask("ifndef"), m \in Middle, l \in Last1}
Inner      == {<<i, Y, Dir("else", ""), Z, Dir("endif", "")>> : i \in Ask("if")} \cup {<<Dir("undef", "A"), X>>, <<Dir("include", "h")>>}
Conditions == {d \o g \o <<A>> : d \in {<<>>, <<Dir("define", "A1")>>, <<Dir("define", "A1"), Dir("define", "B8")>>},
                                 g \in UNION {Group(x) : x \in Inner}}
Others     == {<<Dir("include", "h"), Dir("include", "h"), X>>, <<Dir("include", "deep")>>, <<Dir("define", "B1"), Dir("include", "name"), LP, Y, RP>>,
               <<Dir("else", "")>>, <<Dir("if", "A"), Y>>, <<Dir("endif", "")>>, <<Dir("define", "B8"), B, LP, RP, B, LP, Y, RP>>,
               <<Dir("if", "A"), Dir("else", ""), Dir("elif", "A"), Dir("endif", "")>>}

Sources == {d \o x : d \in Macros, x \in Texts} \cup Conditions \cup Others

(***************************************************************************)
(* The reference for macros: a token is [t, hs] with the names hs hidden   *)
(* from it                                                                 *)
(***************************************************************************)
Seen(ts)     == [i \in DOMAIN ts |-> [t |-> ts[i], hs |-> {}]]
Hide(ts, hs) == [i \in DOMAIN ts |-> [ts[i] EXCEPT !.hs = @ \cup hs]]
Plain(ts)    == [i \in DOMAIN ts |-> [ts[i].t EXCEPT !.no = FALSE]]
Bad          == <<[t |-> ERR, hs |-> {}]>>
Open         == <<[t |-> [k |-> "open", t |-> <<>>, no |-> FALSE], hs |-> {}]>>

(* The place of the parenthesis that closes the one at 1                   *)
Depth(ts, i)  == Cardinality({j \in 1 .. i : ts[j].t = LP}) - Cardinality({j \in 1 .. i : ts[j].t = RP})
Closings(ts)  == {i \in DOMAIN ts : Depth(ts, i) = 0 /\ \A j \in 1 .. i - 1 : Depth(ts, j) > 0}
Commas(ts, c, most) ==
    LET all == {i \in 2 .. c - 1 : ts[i].t = COMMA /\ Depth(ts, i) = 1}
    IN  SetToSortSeq({i \in all : Cardinality({j \in all : j <= i}) <= most}, <)
Split(ts, c, most) ==
    LET cs == <<1>> \o Commas(ts, c, most) \o <<c>> IN [i \in 1 .. Len(cs) - 1 |-> SubSeq(ts, cs[i] + 1, cs[i + 1] - 1)]

RECURSIVE Ref(_, _), RefBody(_, _, _, _, _)

RefBody(ms, m, args, i, out) ==
    LET p(j) == {a \in DOMAIN m.params : j <= Len(m.body) /\ m.params[a] = m.body[j]}
        arg(j) == args[CHOOSE a \in p(j) : TRUE]
        right  == IF p(i + 1) # {} THEN arg(i + 1) ELSE Seen(<<m.body[i + 1]>>)
        Glue(l, r) == IF l.t.k = "id" /\ r.t.k = "id" THEN [t |-> [l.t EXCEPT !.t = @ \o r.t.t], hs |-> l.hs \cap r.hs] ELSE Bad[1]
    IN  IF i > Len(m.body) THEN out
        ELSE IF m.fn /\ m.body[i] = HASH
             THEN RefBody(ms, m, args, i + 2, Append(out, [t |-> [k |-> "str", t |-> FlattenSeq([j \in DOMAIN arg(i + 1) |-> arg(i + 1)[j].t.t]),
                                                                  no |-> FALSE], hs |-> {}]))
        ELSE IF m.body[i] = PASTE /\ p(i - 1) # {} /\ arg(i - 1) = <<>> THEN Open
        ELSE IF m.body[i] = PASTE
             THEN RefBody(ms, m, args, i + 2, IF right = <<>> THEN out ELSE Front(out) \o <<Glue(Last(out), Head(right))>> \o Tail(right))
        ELSE IF p(i) # {}
             THEN RefBody(ms, m, args, i + 1, out \o IF i < Len(m.body) /\ m.body[i + 1] = PASTE THEN arg(i) ELSE Ref(ms, arg(i)))
        ELSE RefBody(ms, m, args, i + 1, out \o Seen(<<m.body[i]>>))

Ref(ms, ts) ==
    IF ts = <<>> THEN <<>>
    ELSE LET x    == Head(ts)
             rest == Tail(ts)
             m    == ms[x.t.t]
             c    == CHOOSE i \in Closings(rest) : TRUE
             args == Counted(m, Split(rest, c, IF m.variadic THEN Len(m.params) - 1 ELSE Len(rest)))
         IN  IF x.t.k # "id" \/ x.t.t \notin DOMAIN ms \/ x.t.t \in x.hs THEN <<x>> \o Ref(ms, rest)
             ELSE IF ~m.fn THEN Ref(ms, Hide(RefBody(ms, m, <<>>, 1, <<>>), x.hs \cup {x.t.t}) \o rest)
             ELSE IF rest = <<>> \/ rest[1].t # LP THEN <<x>> \o Ref(ms, rest)
             ELSE IF Closings(rest) = {} \/ Len(args) # Len(m.params) THEN Bad
             ELSE Ref(ms, Hide(RefBody(ms, m, args, 1, <<>>), (x.hs \cap rest[c].hs) \cup {x.t.t}) \o SubSeq(rest, c + 1, Len(rest)))

(***************************************************************************)
(* The reference for lines: what is live, with the definitions made there  *)
(***************************************************************************)
Opens(x)   == x.k = "#" /\ x.t[1] \in {"if", "ifndef"}
Is(x, n)   == x.k = "#" /\ x.t[1] = n
Nest(xs, i) == Cardinality({j \in 1 .. i : Opens(xs[j])}) - Cardinality({j \in 1 .. i : Is(xs[j], "endif")})
Ends(xs)   == {i \in DOMAIN xs : Is(xs[i], "endif") /\ Nest(xs, i) = 0 /\ \A j \in 1 .. i - 1 : Nest(xs, j) > 0}
Marks(xs, e) == {i \in 1 .. e : Nest(xs, i) = 1 /\ (i = 1 \/ Is(xs[i], "elif") \/ Is(xs[i], "else"))}
Holds(x, defd) == \/ x.t[1] \in {"if", "elif"} /\ x.t[2] \in defd
                  \/ x.t[1] = "ifndef" /\ x.t[2] \notin defd
                  \/ x.t[1] = "else"

Wrong == [ev |-> <<>>, defd |-> {}, ok |-> FALSE]
Then(a, b) == [ev |-> a.ev \o b.ev, defd |-> b.defd, ok |-> a.ok /\ b.ok]

RECURSIVE Live(_, _, _), Out(_, _, _)

Live(xs, defd, depth) ==
    IF xs = <<>> THEN [ev |-> <<>>, defd |-> defd, ok |-> TRUE]
    ELSE LET x     == Head(xs)
             n     == x.t[2]
             Go(a, rest) == IF a.ok THEN Then(a, Live(rest, a.defd, depth)) ELSE Wrong
             Branch(marks, first, e) == SubSeq(xs, marks[first] + 1, (IF first = Len(marks) THEN e ELSE marks[first + 1]) - 1)
             Taken(marks, true, e) ==
                IF \E i \in 1 .. Len(marks) - 1 : Is(xs[marks[i]], "else") THEN Wrong
                ELSE Go(Live(IF true = {} THEN <<>> ELSE Branch(marks, CHOOSE i \in true : \A j \in true : i <= j, e), defd, depth),
                        SubSeq(xs, e + 1, Len(xs)))
             Chosen(marks, e) == Taken(marks, {i \in DOMAIN marks : Holds(xs[marks[i]], defd)}, e)
             Closed(e) == Chosen(SetToSortSeq(Marks(xs, e), <), e)
             Now(d) == [ev |-> <<x>>, defd |-> d, ok |-> TRUE]
         IN  CASE x.k # "#"        -> Go(Now(defd), Tail(xs))
               [] Is(x, "define")  -> Go(Now(defd \cup {Defs[n].name[1]}), Tail(xs))
               [] Is(x, "undef")   -> Go(Now(defd \ {n}), Tail(xs))
               [] Is(x, "include") -> IF depth > MAXINC THEN Wrong ELSE Go(Live(Files[n], defd, depth + 1), Tail(xs))
               [] Opens(x)         -> IF Ends(xs) = {} THEN Wrong ELSE Closed(CHOOSE i \in Ends(xs) : TRUE)
               [] OTHER            -> Wrong

Out(ev, ms, run) ==
    IF ev = <<>> THEN Ref(ms, run)
    ELSE LET x == Head(ev)
         IN  IF Is(x, "define") THEN Ref(ms, run) \o Out(Tail(ev), (Defs[x.t[2]].name :> Defs[x.t[2]]) @@ ms, <<>>)
             ELSE IF Is(x, "undef") THEN Ref(ms, run) \o Out(Tail(ev), [y \in DOMAIN ms \ {<<x.t[2]>>} |-> ms[y]], <<>>)
             ELSE Out(Tail(ev), ms, Append(run, Seen(<<x>>)[1]))

(***************************************************************************)
(* Expressions as trees, and their text with no more parentheses than      *)
(* needed                                                                  *)
(***************************************************************************)
Leaf(v)    == [o |-> "", v |-> v, kids |-> <<>>]
Node(o, s) == [o |-> o, v |-> 0, kids |-> s]
Leaves     == {Leaf(0), Leaf(2), Leaf(3)}
Pairs      == {Node(o, <<l, r>>) : o \in DOMAIN Prec, l, r \in Leaves}
Unaries    == {"!", "~", "-", "+"}

RECURSIVE Val(_), Divides(_), Sound(_), Write(_, _)

Val(n) ==
    CASE n.o = ""                     -> n.v
      [] Len(n.kids) = 2              -> Binary(n.o, Val(n.kids[1]), Val(n.kids[2]))
      [] n.o = "?"                    -> IF Val(n.kids[1]) # 0 THEN Val(n.kids[2]) ELSE Val(n.kids[3])
      [] n.o = "!"                    -> Truth(Val(n.kids[1]) = 0)
      [] n.o = "~"                    -> -Val(n.kids[1]) - 1
      [] n.o = "-"                    -> Wrap(-Val(n.kids[1]))
      [] n.o = "+"                    -> Val(n.kids[1])

(* Nothing is divided by zero *)
Divides(n) == /\ \A i \in DOMAIN n.kids : Divides(n.kids[i])
              /\ n.o \in {"/", "%"} => Val(n.kids[2]) # 0

(* Shifts are by what there is: others are undefined *)
Sound(n) == /\ \A i \in DOMAIN n.kids : Sound(n.kids[i])
            /\ n.o \in {"<<", ">>"} /\ Divides(n.kids[2]) => Val(n.kids[2]) \in 0 .. W - 1

Binds(n) == IF n.o = "" THEN 12 ELSE IF Len(n.kids) = 1 THEN 11 ELSE IF n.o = "?" THEN 0 ELSE Prec[n.o]

Write(n, p) ==
    LET s == CASE n.o = ""          -> <<IF n.v = 0 THEN Name ELSE Nu(n.v)>>
               [] Len(n.kids) = 1   -> <<Op(n.o)>> \o Write(n.kids[1], 11)
               [] Len(n.kids) = 2   -> Write(n.kids[1], Binds(n)) \o <<Op(n.o)>> \o Write(n.kids[2], Binds(n) + 1)
               [] Len(n.kids) = 3   -> Write(n.kids[1], 1) \o <<Op("?")>> \o Write(n.kids[2], 0) \o <<Op(":")>> \o Write(n.kids[3], 0)
    IN  IF Binds(n) < p THEN <<Op("(")>> \o s \o <<Op(")")>> ELSE s

Trees == {n \in UNION {{Node(o, <<l, r>>) : o \in DOMAIN Prec, l \in Leaves, r \in Pairs},
                       {Node(o, <<l, r>>) : o \in DOMAIN Prec, l \in Pairs, r \in Leaves},
                       {Node(u, <<x>>) : u \in Unaries, x \in Pairs},
                       {Node(o, <<Node(u, <<l>>), r>>) : o \in DOMAIN Prec, u \in Unaries, l, r \in Leaves},
                       {Node("?", <<c, l, r>>) : c \in {Leaf(0), Node("-", <<Leaf(2), Leaf(2)>>)},
                                                 l \in Leaves, r \in {Leaf(2), Node("/", <<Leaf(2), Leaf(0)>>), Node("?", <<Leaf(2), Leaf(0), Leaf(3)>>)}}} : Sound(n)}

(* Texts that may be expressions or not, and those that are: operands      *)
(* where they are wanted, and every bracket and every ? closed by its own  *)
Tokens == {Nu(2), Op("("), Op(")"), Op("-"), Op("?"), Op(":")}
Scraps == {[o |-> "text", v |-> 0, kids |-> ts] : ts \in SeqOf(Tokens, 5)}

Follow(s, x) ==
    LET want(w) == [s EXCEPT !.want = w]
        close(o) == ~s.want /\ s.open # <<>> /\ Head(s.open) = o
    IN  CASE x.k = "num" /\ s.want -> want(FALSE)
          [] x.o = "-" -> want(TRUE)
          [] x.o = "(" /\ s.want -> [s EXCEPT !.open = <<"(">> \o @]
          [] x.o = ")" /\ close("(") -> [s EXCEPT !.open = Tail(@)]
          [] x.o = "?" /\ ~s.want -> [s EXCEPT !.open = <<"?">> \o @, !.want = TRUE]
          [] x.o = ":" /\ close("?") -> [s EXCEPT !.open = Tail(@), !.want = TRUE]
          [] OTHER -> [s EXCEPT !.ok = FALSE]
Formed(ts) ==
    LET s == FoldLeft(Follow, [ok |-> TRUE, want |-> TRUE, open |-> <<>>], ts) IN s.ok /\ ~s.want /\ s.open = <<>>

Text(n) == IF n.o = "text" THEN n.kids ELSE Write(n, 0)

(***************************************************************************)
(* Either a source or an expression                                        *)
(***************************************************************************)
PpInit ==
    \/ src \in Sources /\ ps = Start(src) /\ tree = Leaf(0) /\ value = <<>>
    \/ src = <<>> /\ ps = [Start(<<>>) EXCEPT !.done = TRUE] /\ tree \in Trees \cup Scraps /\ value = <<>>

PpNext ==
    \/ ~ps.done /\ ~ps.err /\ ps' = Step(ps) /\ UNCHANGED <<src, tree, value>>
    \/ src = <<>> /\ value = <<>> /\ value' = eval_if(Text(tree)) /\ UNCHANGED <<src, ps, tree>>

(***************************************************************************)
(* Properties                                                              *)
(***************************************************************************)
(* What comes out is what the source says: of every group the lines of the *)
(* first branch that holds, in nested groups and included files, and with  *)
(* every macro replaced as by the rule of hidden names, although only a    *)
(* flag of the macro says that it is being replaced (raw_next, expand,     *)
(* substitute, read_args, directive).  What is wrong is reported.  An      *)
(* argument that is empty in front of ## is left open.                     *)
ComesOutAsWritten ==
    ps.done \/ ps.err =>
        LET came(out, ok) == \/ \E i \in DOMAIN out : out[i].t = Open[1].t
                             \/ IF ~ok \/ \E i \in DOMAIN out : out[i].t = ERR THEN ps.err
                                ELSE ~ps.err /\ [i \in DOMAIN ps.out |-> [ps.out[i] EXCEPT !.no = FALSE]] = Plain(out)
            of(live) == came(Out(live.ev, <<>>, <<>>), live.ok)
        IN  of(Live(src, {}, 0))

(* A macro is marked as being replaced exactly while a frame of its tokens *)
(* is on the stack, and has one such frame (push_frame, raw_next).         *)
ActiveHasFrame ==
    LET of(m) == {i \in DOMAIN ps.frames : ps.frames[i].mac = m}
    IN  \A m \in {<<"A">>, <<"B">>, <<"C">>, <<"A", "y">>} : Cardinality(of(m)) = Truth(m \in ps.active)

(* An expression of #if has the value of the tree it was written from, by  *)
(* the precedence of the operators and from the left, and what is not an   *)
(* expression is an error (eval_primary, eval_bin, eval_expr, eval_if).    *)
(* A division by zero is an error anywhere, also in an operand that &&, || *)
(* or ?: does not need: pp.c:617 divides before it knows.                  *)
EvaluatesAsGrouped ==
    value # <<>> => IF tree.o = "text" THEN value.ok = Formed(tree.kids)
                    ELSE value = IF Divides(tree) THEN Got(Val(tree), <<>>) ELSE Fail

(* The preprocessor's output is the source's live lines with their macros  *)
(* replaced, and its conditions have the values that were written.         *)
PreprocessesRight == ComesOutAsWritten /\ ActiveHasFrame /\ EvaluatesAsGrouped
==============================================================================
