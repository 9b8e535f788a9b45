------------------------------ MODULE Toolchain ------------------------------
(***************************************************************************)
(* From sources to a program in memory: the assembler                      *)
(* (assembler/assembler.c) run on each file, the linker (tools/tlink.c) on *)
(* the objects, and the loaders (src/emu.c, src/cpu.c) of a TEX1 image, of *)
(* the plain bytes of a flat one, and of the ROM.  Files are assembled one *)
(* after another, each by an assembler of its own.                         *)
(*                                                                         *)
(* Macros and includes are expanded first; the statements are then read    *)
(* twice: the first pass finds where the labels are, the second emits the  *)
(* bytes and the relocations.  Bytes that refer to nothing are only        *)
(* counted; a field that holds a value is kept with its place, its width   *)
(* in bytes and its value.                                                 *)
(*                                                                         *)
(* A line is a record whose k says what it is.  A name as it is written is *)
(* a pair <<base, number>>: the number is what \@ was replaced by.  In the *)
(* symbol table a name is a pair too: the label it is local to and itself. *)
(***************************************************************************)
EXTENDS Integers, Sequences, FiniteSets, SequencesExt, TLC

CONSTANTS Locals,       \* bases that begin with a dot
          BYTE,         \* values of a byte
          MAXSPACE,     \* the largest .space
          FLAT_LIMIT,   \* where an image may begin other than at zero
          MAXINC, MAXMACDEPTH,
          PAGE,         \* what the data segment is aligned to
          RamSize,      \* bytes of memory the image is loaded into
          ROM_BASE, ROM_SIZE

VARIABLES files,        \* [lines, lib]: the sources and the options given for them
          how,          \* [objmode, inc, text_addr, entry, explicit, flat, rom]
          as,           \* the assembler at work
          objs,         \* what was written so far
          out,          \* what the linker wrote
          mem           \* what the loader put where

tvars == <<files, how, as, objs, out, mem>>

Idle  == [pass |-> -1]
None  == [err |-> "none"]

Sections  == {"text", "data", "bss"}
NoName    == <<"", 0>>
Sec(x)    == <<NoName, <<x, 0>>>>
Abs       == Sec("-")
U(v)      == v % (BYTE ^ 4)
Val(v, s) == [v |-> U(v), s |-> s]
IsSec(s)  == \E x \in Sections : s = Sec(x)

fatal(t, why) == [t EXCEPT !.err = why]

(***************************************************************************)
(* Macros and includes.  In a macro's body the base "arg" is its parameter *)
(* and the base "uniq" ends in \@.                                         *)
(***************************************************************************)
Substitute(n, arg, id) == CASE n[1] = "arg" -> arg [] n[1] = "uniq" -> <<"uniq", id>> [] OTHER -> n

Expanded(l, arg, id) ==
    CASE l.k \in {"label", "globl"} -> [l EXCEPT !.n = Substitute(@, arg, id)]
      [] l.k = "call" -> [l EXCEPT !.a = Substitute(@, arg, id)]
      [] l.k \in {"field", "equ"} /\ l.e.k = "sym" -> [l EXCEPT !.e.n = Substitute(@, arg, id)]
      [] OTHER -> l

find_macro(t, n) == SelectInSeq(t.macros, LAMBDA m : m.n = n)

RECURSIVE process_line(_, _, _, _)
expand_macro(t, l, inc, depth) ==
    LET m == t.macros[find_macro(t, l.n)]
    IN  IF depth > MAXMACDEPTH THEN fatal(t, "macro expansion too deep")
        ELSE FoldLeft(LAMBDA u, b : process_line(u, Expanded(b, l.a, t.uniq), inc, depth + 1),
                      [t EXCEPT !.uniq = @ + 1], m.body)

process_line(t, l, inc, depth) ==
    CASE t.err # "" -> t
      [] t.err = "" /\ t.defmac /\ l.k = "endm"  -> [t EXCEPT !.defmac = FALSE]
      [] t.err = "" /\ t.defmac /\ l.k = "macro" -> fatal(t, "nested macro definition")
      [] t.err = "" /\ t.defmac /\ l.k \notin {"endm", "macro"} ->
            [t EXCEPT !.macros[Len(t.macros)].body = Append(@, l)]
      [] t.err = "" /\ ~t.defmac /\ l.k = "macro" ->
            [t EXCEPT !.defmac = TRUE, !.macros = Append(@, [n |-> l.n, body |-> <<>>])]
      [] t.err = "" /\ ~t.defmac /\ l.k = "endm" -> fatal(t, "endm without macro")
      [] t.err = "" /\ ~t.defmac /\ l.k = "include" ->
            IF depth >= MAXINC THEN fatal(t, "include nested too deeply")
            ELSE FoldLeft(LAMBDA u, b : process_line(u, b, inc, depth + 1), t, inc)
      [] t.err = "" /\ ~t.defmac /\ l.k = "call" /\ find_macro(t, l.n) # 0 -> expand_macro(t, l, inc, depth)
      [] OTHER -> [t EXCEPT !.lines = Append(@, l)]

read_file(t, file, inc) ==
    LET u == FoldLeft(LAMBDA w, l : process_line(w, l, inc, 0), t, file)
    IN  IF u.err = "" /\ u.defmac THEN fatal(u, "missing endm") ELSE u

(***************************************************************************)
(* Symbols and expressions: a number, a name and an offset, the place      *)
(* reached, or the difference of two names                                 *)
(***************************************************************************)
NoSym == [defined |-> FALSE, sec |-> "-", val |-> 0, glob |-> FALSE, rsym |-> Abs, used |-> FALSE]

full_name(t, n) == IF n[1] \in Locals THEN <<t.last, n>> ELSE <<NoName, n>>
sym_get(t, n)   == IF n \in DOMAIN t.sym THEN t.sym[n] ELSE NoSym
Put(t, n, s)    == [t EXCEPT !.sym = [m \in DOMAIN t.sym \cup {n} |-> IF m = n THEN s ELSE t.sym[m]]]

(* A name that is not defined yet is zero in the first pass and belongs to *)
(* another file in the second                                              *)
sym_val(t, raw) ==
    LET n == full_name(t, raw)
        s == sym_get(t, n)
    IN  CASE ~s.defined -> Val(0, IF t.pass = 1 THEN Abs ELSE n)
          [] s.defined /\ s.sec = "equ" -> Val(s.val, s.rsym)
          [] OTHER -> Val(s.val, IF t.objmode THEN Sec(s.sec) ELSE Abs)

e_add(a, b) == Val(a.v - b.v, IF b.s = Abs THEN a.s ELSE Abs)
NoDifference(t, a, b) == t.pass = 2 /\ b.s # Abs /\ ~(a.s = b.s /\ IsSec(b.s) /\ t.objmode)

value(t, e) ==
    CASE e.k = "num" -> Val(e.add, Abs)
      [] e.k = "sym" -> LET a == sym_val(t, e.n) IN Val(a.v + e.add, a.s)
      [] e.k = "dot" -> Val(t.loc[t.sec] + e.add, IF t.objmode THEN Sec(t.sec) ELSE Abs)
      [] e.k = "sub" -> e_add(sym_val(t, e.n), sym_val(t, e.m))

Names(e) == CASE e.k = "sym" -> {e.n} [] e.k = "sub" -> {e.n, e.m} [] OTHER -> {}

(* The state after an expression is read: the names of other files in it   *)
(* are marked as used                                                      *)
eval(t, e) ==
    LET miss == {full_name(t, n) : n \in {x \in Names(e) : ~sym_get(t, full_name(t, x)).defined}}
    IN  CASE t.pass = 2 /\ miss # {} /\ ~t.objmode -> fatal(t, "undefined symbol")
          [] e.k = "sub" /\ NoDifference(t, sym_val(t, e.n), sym_val(t, e.m)) -> fatal(t, "invalid difference")
          [] OTHER -> [t EXCEPT !.sym = [n \in DOMAIN t.sym \cup miss |->
                                           IF n \in miss THEN [sym_get(t, n) EXCEPT !.used = @ \/ t.pass = 2] ELSE t.sym[n]]]

eval_abs(t, e) ==
    LET absolute(u) == IF u.err = "" /\ value(t, e).s # Abs THEN fatal(u, "absolute expression required") ELSE u
    IN  absolute(eval(t, e))

(***************************************************************************)
(* Emitting                                                                *)
(***************************************************************************)
(* Fields that were there are written over *)
sec_put(t, n) ==
    LET lo == t.loc[t.sec]
    IN  IF t.pass = 2 /\ t.sec = "bss" /\ n > 0 THEN fatal(t, "data not allowed in bss")
        ELSE [t EXCEPT !.loc[t.sec] = U(@ + n), !.emitted = @ \/ n > 0,
                       !.out = {x \in @ : x.sec # t.sec \/ x.off + x.n <= lo \/ lo + n <= x.off}]

put(t, v, n) ==
    LET u == sec_put(t, n)
    IN  [u EXCEPT !.out = @ \cup {[sec |-> t.sec, off |-> t.loc[t.sec], n |-> n, v |-> v % (BYTE ^ n)]}]

add_reloc(t, type, v) ==
    [t EXCEPT !.rel = @ \cup {[off |-> t.loc[t.sec], sec |-> t.sec, type |-> type, sym |-> v.s, add |-> v.v]}]

Relocates(t, v) == t.pass = 2 /\ v.s # Abs
val16(t, v) == IF Relocates(t, v) THEN put(add_reloc(t, "ABS16", v), 0, 2) ELSE put(t, v.v, 2)
val32(t, v) == IF Relocates(t, v) THEN put(add_reloc(t, "ABS32", v), 0, 4) ELSE put(t, v.v, 4)

rel32(t, v) ==
    LET next == t.loc[t.sec] + 4
    IN  CASE t.pass = 1 -> put(t, 0, 4)
          [] t.pass = 2 /\ (~t.objmode \/ v.s = Sec(t.sec)) -> put(t, v.v - next, 4)
          [] t.pass = 2 /\ t.objmode /\ v.s = Abs -> fatal(t, "branch to an absolute address")
          [] OTHER -> put(add_reloc(t, "REL32", v), 0, 4)

(* An instruction with an address, or .word and .dword, which have no      *)
(* bytes before the field.  The operand is read before a byte is put.      *)
instr(t, s) ==
    LET opcode(u) == IF u.err = "" THEN sec_put(u, s.pre) ELSE u
        field(w, v) == CASE w.err # "" -> w
                         [] w.err = "" /\ s.f = "abs16" -> val16(w, v)
                         [] w.err = "" /\ s.f = "abs32" -> val32(w, v)
                         [] w.err = "" /\ s.f = "rel32" -> rel32(w, v)
    IN  field(opcode(eval(t, s.e)), value(t, s.e))

(***************************************************************************)
(* Labels and directives                                                   *)
(***************************************************************************)
define_label(t, raw) ==
    LET u == IF raw[1] \in Locals THEN t ELSE [t EXCEPT !.last = raw]
        n == full_name(u, raw)
        s == sym_get(u, n)
    IN  CASE t.pass = 1 /\ s.defined -> fatal(u, "duplicate symbol")
          [] t.pass = 1 /\ ~s.defined -> Put(u, n, [s EXCEPT !.defined = TRUE, !.sec = t.sec, !.val = t.loc[t.sec]])
          [] t.pass = 2 /\ (s.val # t.loc[t.sec] \/ s.sec # t.sec) -> fatal(u, "label moved between passes")
          [] OTHER -> u

equ(t, s) ==
    LET n == full_name(t, s.n)
        set(u, v) ==
            CASE u.err # "" -> u
              [] u.err = "" /\ t.pass = 1 /\ sym_get(u, n).defined -> fatal(u, "duplicate symbol")
              [] OTHER -> Put(u, n, [sym_get(u, n) EXCEPT !.defined = TRUE, !.sec = "equ", !.val = v.v, !.rsym = v.s])
    IN  set(eval(t, s.e), value(t, s.e))

(* .bss is only counted; elsewhere a gap is filled                         *)
gap(t, n) == IF t.sec = "bss" THEN [t EXCEPT !.loc["bss"] = U(@ + n)] ELSE sec_put(t, n)

org(t, v) ==
    IF ~t.emitted /\ t.origin = 0 /\ t.loc["text"] = 0 /\ v >= FLAT_LIMIT
    THEN [t EXCEPT !.origin = v, !.loc["text"] = v]
    ELSE IF v < t.origin THEN fatal(t, "org below the start of the output") ELSE [t EXCEPT !.loc["text"] = v]

PowerOfTwo(v) == \E k \in 0..v : v = 2 ^ k
align(t, v) == IF PowerOfTwo(v) THEN gap(t, (-t.loc[t.sec]) % v) ELSE fatal(t, "align needs a power of two")
space(t, v) == IF v > MAXSPACE THEN fatal(t, "space too large") ELSE gap(t, v)

directive(t, s) ==
    LET places(u, v) == CASE u.err # "" -> u
                          [] u.err = "" /\ s.k = "org"   -> org(u, v)
                          [] u.err = "" /\ s.k = "align" -> align(u, v)
                          [] u.err = "" /\ s.k = "space" -> space(u, v)
    IN  CASE s.k = "equ" -> equ(t, s)
          [] s.k = "globl" -> LET n == full_name(t, s.n) IN Put(t, n, [sym_get(t, n) EXCEPT !.glob = TRUE])
          [] s.k = "sec" -> IF t.objmode THEN [t EXCEPT !.sec = s.s] ELSE fatal(t, "section directives need -c")
          [] s.k = "org" /\ t.objmode -> fatal(t, "org in an object file")
          [] s.k \in {"org", "align", "space"} /\ ~(s.k = "org" /\ t.objmode) ->
                places(eval_abs(t, s.e), value(t, s.e).v)

(* `at' notes where each statement stands in the pass and where it ends    *)
statement(t, s) ==
    LET does(u) == CASE s.k = "label" -> define_label(u, s.n)
                     [] s.k = "field" -> instr(u, s)
                     [] s.k = "call"  -> fatal(u, "unknown instruction")
                     [] OTHER -> directive(u, s)
        top(w) == [w EXCEPT !.flatmax = IF w.loc["text"] > @ THEN w.loc["text"] ELSE @,
                            !.at = Append(@, [sec |-> t.sec, off |-> t.loc[t.sec], end |-> w.loc[t.sec]])]
    IN  IF t.err # "" THEN t ELSE top(does(t))

(***************************************************************************)
(* The passes and what is written                                          *)
(***************************************************************************)
Fresh(objmode) ==
    [objmode |-> objmode, pass |-> 0, err |-> "", lines |-> <<>>, macros |-> <<>>, defmac |-> FALSE, uniq |-> 0,
     sec |-> "text", loc |-> [x \in Sections |-> 0], size |-> [x \in Sections |-> 0], origin |-> 0, emitted |-> FALSE,
     flatmax |-> 0, last |-> NoName, rel |-> {}, out |-> {}, at |-> <<>>,
     sym |-> [n \in {Sec(x) : x \in Sections} |-> [NoSym EXCEPT !.defined = objmode, !.sec = n[2][1]]]]

run_pass(t, ps) ==
    LET o == IF ps = 2 THEN t.origin ELSE 0
        u == [t EXCEPT !.pass = ps, !.sec = "text", !.loc = [x \in Sections |-> IF x = "text" THEN o ELSE 0], !.origin = o,
                       !.emitted = FALSE, !.last = NoName, !.flatmax = o, !.rel = {}, !.out = {}, !.at = <<>>]
        sized(w) == [w EXCEPT !.size = [x \in Sections |-> IF w.loc[x] > @[x] THEN w.loc[x] ELSE @[x]]]
    IN  sized(FoldLeft(statement, u, t.lines))

(* What the object keeps of the symbol table                               *)
Kept(s) == \/ s.defined /\ s.sec # "equ"
           \/ s.defined /\ s.sec = "equ" /\ s.glob /\ s.rsym = Abs
           \/ ~s.defined /\ (s.used \/ s.glob)

write_obj(t) ==
    LET keep == {n \in DOMAIN t.sym : Kept(t.sym[n])}
    IN  [size |-> t.size, rel |-> t.rel, out |-> t.out, at |-> t.at, lines |-> t.lines,
         err  |-> IF \A x \in t.rel : x.sym \in keep THEN t.err ELSE "relocation against dropped symbol",
         sym  |-> [n \in keep |-> LET s == t.sym[n] IN
                     [val |-> IF s.defined THEN s.val ELSE 0, sec |-> IF s.defined THEN s.sec ELSE "-",
                      bind |-> s.glob \/ ~s.defined]]]

(* A flat image: its fields by address, where it begins and where it ends  *)
write_flat(t) == [err |-> t.err, first |-> t.origin, end |-> t.flatmax, at |-> t.at, lines |-> t.lines,
                  fields |-> {[addr |-> x.off, n |-> x.n, v |-> x.v] : x \in t.out}]

(***************************************************************************)
(* The linker                                                              *)
(***************************************************************************)
defines(o, n) == n \in DOMAIN o.sym /\ o.sym[n].bind /\ o.sym[n].sec # "-"
needs(o, n)   == o.sym[n].sec = "-" /\ \E x \in o.rel : x.sym = n
Needed(o)     == {n \in DOMAIN o.sym : needs(o, n)}

(* The linker refuses an object with a relocation outside its section      *)
read_obj_bad(o) == \E r \in o.rel : r.sec = "bss" \/ r.off + (IF r.type = "ABS16" THEN 2 ELSE 4) > o.size[r.sec]

lib_clashes(os) ==
    \E i, k \in DOMAIN os : /\ i < k /\ (os[i].lib \/ os[k].lib)
                            /\ \E n \in DOMAIN os[i].sym : defines(os[i], n) /\ defines(os[k], n)

(* The library objects that the needs of one kept object bring in          *)
Brings(os, keep, i) ==
    {k \in DOMAIN os : \E n \in Needed(os[i]) :
        /\ ~\E j \in keep : defines(os[j], n)
        /\ defines(os[k], n) /\ ~\E j \in DOMAIN os : j < k /\ j \notin keep /\ defines(os[j], n)}

OneRound(os, keep) ==
    FoldLeft(LAMBDA kp, i : IF i \in kp THEN kp \cup Brings(os, kp, i) ELSE kp, keep, [i \in 1..Len(os) |-> i])

(* While a round brings something in, another follows                      *)
select_lib(os) ==
    LET keep == FoldLeft(LAMBDA kp, i : OneRound(os, kp), {i \in DOMAIN os : ~os[i].lib}, [i \in 1..Len(os) |-> i])
    IN  SelectSeq([i \in DOMAIN os |-> [os[i] EXCEPT !.lib = i \notin keep]], LAMBDA o : ~o.lib)

Align(v, a) == U(v + ((-v) % a))

(* The bases of the objects' parts of a section that begins at pos, and    *)
(* where the section ends                                                  *)
place(os, x, pos) ==
    FoldLeft(LAMBDA l, o : [base |-> Append(l.base, Align(l.pos, 4)), pos |-> U(Align(l.pos, 4) + o.size[x])],
             [base |-> <<>>, pos |-> pos], os)

layout(os, text_addr) ==
    LET t == place(os, "text", text_addr)
        d == place(os, "data", Align(t.pos, PAGE))
        b == place(os, "bss", Align(d.pos, 4))
    IN  [base |-> [text |-> t.base, data |-> d.base, bss |-> b.base], text_addr |-> text_addr,
         text_size |-> U(t.pos - text_addr), data_addr |-> Align(t.pos, PAGE), data_size |-> U(d.pos - Align(t.pos, PAGE)),
         bss_addr |-> Align(d.pos, 4), bss_size |-> U(b.pos - Align(d.pos, 4))]

Special(L) == [_etext |-> U(L.text_addr + L.text_size), _edata |-> U(L.data_addr + L.data_size),
               _end |-> U(L.bss_addr + L.bss_size)]
Name(x)  == <<NoName, <<x, 0>>>>
Specials == {"_etext", "_edata", "_end"}

(* Where an object's own symbol is                                         *)
addr(os, L, i, n) ==
    LET s == os[i].sym[n] IN IF s.sec \in Sections THEN U(L.base[s.sec][i] + s.val) ELSE s.val

(* The global symbols: no name twice, and none of the linker's             *)
Globals(os) == {<<i, n>> \in UNION {{i} \X DOMAIN os[i].sym : i \in DOMAIN os} : defines(os[i], n)}
duplicate(os) == \E a, b \in Globals(os) : a # b /\ a[2] = b[2]
taken(os)     == \E g \in Globals(os), x \in Specials : g[2] = Name(x)
Known(os)     == {g[2] : g \in Globals(os)} \cup {Name(x) : x \in Specials}

gsym(os, L, n) ==
    IF \E x \in Specials : n = Name(x) THEN Special(L)[n[2][1]]
    ELSE LET g == CHOOSE g \in Globals(os) : g[2] = n IN addr(os, L, g[1], n)

resolve(os, L, i, n) == IF os[i].sym[n].sec = "-" THEN gsym(os, L, n) ELSE addr(os, L, i, n)

(* Slip: a distance is counted from the field itself                       *)
fromField(v, faddr, r) == CASE r.type = "REL32" -> U(v - faddr) [] r.type = "ABS16" -> v % (BYTE ^ 2) [] OTHER -> v

patch(v, faddr, r) ==
    CASE r.type = "ABS32" -> v
      [] r.type = "REL32" -> U(v - (faddr + 4))
      [] r.type = "ABS16" -> v % (BYTE ^ 2)

overflows(v) == v > BYTE ^ 2 - 1 /\ v < (BYTE ^ 4) - ((BYTE ^ 2) \div 2)

(* The value of a field in the image: what the object holds, or what its   *)
(* relocation puts there                                                   *)
image(os, L) ==
    {LET o == os[p[1]]
         f == p[2]
         faddr == U(L.base[f.sec][p[1]] + f.off)
         rs == {r \in o.rel : r.sec = f.sec /\ r.off = f.off}
     IN  [addr |-> faddr, n |-> f.n,
          v |-> IF rs = {} THEN f.v
                ELSE LET r == CHOOSE r \in rs : TRUE
                     IN  patch(U(resolve(os, L, p[1], r.sym) + r.add), faddr, r)] :
        p \in UNION {{i} \X os[i].out : i \in DOMAIN os}}

Overflow(os, L) ==
    \E i \in DOMAIN os : \E r \in os[i].rel : r.type = "ABS16" /\ overflows(U(resolve(os, L, i, r.sym) + r.add))

tlink(all) ==
    LET os == select_lib(all)
        L  == layout(os, how.text_addr)
        start == \E g \in Globals(os) : g[2] = how.entry
        Fails(why) == [err |-> why]
    IN  IF \E i \in DOMAIN all : read_obj_bad(all[i]) THEN Fails("bad relocation")
        ELSE IF lib_clashes(all) THEN Fails("defined in a library too")
        ELSE IF taken(os) THEN Fails("linker symbol defined by an object")
        ELSE IF duplicate(os) THEN Fails("duplicate symbol")
        ELSE IF \E i \in DOMAIN os : Needed(os[i]) \ Known(os) # {} THEN Fails("undefined symbol")
        ELSE IF Overflow(os, L) THEN Fails("overflow")
        ELSE IF ~start /\ how.explicit THEN Fails("entry symbol not found")
        ELSE [err |-> "", os |-> os, L |-> L, fields |-> image(os, L),
              entry |-> IF start THEN gsym(os, L, how.entry) ELSE how.text_addr]

(* With -b the image is written without a header: text, gap and data *)
total(L) == IF L.data_size = 0 THEN L.text_size ELSE U(L.data_addr + L.data_size - L.text_addr)

(***************************************************************************)
(* The loaders                                                             *)
(***************************************************************************)
fits(a, n) == a + n <= RamSize

load_tex(h) ==
    LET ba == Align(h.data_addr + h.data_size, 4)
    IN  IF ~fits(h.text_addr, h.text_size) \/ ~fits(h.data_addr, h.data_size) \/ ~fits(ba, h.bss_size)
        THEN [err |-> "does not fit"]
        ELSE [err |-> "", file |-> <<[first |-> h.text_addr, n |-> h.text_size], [first |-> h.data_addr, n |-> h.data_size]>>,
              zero |-> [first |-> ba, n |-> h.bss_size]]

Least(a, b) == IF a <= b THEN a ELSE b

(* Bytes without a header go to the beginning of the memory; the rest of   *)
(* the memory is not zero                                                  *)
load_raw(n) == [err |-> "", file |-> <<[first |-> 0, n |-> Least(n, RamSize)]>>]
rom_load(n) == IF n = 0 THEN [err |-> "empty"] ELSE [err |-> "", file |-> <<[first |-> ROM_BASE, n |-> Least(n, ROM_SIZE)]>>]

(***************************************************************************)
(* The steps                                                               *)
(***************************************************************************)
Next_ == Len(objs) + 1
Failed == \E i \in DOMAIN objs : objs[i].err # ""

AsmRead ==
    /\ as = Idle /\ Next_ \in DOMAIN files /\ ~Failed /\ out = None
    /\ as' = read_file(Fresh(how.objmode), files[Next_].lines, how.inc)
    /\ UNCHANGED <<files, how, objs, out, mem>>

AsmPass ==
    /\ as # Idle /\ as.err = "" /\ as.pass < 2
    /\ as' = run_pass(as, as.pass + 1)
    /\ UNCHANGED <<files, how, objs, out, mem>>

(* An error ends the assembler with nothing written                        *)
AsmWrite ==
    /\ as # Idle /\ (as.err # "" \/ as.pass = 2)
    /\ IF as.err # ""
       THEN objs' = Append(objs, [err |-> as.err])
       ELSE objs' = Append(objs, IF how.objmode
                                 THEN write_obj(as) @@ [lib |-> files[Next_].lib]
                                 ELSE write_flat(as))
    /\ as' = Idle
    /\ UNCHANGED <<files, how, out, mem>>

Tlink ==
    /\ as = Idle /\ how.objmode /\ Len(objs) = Len(files) /\ ~Failed /\ out = None
    /\ out' = tlink(objs)
    /\ UNCHANGED <<files, how, as, objs, mem>>

(* How long the file is that has no header *)
Plain == IF how.objmode THEN total(out.L) ELSE objs[1].end - objs[1].first
Ready == IF how.objmode THEN out.err = "" ELSE Len(objs) = Len(files) /\ ~Failed

LoadImage ==
    /\ as = Idle /\ Ready /\ mem = None
    /\ mem' = IF how.objmode /\ ~how.flat THEN load_tex(out.L) ELSE IF how.rom THEN rom_load(Plain) ELSE load_raw(Plain)
    /\ UNCHANGED <<files, how, as, objs, out>>

ToolsDone ==
    /\ as = Idle /\ (Failed \/ out.err \notin {"", "none"} \/ mem # None)
    /\ UNCHANGED tvars

ToolsNext == AsmRead \/ AsmPass \/ AsmWrite \/ Tlink \/ LoadImage \/ ToolsDone

------------------------------------------------------------------------------
(***************************************************************************)
(* Programs for the assembler, the linker and the loader: every sequence   *)
(* of a few statements from a small set in a first file, with each of a    *)
(* few second files and libraries; and flat images.                        *)
(***************************************************************************)

CONSTANTS Programs      \* which of the families below are assembled

N(x)        == <<x, 0>>
Num(v)      == [k |-> "num", add |-> v]
Sym(x, a)   == [k |-> "sym", n |-> N(x), add |-> a]
Dot(a)      == [k |-> "dot", add |-> a]
Sub(x, y)   == [k |-> "sub", n |-> N(x), m |-> N(y)]
Label(x)    == [k |-> "label", n |-> N(x)]
Globl(x)    == [k |-> "globl", n |-> N(x), e |-> Num(0)]
Equ(x, e)   == [k |-> "equ", n |-> N(x), e |-> e]
Section(x)  == [k |-> "sec", s |-> x, e |-> Num(0)]
Space(e)    == [k |-> "space", e |-> e]
AlignTo(v)  == [k |-> "align", e |-> Num(v)]
Org(v)      == [k |-> "org", e |-> Num(v)]
Branch(e)   == [k |-> "field", f |-> "rel32", pre |-> 2, e |-> e]
Word32(e)   == [k |-> "field", f |-> "abs32", pre |-> 0, e |-> e]
Jump16(e)   == [k |-> "field", f |-> "abs16", pre |-> 1, e |-> e]
Macro(x)    == [k |-> "macro", n |-> N(x)]
Endm        == [k |-> "endm"]
Call(x, y)  == [k |-> "call", n |-> N(x), a |-> N(y)]
Include     == [k |-> "include"]

Mode(obj, at) == [objmode |-> obj, inc |-> <<>>, text_addr |-> at, entry |-> Name("_start"), explicit |-> FALSE, flat |-> FALSE,
                  rom |-> FALSE]
File(ls)      == [lines |-> ls, lib |-> FALSE]
Lib(ls)       == [lines |-> ls, lib |-> TRUE]

(* References forwards and backwards, across sections and files, through   *)
(* .equ and local labels                                                   *)
Statements ==
    {Label("b"), Label(".l"), Globl("b"), Equ("x", Sym("b", 1)), Equ("x", Sym("f", 0)), Section("data"), Section("bss"),
     Space(Num(3)), Space(Sub("b", "a")), AlignTo(4), Branch(Sym("b", 0)), Branch(Sym("f", 0)), Branch(Sym(".l", 0)),
     Word32(Sym("x", 2)), Word32(Sym("_end", 0)), Jump16(Sym("b", 0)), Word32(Sub("b", "a")), Word32(Dot(1))}

Starts == {<<Globl("a"), Label("a"), Branch(Sym("f", 0))>>,
           <<Label("a"), Word32(Sym("b", 0)), Label("c"), Branch(Sym(".l", 0))>>}

Seconds == {<<File(<<Globl("f"), Label("f"), Branch(Sym("a", 0))>>)>>,
            <<File(<<Globl("f"), Section("data"), Space(Num(1)), Label("f"), Word32(Sym("f", 1)), Section("bss"), Space(Num(5)), Label("e")>>)>>,
            <<Lib(<<Globl("f"), Equ("f", Num(9))>>), Lib(<<Globl("b"), Label("b"), Branch(Sym("b", 0))>>)>>}

(* A library whose parts need each other, in an order that takes the       *)
(* linker several rounds                                                   *)
Libraries ==
    {<<File(<<Globl("_start"), Space(Num(1)), Label("_start"), Branch(Sym(x, 0))>>),
       Lib(<<Globl("g"), Label("g"), Branch(Sym(y, 0)), Globl(z)>>),
       Lib(<<Globl("f"), Label("f"), Branch(Sym("g", 0)), Section("data"), Word32(Sym("f", 0))>>),
       Lib(<<Globl("h"), Section(s), Label("h"), Space(Num(2))>>)>> :
        x \in {"f", "g", "h"}, y \in {"f", "h", "k"}, z \in {"h", "g"}, s \in {"text", "bss"}}

Clashing ==
    {<<File(<<Globl("a"), Label("a")>>), f>> :
        f \in {File(<<Globl("a"), Label("a")>>), Lib(<<Globl("a"), Label("a")>>), File(<<Globl("_end"), Label("_end")>>)}}

(* Macros: labels made with \@, a macro that calls another, one that calls *)
(* itself, and an include                                                  *)
Loop == <<Macro("m"), [k |-> "label", n |-> N("uniq")], Branch(Sym("uniq", 0)), Branch(Sym("arg", 0)), Endm>>
Twice == <<Macro("w"), Call("m", "arg"), Call("m", "arg"), Endm>>
Macros ==
    {Loop \o Twice \o body : body \in
        [1..3 -> {Call("m", "b"), Call("w", "b"), Label("b"), Include, Call("v", "b"), Macro("v"), Endm, Call("m", ".l"), Label(".l")}]}

FlatStatements == {Label("b"), Branch(Sym("b", 0)), Branch(Sym("a", 0)), Word32(Sym("a", 0)), Space(Num(3)), Org(8), Org(40),
                   Equ("x", Sym("b", 1)), Jump16(Sym("x", 0)), AlignTo(8), Section("data"), Space(Sub("b", "a"))}

Family(f) ==
    CASE f = "objects"  -> {<<<<File(s \o ls)>> \o more, Mode(TRUE, 8)>> :
                               s \in Starts, ls \in [1..3 -> Statements], more \in Seconds}
      [] f = "far"      -> {<<<<File(<<Label("b")>> \o ls)>>, Mode(TRUE, at)>> :
                               ls \in [1..2 -> {Jump16(Sym("b", 0)), Jump16(Sym("b", 9)), Space(Num(3)), Jump16(Sym("b", -8))}],
                               at \in {4, 56, 60, 64, 4000}}
      [] f = "library"  -> {<<fs, [Mode(TRUE, 8) EXCEPT !.entry = Name(e), !.explicit = (e = "_main")]>> :
                               fs \in Libraries, e \in {"_start", "_main"}}
      [] f = "clash"    -> {<<fs, Mode(TRUE, 8)>> : fs \in Clashing}
      [] f = "macros"   -> {<<<<File(ls)>>, [Mode(TRUE, 8) EXCEPT !.inc = i]>> :
                               ls \in Macros, i \in {<<Label("b")>>, <<Call("w", "b")>>, <<Include>>}}
      [] f = "raw"      -> {<<<<File(<<Label("a")>> \o ls)>>, [Mode(TRUE, at) EXCEPT !.flat = TRUE, !.rom = (at = ROM_BASE)]>> :
                               ls \in [1..3 -> {Branch(Sym("a", 0)), Section("data"), Section("bss"), Space(Num(3)), Label("b")}],
                               at \in {0, 8, ROM_BASE}}
      [] f = "flat"     -> {<<<<File(<<o, Label("a")>> \o ls)>>, [Mode(FALSE, 0) EXCEPT !.rom = (o = Org(ROM_BASE))]>> :
                               o \in {Org(0), Org(8), Org(ROM_BASE)}, ls \in [1..3 -> FlatStatements]}

MCToolsInit ==
    /\ \E f \in Programs : \E p \in Family(f) : files = p[1] /\ how = p[2]
    /\ as = Idle /\ objs = <<>> /\ out = None /\ mem = None

(***************************************************************************)
(* What the pieces mean, said without passes or relocations: where each    *)
(* label of a finished program is                                          *)
(***************************************************************************)
LastLabel(ls, i) ==
    LET s == {j \in 1..i : ls[j].k = "label" /\ ls[j].n[1] \notin Locals}
    IN  IF s = {} THEN NoName ELSE ls[CHOOSE j \in s : \A k \in s : k <= j].n
Full(ls, i, n) == IF n[1] \in Locals THEN <<LastLabel(ls, i), n>> ELSE <<NoName, n>>

LabelAt(ls, n) == {i \in DOMAIN ls : ls[i].k = "label" /\ Full(ls, i, ls[i].n) = n}
EquAt(ls, n)   == {i \in DOMAIN ls : ls[i].k = "equ" /\ Full(ls, i, ls[i].n) = n}
Exports(ls, n) == \E i \in DOMAIN ls : ls[i].k = "globl" /\ Full(ls, i, ls[i].n) = n
Made(ls, n)    == LabelAt(ls, n) \cup EquAt(ls, n) # {}

Base(i, x) == IF how.objmode THEN out.L.base[x][i] ELSE 0
Parts      == IF how.objmode THEN out.os ELSE objs
Where(i, k) == U(Base(i, Parts[i].at[k].sec) + Parts[i].at[k].off)

RECURSIVE Address(_, _), Means(_, _, _)
Address(i, n) ==
    LET ls == Parts[i].lines
    IN  CASE LabelAt(ls, n) # {} -> Where(i, CHOOSE k \in LabelAt(ls, n) : TRUE)
          [] EquAt(ls, n) # {} -> LET k == CHOOSE k \in EquAt(ls, n) : TRUE IN Means(i, k, ls[k].e)
          [] ~Made(ls, n) /\ n[2][1] \in Specials -> Special(out.L)[n[2][1]]
          [] OTHER -> Address(CHOOSE j \in DOMAIN Parts : Made(Parts[j].lines, n) /\ Exports(Parts[j].lines, n), n)
Means(i, k, e) ==
    LET ls == Parts[i].lines
    IN  CASE e.k = "num" -> U(e.add)
          [] e.k = "sym" -> U(Address(i, Full(ls, k, e.n)) + e.add)
          [] e.k = "dot" -> U(Where(i, k) + e.add)
          [] e.k = "sub" -> U(Address(i, Full(ls, k, e.n)) - Address(i, Full(ls, k, e.m)))

Finished == \/ how.objmode /\ out.err = ""
            \/ ~how.objmode /\ Len(objs) = 1 /\ ~Failed
Fields   == IF how.objmode THEN out.fields ELSE objs[1].fields

(***************************************************************************)
(* Properties                                                              *)
(***************************************************************************)
(* The assembler, the objects, the image and the memory are of their types *)
(* and one stage ends before the next begins.                              *)
ToolsTypeOK ==
    /\ as # Idle => /\ as.pass \in 0..2 /\ as.sec \in Sections /\ \A x \in Sections : as.loc[x] \in 0..(BYTE ^ 4 - 1)
                    /\ \A r \in as.rel : r.sec \in Sections /\ r.sym \in DOMAIN as.sym
    /\ Len(objs) <= Len(files)
    /\ out # None => as = Idle /\ Len(objs) = Len(files)
    /\ mem # None => Ready

(* The value a name has at a line is the one it means: labels are known    *)
(* before the second pass; an .equ has the value of this pass behind it    *)
(* and the one of the first pass before it, when the names that follow it  *)
(* were still zero (sym_val, directive)                                    *)
RECURSIVE First(_, _), Second(_, _)
First(ls, j) ==
    \A x \in Names(ls[j].e) :
        LET n == Full(ls, j, x) IN \E i \in LabelAt(ls, n) \cup EquAt(ls, n) : i < j /\ (ls[i].k = "equ" => First(ls, i))
Second(ls, k) ==
    \A x \in Names(ls[k].e) : \A j \in EquAt(ls, Full(ls, k, x)) : IF j < k THEN Second(ls, j) ELSE First(ls, j)

(* The bytes of a field that a later line wrote over, after .org went back *)
WrittenOver(i, k) ==
    LET at == Parts[i].at
        f  == [first |-> at[k].off + Parts[i].lines[k].pre, end |-> at[k].end]
    IN  \E m \in DOMAIN at : /\ m > k /\ ~how.objmode /\ Parts[i].lines[m].k \in {"field", "space", "align"}
                             /\ at[m].off < f.end /\ f.first < at[m].end

(* Every field of a finished program holds what its expression means: the  *)
(* address of the label, in whatever section or file it stands, or the     *)
(* distance to it from the next instruction (sym_val, e_add, rel32 and the *)
(* relocations of tlink).  Excepted are fields in front of an .equ that    *)
(* itself names something behind it or in another file, which hold what    *)
(* the first pass made of it (assembler.c:556, 1211: no error is given),   *)
(* and fields that the program wrote over.                                 *)
RefsReach ==
    Finished => \A i \in DOMAIN Parts : \A k \in DOMAIN Parts[i].lines :
        LET s == Parts[i].lines[k]
            a == U(Where(i, k) + s.pre)
        IN  s.k = "field" /\ Second(Parts[i].lines, k) /\ ~WrittenOver(i, k) => \E f \in Fields :
                /\ f.addr = a
                /\ CASE s.f = "abs32" -> f.n = 4 /\ f.v = Means(i, k, s.e)
                     [] s.f = "rel32" -> f.n = 4 /\ U(a + 4 + f.v) = Means(i, k, s.e)
                     [] s.f = "abs16" -> f.n = 2 /\ f.v = Means(i, k, s.e) % (BYTE ^ 2)

(* No two fields of a finished program share a byte, and each lies in what *)
(* is written of it: the parts of a section do not overlap and the passes  *)
(* agree on how long each is (run_pass, the layout in tlink).              *)
BytesApart ==
    Finished =>
        /\ \A f, g \in Fields : f # g => f.addr + f.n <= g.addr \/ g.addr + g.n <= f.addr
        /\ \A f \in Fields :
              IF how.objmode
              THEN \/ f.addr >= out.L.text_addr /\ f.addr + f.n <= out.L.text_addr + out.L.text_size
                   \/ f.addr >= out.L.data_addr /\ f.addr + f.n <= out.L.data_addr + out.L.data_size
              ELSE f.addr >= objs[1].first /\ f.addr + f.n <= objs[1].end

(* What the assembler writes the linker can read: no object of its is      *)
(* refused for a relocation outside its section (the sizes write_obj gives *)
(* and the bound read_obj checks are of two programs).                     *)
ObjectsAccepted == out.err # "bad relocation"

(* The loader puts each part where the linker counted on it: every label   *)
(* of .bss is in the memory that is cleared, every other in what is read   *)
(* from the file, and .bss begins after the data (load_tex works out the   *)
(* start of .bss, which is not in the file, again).  A file without a      *)
(* header is right when it was made for the place where it is put, and     *)
(* fits: all its fields are then where they say.  Its .bss is not cleared. *)
LabelsLoaded ==
    /\ mem.err = "" /\ Len(mem.file) = 2 => \A i \in DOMAIN Parts : \A k \in DOMAIN Parts[i].lines :
          Parts[i].lines[k].k = "label" =>
            LET x == Parts[i].at[k].sec
                r == CASE x = "text" -> mem.file[1] [] x = "data" -> mem.file[2] [] x = "bss" -> mem.zero
            IN  r.first <= Where(i, k) /\ Where(i, k) <= r.first + r.n
    /\ mem.err = "" /\ Len(mem.file) = 1 =>
          LET m == mem.file[1]
          IN  m.first = (IF how.objmode THEN how.text_addr ELSE objs[1].first) /\ m.n = Plain =>
                 \A f \in Fields : m.first <= f.addr /\ f.addr + f.n <= m.first + m.n

Needing(i, j) == \E n \in Needed(objs[i]) : defines(objs[j], n)
RECURSIVE Closure(_)
Closure(s) == LET u == s \cup {j \in DOMAIN objs : \E i \in s : Needing(i, j)} IN IF u = s THEN s ELSE Closure(u)

(* A program whose names are all given, each once, links; and of a library *)
(* the linker takes what is needed and nothing else: the objects of a      *)
(* finished program are the given ones and those they need, however the    *)
(* library is ordered (lib_clashes, select_lib).                           *)
TakesWhatIsNeeded ==
    /\ out.err = "" => {o.lines : o \in Range(out.os)} = {objs[i].lines : i \in Closure({i \in DOMAIN objs : ~objs[i].lib})}
    /\ out.err = "undefined symbol" =>
          \E i \in Closure({i \in DOMAIN objs : ~objs[i].lib}) : \E n \in Needed(objs[i]) :
              n[2][1] \notin Specials /\ \A j \in DOMAIN objs : ~defines(objs[j], n)

(* Labels that a macro makes with \@ never meet: no two statements define  *)
(* the same one, however macros call each other and files include them     *)
(* (expand_macro counts its expansions).                                   *)
ExpansionsApart ==
    as # Idle => \A i, j \in DOMAIN as.lines :
        i # j /\ as.lines[i].k = "label" /\ as.lines[j].k = "label" /\ as.lines[i].n[1] = "uniq" => as.lines[i].n # as.lines[j].n

(* The program in memory is the one that was written: the library members  *)
(* it needs are in it, every byte has its own place, labels are where they *)
(* were loaded, and every reference reaches its label (assembler.c,        *)
(* the loader).                                                            *)
LinksSound ==
    /\ ToolsTypeOK /\ TakesWhatIsNeeded /\ ExpansionsApart /\ ObjectsAccepted
    /\ BytesApart /\ LabelsLoaded /\ RefsReach
==============================================================================
