---------------------------- MODULE BF2Backends ----------------------------
(***************************************************************************)
(* The backends of bf2any whose gen_code is that of BF2Gen: one record     *)
(* each, named after the file.  What a record does not say is as in        *)
(* Backend and CText.                                                      *)
(***************************************************************************)
EXTENDS BF2Gen

Tests   == {"B", "[", "]", "I"}
Typed(t) == <<"word", t>>
Bignum   == <<"big", "big">>

(***************************************************************************)
(* Languages with integers wider than a byte: the cell is cut where it     *)
(* matters.                                                                *)
(***************************************************************************)
bf2php ==
  [Backend EXCEPT !.moves = TRUE, !.masks = Tests,
                  !.text.wide = Escaping({"quote", "slash", "dollar", "nl", "tab"}, {"esc", "ctl"})]

bf2perl ==
  [Backend EXCEPT !.moves = TRUE, !.masks = Tests,
                  !.text.wide = Escaping({"quote", "slash", "at", "dollar", "nl", "tab"},
                                         {"esc", "ctl"})]

bf2neko == [Backend EXCEPT !.masks = Tests]

\* B has no way to tell the end of the input from a character.
bf2b ==
  [Backend EXCEPT !.masks = Tests, !.eof = "minus",
                  !.text = [CText EXCEPT !.wide = Escaping({"quote", "apos", "star", "nl", "tab"}, {}),
                                         !.alone = {"esc", "ctl"}, !.newline = "plain"]]

\* csh's remainder keeps the sign: ((x % 256) + 256) % 256.  At the end of the
\* input the line is empty, which is what echo and awk make a newline of.
bf2csh ==
  [Backend EXCEPT !.masks = Tests, !.lines = TRUE, !.eof = "newline",
                  !.text = [CText EXCEPT !.wide = Escaping({}, {"apos", "bang"}), !.alone = Controls,
                                         !.first = {"dash"}, !.newline = "by number"]]

\* MOD keeps the sign: cells are cut to something between -255 and 255.
bf2f95 ==
  [Backend EXCEPT !.masks = Tests, !.cut = "mask", !.lines = TRUE,
                  !.text = [CText EXCEPT !.wide = Escaping({"apos"}, {}),
                                         !.alone = Controls \cup {"slash"},
                                         !.newline = "by number"]]

\* The cell is in a variable, and goes to the tape, cut, as the pointer moves.
bf2tsql ==
  [Backend EXCEPT !.masks = Tests \cup {".", "<", ">"}, !.types = Bignum, !.var = Bignum,
                  !.input = "halt", !.text = NoText]

Ps1Text == [CText EXCEPT !.wide = Escaping({"quote", "backq", "nl", "tab"}, {}),
                         !.alone = {"esc", "ctl"}]

bf2ps1 ==
  [Backend EXCEPT !.masks = {"<", ">", "[", "]", "I"}, !.always = TRUE, !.types = Bignum,
                  !.var = <<"uword", "byte">>, !.shows = "cell", !.lines = TRUE, !.eof = "last",
                  !.text = Ps1Text]

bf2nickle ==
  [Backend EXCEPT !.masks = Tests, !.types = Bignum, !.var = Bignum, !.rem = "floor",
                  !.text = [CText EXCEPT !.wide = Escaping({"quote"}, {}),
                                         !.alone = Controls \cup {"slash"},
                                         !.newline = "by number", !.percent = TRUE]]

\* A literal is a format if there is no % in it.
FormatText == [CText EXCEPT !.percent = TRUE]

\* awk's remainder keeps the sign; a cell is made positive to be printed.
bf2awk ==
  [Backend EXCEPT !.moves = TRUE, !.masks = Tests \cup {"."}, !.cut = "mask", !.shows = "cell",
                  !.lines = TRUE, !.text = FormatText]

\* To print a value is to call a function, whose result goes to v.
bf2bc ==
  [Backend EXCEPT !.moves = TRUE, !.masks = Tests, !.types = Bignum, !.var = Bignum,
                  !.spoils = {".", "quote"}, !.input = "halt",
                  !.text = [CText EXCEPT !.wide = Escaping({}, {}), !.newline = "plain",
                                         !.alone = (Controls \ {"nl"}) \cup {"quote"}]]

bf2tcl ==
  [Backend EXCEPT !.masks = Tests \cup {"."}, !.types = Bignum, !.var = Bignum, !.rem = "floor",
                  !.shows = "cell",
                  !.text.wide = Escaping({"quote", "slash", "bracket", "brace", "dollar", "nl", "tab"},
                                         {"esc", "ctl"})]

bf2rb ==
  [Backend EXCEPT !.moves = TRUE, !.masks = Tests, !.types = Bignum, !.var = Bignum, !.rem = "floor",
                  !.text.wide = Escaping({"quote", "slash", "hash", "nl", "tab"}, {"esc", "ctl"})]

\* mpz_addmul_ui and its kin take no negative factor.
bf2cgmp ==
  [Backend EXCEPT !.masks = Tests, !.types = Bignum, !.var = Bignum, !.signed = FALSE,
                  !.text = FormatText]

\* Python has integers without a limit, and its blocks need a body.
PythonText == [CText EXCEPT !.wide = Escaping({"apos", "slash", "nl", "tab"}, {"esc", "ctl"})]

bf2py ==
  [Backend EXCEPT !.moves = TRUE, !.masks = Tests, !.types = Bignum, !.var = Bignum, !.rem = "floor",
                  !.sized = {"."}, !.body = TRUE, !.text = PythonText]

\* libbn and libtommath, as libgmp.
bf2bn == bf2cgmp

\* W sets count to -1, and what follows negates again; the long form of + and
\* - adds the count itself, not the number made of it.
bf2tomm ==
  [bf2cgmp EXCEPT !.slips = {<<"W", "twice">>, <<"+", "long">>, <<"-", "long">>}]

DcText == [CText EXCEPT !.wide = Escaping({}, {}), !.newline = "plain",
                        !.alone = {"esc", "ctl", "slash", "bracket"}]

\* dc: the cell is cut on the stack, as it is tested or copied.
bf2dc ==
  [Backend EXCEPT !.tests = TRUE, !.types = Bignum, !.var = <<"big", "byte">>, !.input = "halt",
                  !.text = DcText]

BasicText == [CText EXCEPT !.wide = Escaping({}, {}), !.cut = 1,
                           !.alone = {"quote", "tab", "esc", "ctl"}]

\* The Basics: -ansi has DO ... LOOP, -goto line numbers.
bf2bas ==
  [Backend EXCEPT !.masks = Tests \ {"I"}, !.cut = "mask", !.types = Bignum, !.var = Bignum,
                  !.lines = TRUE, !.eof = "fails", !.text = BasicText]

bf2bas_goto == [bf2bas EXCEPT !.loops = "label"]

\* Whitespace: a loop goes back to in front of its test.
bf2whitespace ==
  [Backend EXCEPT !.masks = {"B", "[", "I"}, !.loops = "top", !.types = Bignum, !.var = Bignum,
                  !.rem = "floor", !.eof = "fails", !.text = NoText]

(***************************************************************************)
(* Shells: the cell is cut as the condition of a loop is evaluated.        *)
(***************************************************************************)
ShellText == [CText EXCEPT !.wide = Escaping({}, {"apos"}), !.alone = Controls,
                           !.first = {"dash"}, !.newline = "by number"]

bf2sh ==
  [Backend EXCEPT !.masks = {"B"}, !.tests = TRUE, !.body = TRUE, !.lines = TRUE,
                  !.text = ShellText]

bf2ksh88 ==
  [Backend EXCEPT !.masks = {"B"}, !.tests = TRUE, !.body = TRUE, !.lines = TRUE,
                  !.text = [ShellText EXCEPT !.wide = Escaping({"slash"}, {"apos", "esc"}),
                                             !.alone = {"nl", "tab", "ctl"}, !.first = {}]]

\* Movements at the start, here made one by one, are the value P starts with.
bf2ksh ==
  [Backend EXCEPT !.masks = {"B"}, !.tests = TRUE, !.body = TRUE, !.types = <<"uword", "uword">>,
                  !.var = <<"uword", "uword">>, !.lines = TRUE, !.text = ShellText]

\* Loops are made of labels.  There is no input; of what is printed seven
\* bits are, and in a string, too.
bf2cmd ==
  [Backend EXCEPT !.masks = {"B", "[", "]", "I"}, !.loops = "label", !.input = "halt",
                  !.shows = "seven", !.text = NoText]

(***************************************************************************)
(* Languages with a type for a byte, and C#, whose conditions cast.        *)
(***************************************************************************)
bf2go ==
  [Backend EXCEPT !.types = Typed("byte"), !.var = Typed("byte"), !.shows = "cell",
                  !.text.wide = Escaping({"quote", "slash", "nl"}, {"tab", "esc", "ctl"})]

bf2cs ==
  [Backend EXCEPT !.tests = TRUE,
                  !.text = [CText EXCEPT !.wide = Escaping({"quote", "slash", "nl", "tab"}, {}),
                                         !.alone = {"esc", "ctl"}, !.newline = "ends"]]

\* v is read into by ',' too.
bf2d ==
  [Backend EXCEPT !.types = <<"int", "byte">>, !.var = <<"int", "int">>, !.spoils = {","},
                  !.shows = "cell", !.be.ints = TRUE]

bf2slang ==
  [Backend EXCEPT !.types = <<"uword", "byte">>, !.var = <<"uword", "byte">>, !.shows = "cell",
                  !.text.percent = TRUE]

bf2vala ==
  [Backend EXCEPT !.types = <<"int", "byte">>, !.var = <<"int", "byte">>, !.be.ints = TRUE,
                  !.text = [CText EXCEPT !.wide = Escaping({"quote"}, {}),
                                         !.alone = Controls \cup {"slash"},
                                         !.newline = "by number"]]

bf2perl6 ==
  [Backend EXCEPT !.moves = TRUE, !.types = <<"uword", "byte">>, !.var = <<"uword", "byte">>,
                  !.shows = "cell",
                  !.text.wide = [Escaping({"quote", "slash", "at", "dollar", "brace", "nl", "tab"}, {})
                                   EXCEPT !["esc"] = 6, !["ctl"] = 6]]

bf2swift ==
  [Backend EXCEPT !.types = Typed("sbyte"), !.var = Typed("sbyte"),
                  !.text.wide = [Escaping({"quote", "slash", "nl", "tab"}, {})
                                   EXCEPT !["esc"] = 6, !["ctl"] = 6]]

bf2ada ==
  [Backend EXCEPT !.body = TRUE, !.types = <<"uword", "byte">>, !.var = <<"uword", "byte">>,
                  !.lines = TRUE,
                  !.text = [CText EXCEPT !.wide = Escaping({"quote"}, {}), !.newline = "held",
                                         !.alone = {"tab", "esc", "ctl"}]]

bf2crun ==
  [Backend EXCEPT !.moves = TRUE, !.types = <<"uword", "byte">>, !.var = <<"uword", "word">>,
                  !.text = FormatText]

\* buf is smaller here, and the indentation, at first 7, is kept back of it.
CobolText == [CText EXCEPT !.wide = Escaping({"quote"}, {}), !.size = 60, !.slack = 7,
                           !.alone = Controls \cup {"slash"}, !.newline = "by number"]

\* The end of the input cannot be told from an empty line.
bf2cobol ==
  [Backend EXCEPT !.types = <<"uword", "byte">>, !.var = <<"uword", "byte">>, !.shows = "cell",
                  !.lines = TRUE, !.eof = "newline", !.text = CobolText]

(***************************************************************************)
(* Backends that arrange the whole program at its end.                     *)
(***************************************************************************)
bf2pas ==
  [Backend EXCEPT !.plan = "pascal", !.types = <<"uword", "byte">>, !.var = <<"uword", "uword">>,
                  !.stop = "",
                  !.text = [CText EXCEPT !.wide = Escaping({"apos"}, {}),
                                         !.alone = Controls \cup {"slash"},
                                         !.newline = "by number"]]

\* A mod never leaves a sign, but the % in front of a print does if the cell
\* is so far below 0 that the width does not lift it.
bf2julia ==
  [Backend EXCEPT !.plan = "julia", !.own = TRUE, !.masks = Tests \cup {"."}, !.dot = "lift",
                  !.rem = "floor", !.shows = "char", !.be.ints = TRUE,
                  !.text.wide = Escaping({"quote", "slash", "dollar", "nl", "tab"}, {"esc", "ctl"})]

\* A character's code is written without leading zeros.
LuaText ==
  [CText EXCEPT !.wide = [Escaping({"quote", "slash", "nl", "tab"}, {"ctl"}) EXCEPT !["esc"] = 3],
                !.newline = "ends", !.runs_on = {"esc"}]

bf2lua ==
  [Backend EXCEPT !.moves = TRUE, !.plan = "lua", !.masks = Tests, !.rem = "floor",
                  !.text = LuaText]

\* m[p] = -v; without a cast.
bf2java ==
  [Backend EXCEPT !.plan = "java", !.types = Typed("sbyte"), !.var = Typed("sbyte"),
                  !.slips = {<<"W", "byte">>}]

\* The ',' reads into v.
bf2asmjs ==
  [Backend EXCEPT !.plan = "coroutine", !.types = Typed("byte"), !.stop = "", !.spoils = {","},
                  !.text = NoText]

\* Every statement ends in a MOD that keeps the sign; at the end of the input
\* the program waits for another line.
bf2nav ==
  [Backend EXCEPT !.plan = "coroutine", !.wraps = TRUE, !.lines = TRUE, !.eof = "waits",
                  !.text = NoText, !.be.bytesonly = TRUE]

(***************************************************************************)
(* Backends that are handed nothing but the eight commands, '=' and, if    *)
(* they ask for them, strings.                                             *)
(***************************************************************************)
Narrow(chrtok) == [ints |-> FALSE, limited |-> TRUE, bytesonly |-> TRUE, chrtok |-> chrtok]

bf2gas ==
  [Backend EXCEPT !.knows = Few, !.types = <<"byte", "byte">>, !.loops = "label",
                  !.be = Narrow(FALSE)]

bf2gas_local == [bf2gas EXCEPT !.loops = "local"]

bf2elf ==
  [Backend EXCEPT !.knows = Few, !.types = <<"byte", "byte">>, !.split = {"<", ">"},
                  !.be = Narrow(FALSE)]

RcText == [CText EXCEPT !.wide = Escaping({"apos"}, {}), !.cut = 1, !.first = {"dash"},
                        !.alone = Controls \ {"nl"}]

OldText == [CText EXCEPT !.wide = Escaping({}, {}), !.cut = 1,
                         !.alone = (Controls \ {"nl"}) \cup {"apos", "slash", "dash"}]

\* Functions u2, u3, ... for runs; a table for the next number, without an
\* entry for the negative ones od -t d1 makes of bytes.
bf2rc ==
  [Backend EXCEPT !.knows = Few \cup {"quote"}, !.types = <<"byte", "byte">>,
                  !.split = {"+", "-", "<", ">"}, !.reads = "signed",
                  !.be = Narrow(TRUE), !.text = RcText]

bf2oldsh ==
  [bf2rc EXCEPT !.text = OldText]

(***************************************************************************)
(* All of them, and those that can be told a number of bits (-bN).         *)
(***************************************************************************)
Table ==
  [ php |-> bf2php, perl |-> bf2perl, neko |-> bf2neko, b |-> bf2b, csh |-> bf2csh,
    f95 |-> bf2f95, tsql |-> bf2tsql, ps1 |-> bf2ps1, nickle |-> bf2nickle, awk |-> bf2awk,
    bc |-> bf2bc, tcl |-> bf2tcl, rb |-> bf2rb, cgmp |-> bf2cgmp, sh |-> bf2sh,
    ksh88 |-> bf2ksh88, cmd |-> bf2cmd, go |-> bf2go, cs |-> bf2cs, d |-> bf2d,
    slang |-> bf2slang, vala |-> bf2vala, perl6 |-> bf2perl6, swift |-> bf2swift,
    ada |-> bf2ada, cobol |-> bf2cobol, gas |-> bf2gas, gas_local |-> bf2gas_local,
    py |-> bf2py, bn |-> bf2bn, tomm |-> bf2tomm, dc |-> bf2dc, bas |-> bf2bas,
    bas_goto |-> bf2bas_goto, whitespace |-> bf2whitespace, ksh |-> bf2ksh, crun |-> bf2crun,
    pas |-> bf2pas, julia |-> bf2julia, lua |-> bf2lua, java |-> bf2java, asmjs |-> bf2asmjs,
    nav |-> bf2nav, elf |-> bf2elf, rc |-> bf2rc, oldsh |-> bf2oldsh ]

Sized == {"nickle", "bc", "tcl", "rb", "cgmp", "py", "bn", "tomm", "dc"}

\* A v that is cut is cut to that many bits.
WithBits(p) ==
  [p EXCEPT !.always = TRUE, !.masks = @ \cup p.sized,
            !.var = IF p.tests THEN <<"uword", "byte">> ELSE @]
=============================================================================
