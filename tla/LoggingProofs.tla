---------------------------- MODULE LoggingProofs ---------------------------
(***************************************************************************)
(* Theorems about Logging for any set of builds, any number of threads and *)
(* any verbosity levels, widths and bounds.                                *)
(***************************************************************************)
EXTENDS Logging, SequenceTheorems, DataInduction, TLAPS

-----------------------------------------------------------------------------
(* What a macro expands to.                                                *)

(* The steps a build may be left with: where there are GNU extensions a    *)
(* VLOG looks at its site, elsewhere at FLAGS_v.                           *)
BuildSteps ==
  IF program.gnu THEN Steps \ {"FLAGS_v"} ELSE Steps \ {"flag", "pointer", "InitVLOG3__"}

(* What is left of a statement ends in the message; the site's pointer is  *)
(* tested right after the flag it points to; InitVLOG3__ is only next; and *)
(* LOG_FIRST_N has an increment to skip.                                   *)
Shape(s) ==
  /\ s # <<>> => s[Len(s)] = "stream"
  /\ \A i \in 1 .. Len(s) :
       /\ s[i] = "pointer" /\ i > 1 => s[i - 1] = "flag"
       /\ s[i] = "flag" => s[i + 1] = "pointer"
       /\ s[i] = "InitVLOG3__" => i = 1
       /\ s[i] = "load_first" => s[i + 1] = "store_occ"

(* The steps before the message, and an expansion as a whole.              *)
Leads(steps) ==
  /\ steps \in Seq(BuildSteps) /\ Shape(Append(steps, "stream"))
  /\ Append(steps, "stream")[1] \notin {"pointer", "InitVLOG3__"}

Expanded(e) ==
  /\ Leads(e.steps) /\ e.severity \in INFO .. FATAL
  /\ e.stream \in {"message", "vector", "sink", "null", "null_fatal", "none"}
  /\ e.severity = FATAL => e.stream # "null"

Sends(e) == e.stream \in {"message", "vector"}

LEMMA StrippedExpanded ==
  ASSUME NEW steps, Leads(steps), program \in Program, NEW s \in INFO .. DFATAL
  PROVE  /\ Expanded(Stripped(steps, s))
         /\ Sends(Stripped(steps, s)) => Stripped(steps, s).severity >= program.strip
         /\ Stripped(steps, s).stream \notin {"vector", "sink"}
<1>1. program.strip \in 0 .. 4 /\ Level(s) \in INFO .. FATAL
  BY DEF Program, Level, INFO, ERROR, FATAL, DFATAL
<1> QED  BY <1>1 DEF Expanded, Stripped, Compact, Sends, INFO, FATAL

LEMMA SentExpanded ==
  ASSUME NEW steps, Leads(steps), program \in Program, NEW s \in INFO .. DFATAL
  PROVE  Expanded(Sent(steps, s)) /\ Sent(steps, s).stream = "message"
<1>1. Level(s) \in INFO .. FATAL
  BY DEF Program, Level, INFO, ERROR, FATAL, DFATAL
<1> QED  BY <1>1 DEF Expanded, Sent

LEMMA RawExpanded ==
  ASSUME NEW steps, Leads(steps), program \in Program, NEW s \in INFO .. FATAL
  PROVE  Expanded(Raw(steps, s)) /\ Raw(steps, s).stream \notin {"vector", "sink"}
<1>1. program.raw \in 0 .. 4
  BY DEF Program
<1> QED  BY <1>1 DEF Expanded, Raw, RawCompact, INFO, FATAL

LEMMA VlogLeads ==
  ASSUME program \in Program
  PROVE  /\ Leads(VLOG_IS_ON) /\ Leads(<<"condition">> \o VLOG_IS_ON)
         /\ Leads(CountIf(VLOG_IS_ON)) /\ Leads(CountIf(<<"condition">> \o VLOG_IS_ON))
<1> USE DEF Leads, Shape, VLOG_IS_ON, CountIf, Count, BuildSteps, Steps
<1>1. CASE program.gnu
  <2>1. Leads(VLOG_IS_ON)
    BY <1>1
  <2>2. Leads(<<"condition">> \o VLOG_IS_ON)
    BY <1>1
  <2>3. Leads(CountIf(VLOG_IS_ON))
    BY <1>1
  <2>4. Leads(CountIf(<<"condition">> \o VLOG_IS_ON))
    BY <1>1
  <2> QED  BY <2>1, <2>2, <2>3, <2>4
<1>2. CASE ~program.gnu
  <2>1. Leads(VLOG_IS_ON)
    BY <1>2
  <2>2. Leads(<<"condition">> \o VLOG_IS_ON)
    BY <1>2
  <2>3. Leads(CountIf(VLOG_IS_ON))
    BY <1>2
  <2>4. Leads(CountIf(<<"condition">> \o VLOG_IS_ON))
    BY <1>2
  <2> QED  BY <2>1, <2>2, <2>3, <2>4
<1> QED  BY <1>1, <1>2, SMTT(30)

LEMMA PlainLeads ==
  /\ Leads(<<>>) /\ Leads(<<"condition">>) /\ Leads(<<"val">>) /\ Leads(CountEvery)
  /\ Leads(CountIf(<<"condition">>)) /\ Leads(<<"load_first", "store_occ", "test_first">>)
<1>1. \A s \in {"condition", "load_occ", "store_occ", "load_mod", "store_mod", "wrap_mod",
                 "test_mod", "store_modulo", "load_first", "test_first", "stream", "val"} :
        s \in BuildSteps
  BY DEF BuildSteps, Steps
<1> USE <1>1 DEF Leads, Shape, CountEvery, CountIf, Count
<1>2. Leads(<<>>)
  OBVIOUS
<1>3. Leads(<<"condition">>)
  OBVIOUS
<1>7. Leads(<<"val">>)
  OBVIOUS
<1>4. Leads(CountEvery)
  OBVIOUS
<1>5. Leads(CountIf(<<"condition">>))
  OBVIOUS
<1>6. Leads(<<"load_first", "store_occ", "test_first">>)
  OBVIOUS
<1> QED  BY <1>2, <1>3, <1>4, <1>5, <1>6, <1>7

(* One entry, and one entry before others.                                 *)
LEMMA Singles ==
  ASSUME NEW S, NEW c \in S, NEW q \in Seq(S)
  PROVE  /\ <<c>> \in Seq(S) /\ Len(<<c>>) = 1 /\ <<c>>[1] = c
         /\ <<c>> \o q \in Seq(S) /\ Len(<<c>> \o q) = Len(q) + 1 /\ (<<c>> \o q)[1] = c
         /\ \A k \in 2 .. Len(q) + 1 : (<<c>> \o q)[k] = q[k - 1]
<1>1. <<c>> \in Seq(S) /\ Len(<<c>>) = 1 /\ <<c>>[1] = c
  OBVIOUS
<1>2. Len(q) \in Nat
  OBVIOUS
<1> QED  BY <1>1, <1>2, ConcatProperties

(* A guard before a statement.                                             *)
LEMMA GuardLeads ==
  ASSUME NEW g \in Guards, NEW steps, Leads(steps)
  PROVE  /\ Leads(<<g>> \o steps) /\ Append(<<g>> \o steps, "stream")[1] = g
         /\ \A s : /\ Guarded(g, Stripped(steps, s)) = Stripped(<<g>> \o steps, s)
                  /\ Guarded(g, Raw(steps, s)) = Raw(<<g>> \o steps, s)
<1> DEFINE B == BuildSteps
           stream == "stream"
           p == Append(steps, stream)
           r == <<g>> \o steps
           q == Append(r, stream)
<1>1. steps \in Seq(B) /\ g \in B /\ stream \in B
  BY DEF Leads, BuildSteps, Steps, Guards
<1>2. g \notin {stream, "pointer", "flag", "InitVLOG3__", "load_first"}
  BY DEF Guards
<1>3. /\ Shape(p) /\ p[1] \notin {"pointer", "InitVLOG3__"}
  BY DEF Leads
<1> HIDE DEF B, stream
<1>4. /\ r \in Seq(B) /\ Len(r) = Len(steps) + 1 /\ r[1] = g /\ Len(steps) \in Nat
      /\ \A i \in 1 .. Len(steps) : r[i + 1] = steps[i]
  <2>1. \A k \in 2 .. Len(steps) + 1 : r[k] = steps[k - 1]
    BY <1>1, Singles
  <2>2. Len(steps) \in Nat
    BY <1>1, LenProperties
  <2>3. \A i \in 1 .. Len(steps) : i + 1 \in 2 .. Len(steps) + 1 /\ (i + 1) - 1 = i
    BY <2>2
  <2> HIDE DEF r
  <2>4. \A i \in 1 .. Len(steps) : r[i + 1] = steps[i]
    BY <2>1, <2>3
  <2>5. r \in Seq(B) /\ Len(r) = Len(steps) + 1 /\ r[1] = g
    BY <1>1, Singles DEF r
  <2> QED  BY <2>2, <2>4, <2>5
<1>5. /\ p \in Seq(B) /\ Len(p) = Len(steps) + 1 /\ p[Len(steps) + 1] = stream
      /\ \A i \in 1 .. Len(steps) : p[i] = steps[i]
  BY <1>1, AppendProperties
<1> HIDE DEF p
<1>6. /\ q \in Seq(B) /\ Len(q) = Len(r) + 1 /\ q[Len(r) + 1] = stream
      /\ \A i \in 1 .. Len(r) : q[i] = r[i]
  BY <1>1, <1>4, AppendProperties
<1> HIDE DEF r, q
<1>7. q[1] = g
  BY <1>4, <1>6
<1>8. \A i \in 1 .. Len(p) : q[i + 1] = p[i]
  <2>1. \A i \in 1 .. Len(p) : i \in 1 .. Len(steps) \/ i = Len(steps) + 1
    BY <1>4, <1>5
  <2>2. \A i \in 1 .. Len(steps) : i + 1 \in 1 .. Len(r)
    BY <1>4
  <2> QED  BY <1>4, <1>5, <1>6, <2>1, <2>2
<1>9. Len(q) = Len(p) + 1 /\ Len(p) \in Nat \ {0}
  BY <1>4, <1>5, <1>6
<1>10. q[Len(q)] = stream
  BY <1>4, <1>6
<1>11. ASSUME NEW i \in 2 .. Len(q)
       PROVE  /\ q[i] = "pointer" => q[i - 1] = "flag"
              /\ q[i] # "InitVLOG3__"
              /\ q[i] = "load_first" => q[i + 1] = "store_occ"
              /\ q[i] = "flag" => q[i + 1] = "pointer"
  <2>1. i - 1 \in 1 .. Len(p) /\ i = (i - 1) + 1 /\ q[i] = p[i - 1]
    BY <1>8, <1>9
  <2>2. ASSUME NEW k \in 1 .. Len(p)
        PROVE  /\ p[k] = "pointer" /\ k > 1 => p[k - 1] = "flag"
               /\ p[k] = "flag" => p[k + 1] = "pointer"
               /\ p[k] = "InitVLOG3__" => k = 1
               /\ p[k] = "load_first" => p[k + 1] = "store_occ"
    BY <1>3 DEF Shape
  <2>3. q[i] # "InitVLOG3__"
    BY <1>3, <2>1, <2>2
  <2>4. ASSUME q[i] = "pointer"  PROVE q[i - 1] = "flag"
    <3>1. p[i - 1] = "pointer" /\ i - 1 # 1
      BY <1>3, <2>1, <2>4
    <3>2. i - 1 > 1 /\ (i - 1) - 1 \in 1 .. Len(p) /\ ((i - 1) - 1) + 1 = i - 1
      BY <1>9, <2>1, <3>1
    <3>3. p[(i - 1) - 1] = "flag" /\ q[((i - 1) - 1) + 1] = p[(i - 1) - 1]
      BY <1>8, <2>1, <2>2, <3>1, <3>2
    <3> QED  BY <3>2, <3>3
  <2>5. ASSUME i - 1 # Len(p)  PROVE q[i + 1] = p[(i - 1) + 1]
    <3>1. i \in 1 .. Len(p)
      BY <1>9, <2>1, <2>5
    <3> QED  BY <1>8, <2>1, <3>1
  <2>6. p[Len(p)] = stream
    BY <1>4, <1>5
  <2>7. ASSUME q[i] \in {"load_first", "flag"}  PROVE i - 1 # Len(p)
    BY <2>1, <2>6, <2>7 DEF stream
  <2>8. /\ q[i] = "load_first" => q[i + 1] = "store_occ"
        /\ q[i] = "flag" => q[i + 1] = "pointer"
    BY <2>1, <2>2, <2>5, <2>7
  <2> QED  BY <2>3, <2>4, <2>8
<1>12. Shape(q)
  BY <1>2, <1>7, <1>9, <1>10, <1>11 DEF Shape, stream
<1>13. Leads(r)
  <2>1. Append(r, "stream") = q
    BY DEF q, stream
  <2> QED  BY <1>2, <1>4, <1>7, <1>12, <2>1 DEF Leads, B
<1>14. ASSUME NEW s
       PROVE  /\ Guarded(g, Stripped(steps, s)) = Stripped(r, s)
              /\ Guarded(g, Raw(steps, s)) = Raw(r, s)
  <2>1. Stripped(steps, s).steps = steps /\ Raw(steps, s).steps = steps
    BY DEF Stripped, Raw
  <2>2. /\ Guarded(g, Stripped(steps, s)) = [Stripped(steps, s) EXCEPT !.steps = r]
        /\ Guarded(g, Raw(steps, s)) = [Raw(steps, s) EXCEPT !.steps = r]
    BY <2>1 DEF Guarded, r
  <2>3. [Stripped(steps, s) EXCEPT !.steps = r] = Stripped(r, s)
    BY DEF Stripped
  <2>4. [Raw(steps, s) EXCEPT !.steps = r] = Raw(r, s)
    BY DEF Raw
  <2> QED  BY <2>2, <2>3, <2>4
<1> QED  BY <1>7, <1>13, <1>14 DEF r, q, stream

(* Which of the tables a macro is found in.                                *)
LEMMA Tables ==
  ASSUME ~Vanishing
  PROVE
  LET s == program.severity
  IN
    /\ program.macro \in DOMAIN LogMacros(s) => Expansion = LogMacros(s)[program.macro]
    /\ program.macro \in {"SYSLOG", "SYSLOG_IF"} =>
         Expansion = SysLogMacros(s)[program.macro]
    /\ program.macro \in CheckMacroNames => Expansion = CheckMacros[program.macro]
    /\ program.macro \in {"PLOG", "PLOG_IF", "PCHECK"} =>
         Expansion = PLogMacros(s)[program.macro]
    /\ program.macro \in {"LOG_EVERY_N", "LOG_IF_EVERY_N", "LOG_FIRST_N"} =>
         Expansion = CountingMacros(s)[program.macro]
    /\ program.macro \in {"VLOG", "VLOG_IF", "VLOG_EVERY_N", "VLOG_IF_EVERY_N"} =>
         Expansion = VerboseMacros[program.macro]
    /\ program.macro \in {"RAW_LOG", "RAW_CHECK", "RAW_VLOG"} =>
         Expansion = RawMacros(s)[program.macro]
<1> DEFINE s == program.severity
           m == program.macro
<1>1. /\ DOMAIN LogMacros(s) = {"LOG", "LOG_IF", "LOG_TO_STRING", "LOG_STRING", "LOG_TO_SINK",
                               "LOG_TO_SINK_BUT_NOT_TO_LOGFILE"}
      /\ DOMAIN SysLogMacros(s) = {"SYSLOG", "SYSLOG_IF"}
      /\ DOMAIN PLogMacros(s) = {"PLOG", "PLOG_IF", "PCHECK"}
      /\ DOMAIN CountingMacros(s) = {"LOG_EVERY_N", "LOG_IF_EVERY_N", "LOG_FIRST_N"}
      /\ DOMAIN VerboseMacros = {"VLOG", "VLOG_IF", "VLOG_EVERY_N", "VLOG_IF_EVERY_N"}
      /\ DOMAIN RawMacros(s) = {"RAW_LOG", "RAW_CHECK", "RAW_VLOG"}
  BY DEF LogMacros, SysLogMacros, PLogMacros, CountingMacros, VerboseMacros, RawMacros
<1>2. DOMAIN CheckMacros = CheckMacroNames
  BY DEF CheckMacros, CheckMacroNames
<1> DEFINE l == DOMAIN LogMacros(s)
           y == DOMAIN SysLogMacros(s)
           c == DOMAIN CheckMacros
           p == DOMAIN PLogMacros(s)
           n == DOMAIN CountingMacros(s)
           v == DOMAIN VerboseMacros
           r == DOMAIN RawMacros(s)
           dl == DOMAIN DLogMacros(s)
           dc == DOMAIN DCheckMacros
           dr == DOMAIN RawDMacros(s)
<1>3. Expansion = CASE Vanishing /\ m \in dl -> DLogMacros(s)[m]
                    [] Vanishing /\ m \in dc -> DCheckMacros[m]
                    [] Vanishing /\ m \in dr -> RawDMacros(s)[m]
                    [] ~Vanishing /\ m \in l -> LogMacros(s)[m]
                    [] ~Vanishing /\ m \in y -> SysLogMacros(s)[m]
                    [] ~Vanishing /\ m \in c -> CheckMacros[m]
                    [] ~Vanishing /\ m \in p -> PLogMacros(s)[m]
                    [] ~Vanishing /\ m \in n -> CountingMacros(s)[m]
                    [] ~Vanishing /\ m \in v -> VerboseMacros[m]
                    [] ~Vanishing /\ m \in r -> RawMacros(s)[m]
  BY DEF Expansion
<1>4. /\ \A x \in l : /\ x \notin y /\ x \notin c /\ x \notin p
                      /\ x \notin n /\ x \notin v /\ x \notin r
      /\ \A x \in y : x \notin c /\ x \notin p /\ x \notin n /\ x \notin v /\ x \notin r
      /\ \A x \in c : x \notin p /\ x \notin n /\ x \notin v /\ x \notin r
      /\ \A x \in p : x \notin n /\ x \notin v /\ x \notin r
      /\ \A x \in n : x \notin v /\ x \notin r
      /\ \A x \in v : x \notin r
  BY <1>1, <1>2 DEF CheckMacroNames
<1> HIDE DEF l, y, c, p, n, v, r, dl, dc, dr, m, s
<1>5. /\ m \in l => Expansion = LogMacros(s)[m]
      /\ m \in y => Expansion = SysLogMacros(s)[m]
      /\ m \in c => Expansion = CheckMacros[m]
      /\ m \in p => Expansion = PLogMacros(s)[m]
      /\ m \in n => Expansion = CountingMacros(s)[m]
      /\ m \in v => Expansion = VerboseMacros[m]
      /\ m \in r => Expansion = RawMacros(s)[m]
  BY <1>3, <1>4
<1> QED  BY <1>1, <1>2, <1>5 DEF l, y, c, p, n, v, r, m, s

LEMMA VanishingTables ==
  ASSUME Vanishing
  PROVE
  LET s == program.severity
  IN
    /\ program.macro \in {"LOG", "VLOG", "LOG_IF", "LOG_EVERY_N", "LOG_IF_EVERY_N"} =>
         Expansion = DLogMacros(s)[program.macro]
    /\ program.macro \in CheckMacroNames => Expansion = DCheckMacros[program.macro]
    /\ program.macro \in {"RAW_LOG", "RAW_CHECK"} =>
         Expansion = RawDMacros(s)[program.macro]
<1> DEFINE s == program.severity
           m == program.macro
           l == DOMAIN DLogMacros(s)
           c == DOMAIN DCheckMacros
           r == DOMAIN RawDMacros(s)
<1>1. /\ l = {"LOG", "VLOG", "LOG_IF", "LOG_EVERY_N", "LOG_IF_EVERY_N"}
      /\ c = CheckMacroNames /\ r = {"RAW_LOG", "RAW_CHECK"}
  BY DEF DLogMacros, DCheckMacros, RawDMacros, CheckMacroNames
<1> DEFINE pl == DOMAIN LogMacros(s)
           py == DOMAIN SysLogMacros(s)
           pc == DOMAIN CheckMacros
           pp == DOMAIN PLogMacros(s)
           pn == DOMAIN CountingMacros(s)
           pv == DOMAIN VerboseMacros
           pr == DOMAIN RawMacros(s)
<1>2. Expansion = CASE Vanishing /\ m \in l -> DLogMacros(s)[m]
                    [] Vanishing /\ m \in c -> DCheckMacros[m]
                    [] Vanishing /\ m \in r -> RawDMacros(s)[m]
                    [] ~Vanishing /\ m \in pl -> LogMacros(s)[m]
                    [] ~Vanishing /\ m \in py -> SysLogMacros(s)[m]
                    [] ~Vanishing /\ m \in pc -> CheckMacros[m]
                    [] ~Vanishing /\ m \in pp -> PLogMacros(s)[m]
                    [] ~Vanishing /\ m \in pn -> CountingMacros(s)[m]
                    [] ~Vanishing /\ m \in pv -> VerboseMacros[m]
                    [] ~Vanishing /\ m \in pr -> RawMacros(s)[m]
  BY DEF Expansion
<1>3. /\ \A x \in l : x \notin c /\ x \notin r
      /\ \A x \in c : x \notin r
  BY <1>1 DEF CheckMacroNames
<1> HIDE DEF l, c, r, pl, py, pc, pp, pn, pv, pr, m, s
<1>4. /\ m \in l => Expansion = DLogMacros(s)[m]
      /\ m \in c => Expansion = DCheckMacros[m]
      /\ m \in r => Expansion = RawDMacros(s)[m]
  BY <1>2, <1>3
<1> QED  BY <1>1, <1>4 DEF m, s

(* Whatever the build: the steps are shaped as Shape says, no FATAL        *)
(* statement is left with a harmless stream, a strippable statement that   *)
(* has a message is not below the strip level, and only the two forms that *)
(* return take their message elsewhere.                                    *)
Sound(e) ==
  /\ Expanded(e)
  /\ program.macro \in Strippable /\ Sends(e) => e.severity >= program.strip
  /\ e.stream \in {"vector", "sink"} => Returns

LEMMA CheckFacts ==
  ASSUME NEW m \in CheckMacroNames
  PROVE  CheckMacros[m] = IF m = "CHECK_NOTNULL" THEN Sent(<<"condition">>, FATAL)
                          ELSE Stripped(<<"condition">>, FATAL)
BY DEF CheckMacroNames, CheckMacros, CHECK_OP, CHECK_STROP

(* A debug macro of a release build begins with what makes it vanish.      *)
LEMMA VanishingFacts ==
  ASSUME program \in Programs, Vanishing
  PROVE  /\ Sound(Expansion)
         /\ LET first == Append(Expansion.steps, "stream")[1]
            IN  first \in Guards \/ (first = "val" /\ program.macro = "CHECK_NOTNULL")
<1> DEFINE s == program.severity
           E == Expansion
           begins(e) == LET first == Append(e.steps, "stream")[1]
                        IN  first \in Guards \/ (first = "val" /\ program.macro = "CHECK_NOTNULL")
<1>1. /\ program \in Program /\ program.macro \in DebugMacros /\ s \in INFO .. DFATAL
      /\ s = DFATAL => program.macro \in {"LOG", "LOG_IF", "SYSLOG", "SYSLOG_IF"}
  BY LogAssumption DEF Program, Vanishing
<1>2. /\ INFO \in INFO .. DFATAL /\ FATAL \in INFO .. DFATAL
      /\ INFO \in INFO .. FATAL /\ FATAL \in INFO .. FATAL
  BY DEF INFO, FATAL, DFATAL
<1> HIDE DEF s, E
<1>3. ASSUME NEW g \in Guards, NEW steps, Leads(steps), NEW x \in INFO .. DFATAL,
             E = Guarded(g, Stripped(steps, x))
      PROVE  Sound(E) /\ begins(E)
  <2>1. /\ Leads(<<g>> \o steps) /\ Append(<<g>> \o steps, "stream")[1] = g
        /\ E = Stripped(<<g>> \o steps, x)
    BY <1>3, GuardLeads
  <2>2. E.steps = <<g>> \o steps
    BY <2>1 DEF Stripped
  <2>3. begins(E)
    BY <2>1, <2>2
  <2> QED  BY <1>1, <1>3, <2>1, <2>3, StrippedExpanded DEF Sound
<1>4. ASSUME NEW g \in Guards, NEW steps, Leads(steps), NEW x \in INFO .. FATAL,
             E = Guarded(g, Raw(steps, x)), program.macro \notin Strippable
      PROVE  Sound(E) /\ begins(E)
  <2>1. /\ Leads(<<g>> \o steps) /\ Append(<<g>> \o steps, "stream")[1] = g
        /\ E = Raw(<<g>> \o steps, x)
    BY <1>4, GuardLeads
  <2>2. E.steps = <<g>> \o steps
    BY <2>1 DEF Raw
  <2>3. begins(E)
    BY <2>1, <2>2
  <2> QED  BY <1>1, <1>4, <2>1, <2>3, RawExpanded DEF Sound
<1>5. "true_then" \in Guards /\ "true_or" \in Guards /\ "while_false" \in Guards
  BY DEF Guards
<1>6. CASE program.macro \in {"LOG", "VLOG", "LOG_IF", "LOG_EVERY_N", "LOG_IF_EVERY_N"}
  <2>1. E = DLogMacros(s)[program.macro]
    BY <1>6, VanishingTables DEF s, E
  <2>2. /\ program.macro \in {"LOG", "LOG_EVERY_N"} => E = Guarded("true_then", Stripped(<<>>, s))
        /\ program.macro \in {"LOG_IF", "LOG_IF_EVERY_N"} =>
             E = Guarded("true_or", Stripped(<<"condition">>, s))
        /\ program.macro = "VLOG" => E = Guarded("true_or", Stripped(VLOG_IS_ON, INFO))
    BY <2>1 DEF DLogMacros, DVLOG
  <2> QED  BY <1>1, <1>2, <1>3, <1>5, <1>6, <2>2, PlainLeads, VlogLeads DEF E
<1>7. CASE program.macro \in CheckMacroNames
  <2>1. E = DCheckMacros[program.macro]
    BY <1>7, VanishingTables DEF E
  <2>2. /\ program.macro \notin {"LOG_ASSERT", "CHECK_NOTNULL"} =>
             E = Guarded("while_false", CheckMacros[program.macro])
        /\ program.macro = "LOG_ASSERT" => E = Guarded("true_then", CheckMacros["LOG_ASSERT"])
        /\ program.macro = "CHECK_NOTNULL" =>
             E = [steps |-> <<"val">>, stream |-> "none", severity |-> FATAL]
    BY <1>7, <2>1 DEF DCheckMacros, CheckMacroNames
  <2>3. CASE program.macro = "CHECK_NOTNULL"
    <3>1. E.steps = <<"val">> /\ E.stream = "none" /\ E.severity = FATAL
      BY <2>2, <2>3
    <3>2. Leads(<<"val">>) /\ Append(<<"val">>, "stream")[1] = "val"
      BY PlainLeads
    <3> QED  BY <1>2, <2>3, <3>1, <3>2 DEF Sound, Expanded, Sends, E, FATAL, INFO
  <2>4. CASE program.macro # "CHECK_NOTNULL"
    <3>1. \E g \in Guards : E = Guarded(g, Stripped(<<"condition">>, FATAL))
      <4>1. "LOG_ASSERT" \in CheckMacroNames
        BY DEF CheckMacroNames
      <4> QED  BY <1>5, <1>7, <2>2, <2>4, <4>1, CheckFacts
    <3> QED  BY <1>2, <1>3, <3>1, PlainLeads DEF E
  <2> QED  BY <2>3, <2>4
<1>8. CASE program.macro \in {"RAW_LOG", "RAW_CHECK"}
  <2>1. E = RawDMacros(s)[program.macro]
    BY <1>8, VanishingTables DEF s, E
  <2>2. \/ E = Guarded("while_false", Raw(<<>>, s))
        \/ E = Guarded("while_false", Raw(<<"condition">>, FATAL))
    BY <1>8, <2>1 DEF RawDMacros, RawMacros
  <2>3. s \in INFO .. FATAL /\ program.macro \notin Strippable
    BY <1>1, <1>8 DEF INFO, FATAL, DFATAL, Strippable, CheckMacroNames
  <2> QED  BY <1>2, <1>4, <1>5, <2>2, <2>3, PlainLeads DEF E
<1> QED  BY <1>1, <1>6, <1>7, <1>8 DEF DebugMacros

LEMMA ExpansionFacts ==
  ASSUME program \in Programs
  PROVE  Sound(Expansion)
<1> DEFINE s == program.severity
<1>v. CASE Vanishing
  BY <1>v, VanishingFacts
<1> SUFFICES ASSUME ~Vanishing  PROVE Sound(Expansion)
  BY <1>v
<1>1. /\ program \in Program /\ program.macro \in Macros /\ s \in INFO .. DFATAL
      /\ s = DFATAL => program.macro \in {"LOG", "LOG_IF", "SYSLOG", "SYSLOG_IF"}
  BY LogAssumption DEF Program
<1>2. /\ INFO \in INFO .. DFATAL /\ FATAL \in INFO .. DFATAL
      /\ INFO \in INFO .. FATAL /\ FATAL \in INFO .. FATAL
  BY DEF INFO, FATAL, DFATAL
<1> HIDE DEF s
<1>s. ASSUME NEW steps, Leads(steps), NEW x \in INFO .. DFATAL, Expansion = Stripped(steps, x)
      PROVE  Sound(Expansion)
  BY <1>1, <1>s, StrippedExpanded DEF Sound
<1>m. ASSUME NEW steps, Leads(steps), NEW x \in INFO .. DFATAL, Expansion = Sent(steps, x),
             program.macro \notin Strippable
      PROVE  Sound(Expansion)
  BY <1>1, <1>m, SentExpanded DEF Sound
<1>r. ASSUME NEW steps, Leads(steps), NEW x \in INFO .. FATAL, Expansion = Raw(steps, x),
             program.macro \notin Strippable
      PROVE  Sound(Expansion)
  BY <1>1, <1>r, RawExpanded DEF Sound
<1>3. CASE program.macro \in DOMAIN LogMacros(s)
  <2>1. Expansion = LogMacros(s)[program.macro]
    BY <1>3, Tables DEF s
  <2>2. /\ program.macro \in {"LOG", "LOG_TO_STRING"} => Expansion = Stripped(<<>>, s)
        /\ program.macro = "LOG_IF" => Expansion = Stripped(<<"condition">>, s)
        /\ program.macro = "LOG_STRING" => Expansion = To("vector", Stripped(<<>>, s))
        /\ program.macro = "LOG_TO_SINK" => Expansion = Sent(<<>>, s)
        /\ program.macro = "LOG_TO_SINK_BUT_NOT_TO_LOGFILE" =>
             Expansion = To("sink", Sent(<<>>, s))
    BY <2>1 DEF LogMacros
  <2>3. program.macro \in {"LOG", "LOG_IF", "LOG_TO_STRING", "LOG_STRING", "LOG_TO_SINK",
                           "LOG_TO_SINK_BUT_NOT_TO_LOGFILE"}
    BY <1>3 DEF LogMacros
  <2>4. CASE program.macro = "LOG_STRING"
    <3> DEFINE e == Stripped(<<>>, s)
    <3>1. /\ Expanded(e) /\ (Sends(e) => e.severity >= program.strip)
          /\ e.stream \notin {"vector", "sink"}
      BY <1>1, PlainLeads, StrippedExpanded
    <3>2. /\ Expansion.steps = e.steps /\ Expansion.severity = e.severity
          /\ Expansion.stream = IF e.stream = "message" THEN "vector" ELSE e.stream
      BY <2>2, <2>4 DEF To, Stripped
    <3>3. e.stream = "message" => program.strip <= FATAL
      BY <1>1, <3>1 DEF Expanded, Sends, INFO, FATAL, Program
    <3> HIDE DEF e
    <3>4. Expanded(Expansion)
      BY <3>1, <3>2 DEF Expanded
    <3> QED  BY <2>4, <3>1, <3>2, <3>3, <3>4 DEF Sound, Sends, Returns
  <2>5. CASE program.macro = "LOG_TO_SINK_BUT_NOT_TO_LOGFILE"
    <3> DEFINE e == Sent(<<>>, s)
    <3>1. Expanded(e) /\ e.stream = "message"
      BY <1>1, PlainLeads, SentExpanded
    <3>2. /\ Expansion.steps = e.steps /\ Expansion.severity = e.severity
          /\ Expansion.stream = "sink"
      BY <2>2, <2>5 DEF To, Sent
    <3>3. Expanded(Expansion)
      BY <3>1, <3>2 DEF Expanded
    <3> QED  BY <2>5, <3>2, <3>3 DEF Sound, Sends, Returns
  <2>6. CASE program.macro = "LOG_TO_SINK"
    <3>1. program.macro \notin Strippable
      BY <2>6 DEF Strippable, CheckMacroNames
    <3> QED  BY <1>1, <1>m, <2>2, <2>6, <3>1, PlainLeads
  <2>7. CASE program.macro \in {"LOG", "LOG_IF", "LOG_TO_STRING"}
    BY <1>1, <1>s, <2>2, <2>7, PlainLeads
  <2> QED  BY <2>3, <2>4, <2>5, <2>6, <2>7
<1>4. CASE program.macro \in {"SYSLOG", "SYSLOG_IF"}
  <2>1. Expansion = SysLogMacros(s)[program.macro]
    BY <1>4, Tables DEF s
  <2>2. Expansion = Sent(<<>>, s) \/ Expansion = Sent(<<"condition">>, s)
    BY <1>4, <2>1 DEF SysLogMacros
  <2>3. program.macro \notin Strippable
    BY <1>4 DEF Strippable, CheckMacroNames
  <2> QED  BY <1>1, <1>m, <2>2, <2>3, PlainLeads
<1>5. CASE program.macro \in CheckMacroNames
  <2>1. Expansion = CheckMacros[program.macro]
    BY <1>5, Tables
  <2>2. /\ program.macro # "CHECK_NOTNULL" => Expansion = Stripped(<<"condition">>, FATAL)
        /\ program.macro = "CHECK_NOTNULL" => Expansion = Sent(<<"condition">>, FATAL)
    BY <1>5, <2>1, CheckFacts
  <2>3. program.macro = "CHECK_NOTNULL" => program.macro \notin Strippable
    BY DEF Strippable
  <2> QED  BY <1>2, <1>s, <1>m, <2>2, <2>3, PlainLeads
<1>6. CASE program.macro \in {"PLOG", "PLOG_IF", "PCHECK"}
  <2>1. Expansion = PLogMacros(s)[program.macro]
    BY <1>6, Tables DEF s
  <2>2. \/ Expansion = Sent(<<>>, s) \/ Expansion = Sent(<<"condition">>, s)
        \/ Expansion = Sent(<<"condition">>, FATAL)
    BY <1>6, <2>1 DEF PLogMacros
  <2>3. program.macro \notin Strippable
    BY <1>6 DEF Strippable, CheckMacroNames
  <2> QED  BY <1>1, <1>2, <1>m, <2>2, <2>3, PlainLeads
<1>7. CASE program.macro \in {"LOG_EVERY_N", "LOG_IF_EVERY_N", "LOG_FIRST_N"}
  <2>1. Expansion = CountingMacros(s)[program.macro]
    BY <1>7, Tables DEF s
  <2>2. \/ Expansion = Sent(CountEvery, s) \/ Expansion = Sent(CountIf(<<"condition">>), s)
        \/ Expansion = Sent(<<"load_first", "store_occ", "test_first">>, s)
    BY <1>7, <2>1 DEF CountingMacros
  <2>3. program.macro \notin Strippable
    BY <1>7 DEF Strippable, CheckMacroNames
  <2> QED  BY <1>1, <1>m, <2>2, <2>3, PlainLeads
<1>8. CASE program.macro \in {"VLOG", "VLOG_IF", "VLOG_EVERY_N", "VLOG_IF_EVERY_N"}
  <2>1. Expansion = VerboseMacros[program.macro]
    BY <1>8, Tables
  <2>2. /\ program.macro = "VLOG" => Expansion = Stripped(VLOG_IS_ON, INFO)
        /\ program.macro = "VLOG_IF" => Expansion = Stripped(<<"condition">> \o VLOG_IS_ON, INFO)
        /\ program.macro \in {"VLOG_EVERY_N", "VLOG_IF_EVERY_N"} =>
             \/ Expansion = Sent(CountIf(VLOG_IS_ON), INFO)
             \/ Expansion = Sent(CountIf(<<"condition">> \o VLOG_IS_ON), INFO)
    BY <2>1 DEF VerboseMacros
  <2>3. program.macro \in {"VLOG_EVERY_N", "VLOG_IF_EVERY_N"} => program.macro \notin Strippable
    BY DEF Strippable, CheckMacroNames
  <2> QED  BY <1>1, <1>2, <1>8, <1>s, <1>m, <2>2, <2>3, VlogLeads
<1>9. CASE program.macro \in {"RAW_LOG", "RAW_CHECK", "RAW_VLOG"}
  <2>1. Expansion = RawMacros(s)[program.macro]
    BY <1>9, Tables DEF s
  <2>2. \/ Expansion = Raw(<<>>, s) \/ Expansion = Raw(<<"condition">>, FATAL)
        \/ Expansion = Raw(VLOG_IS_ON, INFO) \/ Expansion = Raw(<<>>, INFO)
    BY <1>9, <2>1 DEF RawMacros
  <2>3. s \in INFO .. FATAL /\ program.macro \notin Strippable
    BY <1>1, <1>9 DEF INFO, FATAL, DFATAL, Strippable, CheckMacroNames
  <2> QED  BY <1>1, <1>2, <1>r, <2>2, <2>3, PlainLeads, VlogLeads
<1>10. program.macro \in DOMAIN LogMacros(s) \cup {"SYSLOG", "SYSLOG_IF"} \cup CheckMacroNames
          \cup {"PLOG", "PLOG_IF", "PCHECK"} \cup {"LOG_EVERY_N", "LOG_IF_EVERY_N", "LOG_FIRST_N"}
          \cup {"VLOG", "VLOG_IF", "VLOG_EVERY_N", "VLOG_IF_EVERY_N"}
          \cup {"RAW_LOG", "RAW_CHECK", "RAW_VLOG"}
  BY <1>1 DEF Macros, LogMacros
<1> QED  BY <1>3, <1>4, <1>5, <1>6, <1>7, <1>8, <1>9, <1>10

-----------------------------------------------------------------------------
(* Type correctness, and the shape of what is left of each statement.      *)

StepInv == \A t \in Threads : todo[t] \in Seq(BuildSteps) /\ Shape(todo[t])

SafeInv == TypeOK /\ StepInv

(* Dropping the next step keeps the shape.                                 *)
LEMMA ShapeTail ==
  ASSUME NEW S, NEW s \in Seq(S), s # <<>>, Shape(s)
  PROVE  /\ Tail(s) \in Seq(S) /\ Shape(Tail(s))
         /\ s[1] # "stream" => Tail(s) # <<>>
         /\ Tail(s) # <<>> /\ Tail(s)[1] = "pointer" => s[1] = "flag"
         /\ Tail(s) # <<>> => Tail(s)[1] # "InitVLOG3__"
         /\ s[1] = "flag" => Tail(s) # <<>> /\ Tail(s)[1] = "pointer"
         /\ s[1] = "load_first" => Tail(s) # <<>> /\ Tail(s)[1] = "store_occ"
<1>1. Len(s) \in Nat \ {0}
  BY EmptySeq
<1>2. PICK r \in Seq(S) : r = Tail(s)
  BY HeadTailProperties
<1>3. Len(r) = Len(s) - 1 /\ \A i \in 1 .. Len(r) : r[i] = s[i + 1]
  BY <1>2, HeadTailProperties
<1>4. r # <<>> => Len(r) \in 1 .. Len(r)
  BY <1>2, <1>3, EmptySeq, LenProperties
<1>5. r # <<>> => r[Len(r)] = "stream"
  BY <1>1, <1>3, <1>4 DEF Shape
<1>6. ASSUME NEW i \in 1 .. Len(r)
      PROVE  /\ r[i] = "pointer" => s[i] = "flag"
             /\ r[i] = "pointer" /\ i > 1 => r[i - 1] = "flag"
             /\ r[i] # "InitVLOG3__"
             /\ r[i] = "load_first" => r[i + 1] = "store_occ"
             /\ r[i] = "flag" => r[i + 1] = "pointer"
  <2>1. i + 1 \in 1 .. Len(s) /\ i + 1 > 1 /\ i + 1 - 1 = i /\ r[i] = s[i + 1]
    BY <1>1, <1>3
  <2>0. \A j \in 1 .. Len(s) : /\ s[j] = "pointer" /\ j > 1 => s[j - 1] = "flag"
                               /\ s[j] = "load_first" => s[j + 1] = "store_occ"
                               /\ s[j] = "flag" => s[j + 1] = "pointer"
    BY DEF Shape
  <2>2. r[i] = "pointer" => s[i] = "flag"
    <3>1. s[i + 1] = "pointer" => s[(i + 1) - 1] = "flag"
      BY <2>0, <2>1
    <3> QED  BY <2>1, <3>1
  <2>3. i > 1 => r[i - 1] = s[i]
    BY <1>1, <1>3
  <2>4. r[i] # "InitVLOG3__"
    BY <2>1 DEF Shape
  <2>5. ASSUME r[i] = "load_first"  PROVE r[i + 1] = "store_occ"
    <3>1. s[i + 1] = "load_first" /\ s[(i + 1) + 1] = "store_occ"
      BY <2>0, <2>1, <2>5
    <3>2. i + 1 # Len(s)
      BY <3>1 DEF Shape
    <3>3. i + 1 \in 1 .. Len(r) /\ (i + 1) + 1 = i + 2
      BY <1>1, <1>3, <2>1, <3>2
    <3>4. r[i + 1] = s[(i + 1) + 1]
      BY <1>3, <3>3
    <3> QED  BY <3>1, <3>4
  <2>6. ASSUME r[i] = "flag"  PROVE r[i + 1] = "pointer"
    <3>1. s[i + 1] = "flag" /\ s[(i + 1) + 1] = "pointer"
      BY <2>0, <2>1, <2>6
    <3>2. i + 1 # Len(s)
      BY <3>1 DEF Shape
    <3>3. i + 1 \in 1 .. Len(r) /\ (i + 1) + 1 = i + 2
      BY <1>1, <1>3, <2>1, <3>2
    <3>4. r[i + 1] = s[(i + 1) + 1]
      BY <1>3, <3>3
    <3> QED  BY <3>1, <3>4
  <2> QED  BY <2>2, <2>3, <2>4, <2>5, <2>6
<1>7. Shape(r)
  BY <1>5, <1>6 DEF Shape
<1>8. r # <<>> => 1 \in 1 .. Len(r)
  BY <1>4, <1>3
<1>9. s[1] # "stream" => r # <<>>
  <2>1. s[Len(s)] = "stream"
    BY DEF Shape
  <2>2. r = <<>> => Len(r) = 0
    OBVIOUS
  <2> QED  BY <1>1, <1>3, <2>1, <2>2
<1>10. s[1] \in {"flag", "load_first"} =>
         r[1] = IF s[1] = "flag" THEN "pointer" ELSE "store_occ"
  <2>1. s[1] = "flag" => s[1 + 1] = "pointer"
    BY <1>1 DEF Shape
  <2>2. s[1] = "load_first" => s[1 + 1] = "store_occ"
    BY <1>1 DEF Shape
  <2>3. s[1] # "stream" => r[1] = s[1 + 1]
    BY <1>3, <1>8, <1>9
  <2> QED  BY <2>1, <2>2, <2>3
<1> QED  BY <1>2, <1>6, <1>7, <1>8, <1>9, <1>10

(* Sending the site to InitVLOG3__ keeps it.                               *)
LEMMA ShapeInit ==
  ASSUME NEW S, NEW s \in Seq(S), s # <<>>, Shape(s), s[1] = "pointer", "InitVLOG3__" \in S
  PROVE  /\ <<"InitVLOG3__">> \o Tail(s) \in Seq(S) /\ Shape(<<"InitVLOG3__">> \o Tail(s))
         /\ <<"InitVLOG3__">> \o Tail(s) # <<>>
         /\ (<<"InitVLOG3__">> \o Tail(s))[1] = "InitVLOG3__"
<1>1. PICK r \in Seq(S) : r = Tail(s)
  BY HeadTailProperties
<1>2. Shape(r) /\ r # <<>> /\ r[1] # "pointer"
  BY <1>1, ShapeTail
<1>3. Len(r) \in Nat \ {0}
  BY <1>2, EmptySeq
<1>4. PICK q \in Seq(S) : q = <<"InitVLOG3__">> \o r
  <2>1. <<"InitVLOG3__">> \in Seq(S)
    OBVIOUS
  <2> QED  BY <2>1, ConcatProperties
<1>5. Len(q) = Len(r) + 1 /\ q # <<>> /\ q[1] = "InitVLOG3__"
  BY <1>4
<1>6. \A i \in 1 .. Len(r) : q[i + 1] = r[i]
  BY <1>4
<1>7. q[Len(q)] = "stream"
  BY <1>2, <1>3, <1>5, <1>6 DEF Shape
<1>8. ASSUME NEW i \in 2 .. Len(q)
      PROVE  /\ q[i] = "pointer" => q[i - 1] = "flag"
             /\ q[i] # "InitVLOG3__"
             /\ q[i] = "load_first" => q[i + 1] = "store_occ"
             /\ q[i] = "flag" => q[i + 1] = "pointer"
  <2>1. i - 1 \in 1 .. Len(r) /\ i = (i - 1) + 1 /\ q[i] = r[i - 1]
    BY <1>3, <1>5, <1>6
  <2>2. ASSUME q[i] = "pointer"  PROVE q[i - 1] = "flag"
    <3>0. \A j \in 1 .. Len(r) : r[j] = "pointer" /\ j > 1 => r[j - 1] = "flag"
      BY <1>2 DEF Shape
    <3>1. r[i - 1] = "pointer" /\ i - 1 # 1
      BY <1>2, <2>1, <2>2
    <3>2. i - 1 > 1
      BY <2>1, <3>1
    <3>3. r[(i - 1) - 1] = "flag"
      BY <2>1, <3>0, <3>1, <3>2
    <3>4. (i - 1) - 1 \in 1 .. Len(r) /\ ((i - 1) - 1) + 1 = i - 1
      BY <1>3, <2>1, <3>2
    <3>5. q[((i - 1) - 1) + 1] = r[(i - 1) - 1]
      BY <1>6, <3>4
    <3> QED  BY <3>3, <3>4, <3>5
  <2>3. q[i] # "InitVLOG3__"
    <3>1. ASSUME r[i - 1] = "InitVLOG3__"  PROVE FALSE
      <4>1. i - 1 = 1
        BY <1>2, <2>1, <3>1 DEF Shape
      <4> QED  BY <1>1, <3>1, <4>1, <1>2, ShapeTail
    <3> QED  BY <2>1, <3>1
  <2>4. ASSUME q[i] = "load_first"  PROVE q[i + 1] = "store_occ"
    <3>1. r[i] = "store_occ" /\ i - 1 # Len(r)
      <4>1. r[i - 1] = "load_first"
        BY <2>1, <2>4
      <4>2. r[(i - 1) + 1] = "store_occ"
        BY <1>2, <2>1, <4>1 DEF Shape
      <4> QED  BY <1>2, <2>1, <4>1, <4>2 DEF Shape
    <3>2. i \in 1 .. Len(r)
      BY <1>3, <2>1, <3>1
    <3> QED  BY <1>6, <3>1, <3>2
  <2>5. ASSUME q[i] = "flag"  PROVE q[i + 1] = "pointer"
    <3>1. r[i] = "pointer" /\ i - 1 # Len(r)
      <4>1. r[i - 1] = "flag"
        BY <2>1, <2>5
      <4>2. r[(i - 1) + 1] = "pointer"
        BY <1>2, <2>1, <4>1 DEF Shape
      <4> QED  BY <1>2, <2>1, <4>1, <4>2 DEF Shape
    <3>2. i \in 1 .. Len(r)
      BY <1>3, <2>1, <3>1
    <3> QED  BY <1>6, <3>1, <3>2
  <2> QED  BY <2>2, <2>3, <2>4, <2>5
<1>9. Shape(q)
  BY <1>3, <1>5, <1>7, <1>8 DEF Shape
<1> QED  BY <1>1, <1>4, <1>5, <1>9

(* What a step does to the rest of a statement.                            *)
LEMMA TodoMoves ==
  ASSUME Next, todo \in [Threads -> Seq(Steps)]
  PROVE  /\ program' = program
         /\ \/ todo' = todo
            \/ \E t \in Threads : Execute(t)
            \/ \E t \in Threads :
                 /\ todo[t] # <<>>
                 /\ \/ todo' = [todo EXCEPT ![t] = <<>>]
                    \/ todo' = [todo EXCEPT ![t] = Tail(todo[t])]
                    \/ /\ todo[t][1] = "load_first"
                       /\ todo' = [todo EXCEPT ![t] = Tail(Tail(todo[t]))]
                    \/ /\ todo[t][1] = "pointer"
                       /\ todo' = [todo EXCEPT ![t] = <<"InitVLOG3__">> \o Tail(todo[t])]
<1> USE DEF rest, site, threads, output, history
<1>1. ASSUME NEW t \in Threads, CountingStep(t), ~LoadFirst(t)
      PROVE  /\ program' = program /\ todo[t] # <<>>
             /\ todo' = [todo EXCEPT ![t] = <<>>] \/ todo' = [todo EXCEPT ![t] = Tail(todo[t])]
  BY <1>1 DEF CountingStep, LoadOccurrences, StoreOccurrences, LoadMod, StoreMod, WrapMod,
              TestMod, StoreModulo, TestFirst, At, Continue
<1>2. ASSUME NEW t \in Threads, LoadFirst(t)
      PROVE  /\ program' = program /\ todo[t] # <<>> /\ todo[t][1] = "load_first"
             /\ \/ todo' = [todo EXCEPT ![t] = Tail(todo[t])]
                \/ todo' = [todo EXCEPT ![t] = Tail(Tail(todo[t]))]
  <2>1. program' = program /\ todo[t] # <<>> /\ Head(todo[t]) = "load_first"
    BY <1>2 DEF LoadFirst, At
  <2>2. todo[t] \in Seq(Steps)
    OBVIOUS
  <2>3. todo[t][1] = "load_first"
    BY <2>1, <2>2
  <2>4. todo' = [todo EXCEPT ![t] = IF occurrences <= program.n THEN Tail(@) ELSE Tail(Tail(@))]
    BY <1>2 DEF LoadFirst
  <2>5. \/ todo' = [todo EXCEPT ![t] = Tail(todo[t])]
        \/ todo' = [todo EXCEPT ![t] = Tail(Tail(todo[t]))]
    BY <2>4, Zenon
  <2> QED  BY <2>1, <2>3, <2>5
<1>3. ASSUME NEW t \in Threads, VerboseStep(t), ~TestSiteUninitialized(t)
      PROVE  /\ program' = program /\ todo[t] # <<>>
             /\ todo' = [todo EXCEPT ![t] = <<>>] \/ todo' = [todo EXCEPT ![t] = Tail(todo[t])]
  BY <1>3 DEF VerboseStep, TestFlag, TestSite, InitVLOG3__, At, Continue
<1>4. ASSUME NEW t \in Threads, TestSiteUninitialized(t)
      PROVE  /\ program' = program /\ todo[t] # <<>> /\ todo[t][1] = "pointer"
             /\ \/ todo' = [todo EXCEPT ![t] = Tail(todo[t])]
                \/ todo' = [todo EXCEPT ![t] = <<"InitVLOG3__">> \o Tail(todo[t])]
  <2>1. program' = program /\ todo[t] # <<>> /\ Head(todo[t]) = "pointer"
    BY <1>4 DEF TestSiteUninitialized, At
  <2>2. todo[t] \in Seq(Steps)
    OBVIOUS
  <2>3. todo[t][1] = "pointer"
    BY <2>1, <2>2
  <2>4. todo' = [todo EXCEPT ![t] = IF vlocal # "uninitialized" THEN Tail(@)
                                    ELSE <<"InitVLOG3__">> \o Tail(@)]
    BY <1>4 DEF TestSiteUninitialized
  <2>5. \/ todo' = [todo EXCEPT ![t] = Tail(todo[t])]
        \/ todo' = [todo EXCEPT ![t] = <<"InitVLOG3__">> \o Tail(todo[t])]
    BY <2>4, Zenon
  <2> QED  BY <2>1, <2>3, <2>5
<1>5. ASSUME NEW t \in Threads,
             \/ Skip(t) \/ EvaluateVal(t) \/ Condition(t)
             \/ SendMessage(t) \/ KeepMessage(t) \/ DiscardMessage(t)
      PROVE  /\ program' = program /\ todo[t] # <<>>
             /\ todo' = [todo EXCEPT ![t] = <<>>] \/ todo' = [todo EXCEPT ![t] = Tail(todo[t])]
  BY <1>5 DEF Skip, EvaluateVal, Condition, SendMessage, KeepMessage, DiscardMessage, At, Continue
<1>6. ASSUME NEW t \in Threads, Execute(t)  PROVE program' = program
  BY <1>6 DEF Execute
<1>7. ASSUME \/ \E f \in {"v", "module"}, l \in Levels : SetVLOGLevel(f, l)
      PROVE  program' = program /\ todo' = todo
  BY <1>7 DEF SetVLOGLevel
<1> QED  BY <1>1, <1>2, <1>3, <1>4, <1>5, <1>6, <1>7 DEF Next

LEMMA StepInvStep ==
  ASSUME SafeInv, [Next]_vars
  PROVE  todo' \in [Threads -> Seq(Steps)] /\ StepInv' /\ program' = program
<1>1. todo \in [Threads -> Seq(Steps)] /\ program \in Programs
  BY DEF SafeInv, TypeOK
<1>2. \A t \in Threads : todo[t] \in Seq(BuildSteps) /\ Shape(todo[t])
  BY DEF SafeInv, StepInv
<1>3. BuildSteps \subseteq Steps
  BY DEF BuildSteps
<1>4. ASSUME NEW t \in Threads, NEW s \in Seq(BuildSteps), Shape(s), program' = program,
             todo' = [todo EXCEPT ![t] = s]
      PROVE  todo' \in [Threads -> Seq(Steps)] /\ StepInv'
  <2>1. s \in Seq(Steps)
    BY <1>3, SeqMonotonic
  <2>2. todo' \in [Threads -> Seq(Steps)]
    BY <1>1, <1>4, <2>1
  <2>3. BuildSteps' = BuildSteps
    BY <1>4 DEF BuildSteps
  <2>4. \A u \in Threads : todo'[u] = s \/ todo'[u] = todo[u]
    BY <1>1, <1>4
  <2> QED  BY <1>2, <1>4, <2>2, <2>3, <2>4 DEF StepInv, Shape
<1>5. <<>> \in Seq(BuildSteps) /\ Shape(<<>>)
  BY DEF Shape
<1>6. CASE UNCHANGED vars
  BY <1>1, <1>2, <1>6 DEF vars, rest, threads, StepInv, BuildSteps, Shape
<1>7. CASE Next /\ todo' = todo
  BY <1>1, <1>2, <1>7, TodoMoves DEF StepInv, BuildSteps, Shape
<1>8. ASSUME NEW t \in Threads, Execute(t)
      PROVE  todo' \in [Threads -> Seq(Steps)] /\ StepInv' /\ program' = program
  <2>1. Leads(Expansion.steps)
    BY <1>1, ExpansionFacts DEF Sound, Expanded
  <2>2. Append(Expansion.steps, "stream") \in Seq(BuildSteps)
    <3>1. "stream" \in BuildSteps
      BY DEF BuildSteps, Steps
    <3> QED  BY <2>1, <3>1, AppendProperties DEF Leads
  <2>3. /\ program' = program
        /\ todo' = [todo EXCEPT ![t] = Append(Expansion.steps, "stream")]
    BY <1>8 DEF Execute
  <2> QED  BY <1>4, <2>1, <2>2, <2>3 DEF Leads
<1>9. ASSUME NEW t \in Threads, todo[t] # <<>>, program' = program,
             \/ todo' = [todo EXCEPT ![t] = <<>>]
             \/ todo' = [todo EXCEPT ![t] = Tail(todo[t])]
      PROVE  todo' \in [Threads -> Seq(Steps)] /\ StepInv'
  BY <1>2, <1>4, <1>5, <1>9, ShapeTail
<1>10. ASSUME NEW t \in Threads, todo[t] # <<>>, program' = program,
              todo[t][1] = "load_first", todo' = [todo EXCEPT ![t] = Tail(Tail(todo[t]))]
       PROVE  todo' \in [Threads -> Seq(Steps)] /\ StepInv'
  <2>1. Tail(todo[t]) \in Seq(BuildSteps) /\ Shape(Tail(todo[t])) /\ Tail(todo[t]) # <<>>
    BY <1>2, <1>10, ShapeTail
  <2>2. Tail(Tail(todo[t])) \in Seq(BuildSteps) /\ Shape(Tail(Tail(todo[t])))
    BY <2>1, ShapeTail
  <2> QED  BY <1>4, <1>10, <2>2
<1>11. ASSUME NEW t \in Threads, todo[t] # <<>>, program' = program,
              todo[t][1] = "pointer",
              todo' = [todo EXCEPT ![t] = <<"InitVLOG3__">> \o Tail(todo[t])]
       PROVE  todo' \in [Threads -> Seq(Steps)] /\ StepInv'
  <2>1. "pointer" \in BuildSteps
    BY <1>2, <1>11, EmptySeq, ElementOfSeq, LenProperties
  <2>2. "InitVLOG3__" \in BuildSteps
    BY <2>1 DEF BuildSteps, Steps
  <2> QED  BY <1>2, <1>4, <1>11, <2>2, ShapeInit
<1> QED  BY <1>1, <1>6, <1>7, <1>8, <1>9, <1>10, <1>11, TodoMoves

LEMMA SafeInvInit == Init => SafeInv
<1> SUFFICES ASSUME Init PROVE SafeInv
  OBVIOUS
<1> USE LogAssumption
<1>1. todo = [t \in Threads |-> <<>>] /\ todo \in [Threads -> Seq(Steps)]
  <2>1. <<>> \in Seq(Steps)
    BY EmptySeq
  <2> QED  BY <2>1 DEF Init
<1>2. StepInv
  BY <1>1 DEF StepInv, Shape
<1>4. 0 \in Ints
  BY DEF Ints
<1>5. flags \in [v : Levels, module : Levels \cup {NoPattern}]
  <2>1. flags \in [v : Levels, module : {NoPattern}]
    BY DEF Init
  <2> QED  BY <2>1
<1>6. /\ occurrences \in Ints /\ mod_n \in Ints
      /\ occ_reg \in [Threads -> Ints] /\ mod_reg \in [Threads -> Ints]
  <2>1. /\ occurrences = 0 /\ mod_n = 0
        /\ occ_reg = [t \in Threads |-> 0] /\ mod_reg = [t \in Threads |-> 0]
    BY DEF Init
  <2>2. [t \in Threads |-> 0] \in [Threads -> Ints]
    BY <1>4
  <2> QED  BY <1>4, <2>1, <2>2
<1>7. 0 \in 0 .. program.times /\ 0 \in 0 .. MaxChanges /\ 0 \in 0 .. 0
  BY DEF Init, Program
<1>8. runs \in 0 .. program.times /\ changes \in 0 .. MaxChanges
  BY <1>7 DEF Init
<1>9. occasions \in Nat /\ nth \in [Threads -> 0 .. occasions]
  BY <1>7 DEF Init
<1>12. overlapped \in BOOLEAN
  BY DEF Init
<1>13. seen \in [Threads -> SUBSET [v : Levels, module : Levels \cup {NoPattern}]]
  BY DEF Init
<1>10. /\ program \in Programs /\ process \in {"running", "aborted", "exited"}
       /\ vlocal \in {"uninitialized", "v", "module"}
  BY DEF Init
<1>11. TypeOK
  BY <1>1, <1>5, <1>6, <1>8, <1>9, <1>10, <1>12, <1>13, Zenon DEF TypeOK
<1> QED  BY <1>2, <1>11 DEF SafeInv

LEMMA SafeInvStep == SafeInv /\ [Next]_vars => SafeInv'
<1> SUFFICES ASSUME SafeInv, [Next]_vars PROVE TypeOK'
  BY StepInvStep DEF SafeInv
<1> DEFINE Todo == program \in Programs /\ todo \in [Threads -> Seq(Steps)]
<1> DEFINE Flow == process \in {"running", "aborted", "exited"}
<1> DEFINE Statics == /\ occurrences \in Ints /\ mod_n \in Ints
                      /\ vlocal \in {"uninitialized", "v", "module"}
<1> DEFINE Registers == occ_reg \in [Threads -> Ints] /\ mod_reg \in [Threads -> Ints]
<1> DEFINE Flags == [v : Levels, module : Levels \cup {NoPattern}]
<1> DEFINE Verbosity == /\ flags \in Flags /\ changes \in 0 .. MaxChanges
                        /\ seen \in [Threads -> SUBSET Flags]
<1> DEFINE Turns == /\ runs \in 0 .. program.times
                    /\ occasions \in Nat /\ nth \in [Threads -> 0 .. occasions]
                    /\ overlapped \in BOOLEAN
<1>t. Todo /\ Flow /\ Statics /\ Registers /\ Verbosity /\ Turns
  BY DEF SafeInv, TypeOK
<1>a. Todo' /\ program' = program
  BY <1>t, StepInvStep
<1>b. /\ program.n \in Nat \ {0} /\ program.n <= IntMax /\ IntMax \in Nat
      /\ program.times \in Nat /\ MaxChanges \in Nat
  BY <1>t, LogAssumption DEF Program
<1>s. Flow' /\ Statics' /\ Registers' /\ Verbosity' /\ Turns' => TypeOK'
  BY <1>a DEF TypeOK
<1> USE DEF rest, site, threads, output, history
<1>1. Flow'
  <2> HIDE DEF Todo, Statics, Registers, Verbosity, Turns
  <2>1. process' \in {process, "aborted", "exited"}
    BY DEF Next, vars, Execute, Skip, EvaluateVal, Condition, CountingStep, VerboseStep,
           SendMessage, KeepMessage, DiscardMessage, SetVLOGLevel, LoadOccurrences,
           StoreOccurrences, LoadMod, StoreMod, WrapMod, TestMod, StoreModulo, LoadFirst,
           TestFirst, TestFlag, TestSite, TestSiteUninitialized, InitVLOG3__
  <2> QED  BY <1>t, <2>1
<1>2. Statics' /\ Registers'
  <2>1. ASSUME NEW t \in Threads, StoreOccurrences(t)  PROVE Statics' /\ Registers'
    <3>1. occ_reg[t] + 1 \in Int /\ Wrapped(occ_reg[t] + 1) \in Ints
      BY <1>t, <1>b, SMTT(30) DEF Wrapped, Ints
    <3> QED  BY <1>t, <2>1, <3>1 DEF StoreOccurrences
  <2>2. ASSUME NEW t \in Threads, LoadOccurrences(t) \/ LoadFirst(t)
        PROVE  Statics' /\ Registers'
    BY <1>t, <2>2, ZenonT(60) DEF LoadOccurrences, LoadFirst
  <2>3. ASSUME NEW t \in Threads, LoadMod(t) \/ StoreMod(t)  PROVE Statics' /\ Registers'
    <3>1. Wrapped(mod_reg[t] + 1) \in Ints
      BY <1>t, <1>b, SMTT(30) DEF Wrapped, Ints
    <3>2. CASE LoadMod(t)
      BY <1>t, <3>2 DEF LoadMod
    <3>3. CASE StoreMod(t)
      BY <1>t, <3>1, <3>3 DEF StoreMod
    <3> QED  BY <2>3, <3>2, <3>3
  <2>4. ASSUME NEW t \in Threads, WrapMod(t)  PROVE Statics' /\ Registers'
    <3>1. mod_reg[t] \in Ints /\ mod_n \in Ints
      BY <1>t
    <3>2. \A x \in Ints : Wrapped(x - program.n) \in Ints
      BY <1>b DEF Wrapped, Ints
    <3>3. /\ mod_n' \in Ints
          /\ mod_reg' = mod_reg \/ mod_reg' = [mod_reg EXCEPT ![t] = mod_n']
          /\ UNCHANGED <<occurrences, vlocal, occ_reg>>
      BY <2>4, <3>1, <3>2, Zenon DEF WrapMod, Reread
    <3> QED  BY <1>t, <3>3
  <2>5. ASSUME NEW t \in Threads, StoreModulo(t)  PROVE Statics' /\ Registers'
    <3>1. mod_reg[t] + 1 \in Int
      BY <1>t, <1>b DEF Ints
    <3>2. (mod_reg[t] + 1) % program.n \in 0 .. program.n - 1
      BY <1>b, <3>1
    <3>3. (mod_reg[t] + 1) % program.n \in Ints
      BY <1>b, <3>2 DEF Ints
    <3> QED  BY <1>t, <2>5, <3>3 DEF StoreModulo
  <2>6. ASSUME NEW t \in Threads, InitVLOG3__(t)  PROVE Statics' /\ Registers'
    BY <1>t, <2>6 DEF InitVLOG3__, Controlling
  <2>7. CASE UNCHANGED <<site, occ_reg, mod_reg>>
    BY <1>t, <2>7
  <2>8. \/ UNCHANGED <<site, occ_reg, mod_reg>>
        \/ \E t \in Threads :
             \/ StoreOccurrences(t) \/ LoadOccurrences(t) \/ LoadFirst(t) \/ LoadMod(t)
             \/ StoreMod(t) \/ WrapMod(t) \/ StoreModulo(t) \/ InitVLOG3__(t)
    BY ZenonT(60) DEF Next, vars, Execute, Skip, EvaluateVal, Condition, CountingStep,
           VerboseStep, SendMessage, KeepMessage, DiscardMessage, SetVLOGLevel, TestMod,
           TestFirst, TestFlag, TestSite, TestSiteUninitialized
  <2> QED  BY <2>1, <2>2, <2>3, <2>4, <2>5, <2>6, <2>7, <2>8
<1>4. Verbosity'
  <2>1. ASSUME NEW f \in {"v", "module"}, NEW l \in Levels, SetVLOGLevel(f, l)
        PROVE  Verbosity'
    <3>1. changes' \in 0 .. MaxChanges
      BY <1>t, <1>b, <2>1 DEF SetVLOGLevel
    <3>2. flags' = [flags EXCEPT !["v"] = l] \/ flags' = [flags EXCEPT !["module"] = l]
      BY <2>1 DEF SetVLOGLevel
    <3>3. flags' \in Flags
      BY <1>t, <3>2
    <3>4. seen' \in [Threads -> SUBSET Flags]
      <4>1. seen' = [t \in Threads |-> IF todo[t] = <<>> THEN seen[t]
                                       ELSE seen[t] \cup {flags'}]
        BY <2>1 DEF SetVLOGLevel
      <4> HIDE DEF Flags
      <4>2. \A t \in Threads : seen[t] \in SUBSET Flags
        BY <1>t
      <4> QED  BY <3>3, <4>1, <4>2
    <3> QED  BY <3>1, <3>3, <3>4
  <2>3. ASSUME NEW t \in Threads, Execute(t)  PROVE Verbosity'
    <3>1. seen' = [seen EXCEPT ![t] = {flags}] /\ UNCHANGED <<flags, changes>>
      BY <2>3 DEF Execute
    <3> HIDE DEF Flags
    <3> QED  BY <1>t, <3>1
  <2>2. \/ UNCHANGED <<flags, changes, seen>>
        \/ \E f \in {"v", "module"}, l \in Levels : SetVLOGLevel(f, l)
        \/ \E t \in Threads : Execute(t)
    BY ZenonT(60) DEF Next, vars, Skip, EvaluateVal, Condition, CountingStep, VerboseStep,
           SendMessage, KeepMessage, DiscardMessage, LoadOccurrences, StoreOccurrences, LoadMod,
           StoreMod, WrapMod, TestMod, StoreModulo, LoadFirst, TestFirst, TestFlag, TestSite,
           TestSiteUninitialized, InitVLOG3__
  <2> QED  BY <1>t, <2>1, <2>2, <2>3
<1>5. Turns'
  <2>1. ASSUME NEW t \in Threads, NewOccasion(t), UNCHANGED <<runs, overlapped>>
        PROVE  Turns'
    BY <1>t, <1>a, <2>1 DEF NewOccasion
  <2>2. ASSUME NEW t \in Threads, Execute(t)  PROVE Turns'
    BY <1>t, <1>a, <1>b, <2>2 DEF Execute
  <2>3. \/ UNCHANGED <<runs, occasions, nth, overlapped>>
        \/ \E t \in Threads :
             Execute(t) \/ (NewOccasion(t) /\ UNCHANGED <<runs, overlapped>>)
    BY ZenonT(60) DEF Next, vars, Skip, EvaluateVal, Condition, CountingStep, VerboseStep,
           SendMessage, KeepMessage, DiscardMessage, SetVLOGLevel, LoadOccurrences,
           StoreOccurrences, LoadMod, StoreMod, WrapMod, TestMod, StoreModulo, LoadFirst,
           TestFirst, TestFlag, TestSite, TestSiteUninitialized, InitVLOG3__
  <2> QED  BY <1>t, <1>a, <2>1, <2>2, <2>3
<1> QED  BY <1>1, <1>2, <1>4, <1>5, <1>s

(* The statics, registers and flags of the macros keep their types: both   *)
(* counters of a site stay ints however often the statement is executed.   *)
THEOREM TypeCorrect == Spec => []TypeOK
<1>1. SafeInv => TypeOK
  BY DEF SafeInv
<1> QED  BY <1>1, SafeInvInit, SafeInvStep, PTL DEF Spec

-----------------------------------------------------------------------------
(* Who writes what the properties are about.                               *)
LEMMA Writers ==
  ASSUME [Next]_vars
  PROVE  /\ messages' = messages \/ \E t \in Threads : SendMessage(t)
         /\ \/ UNCHANGED <<todo, process, occurrences, mod_n, vlocal, evaluated>>
            \/ \E t \in Threads : Execute(t) \/ (process = "running" /\ todo[t] # <<>>)
<1> USE DEF rest, site, threads, output, history
<1>1. ASSUME NEW t \in Threads,
             \/ CountingStep(t) \/ VerboseStep(t)
             \/ Skip(t) \/ EvaluateVal(t) \/ Condition(t) \/ KeepMessage(t)
      PROVE  messages' = messages /\ process = "running" /\ todo[t] # <<>>
  BY <1>1 DEF CountingStep, VerboseStep, Skip, EvaluateVal, Condition, KeepMessage,
              LoadOccurrences, StoreOccurrences, LoadMod, StoreMod, WrapMod, TestMod,
              StoreModulo, LoadFirst, TestFirst, TestFlag, TestSite, TestSiteUninitialized,
              InitVLOG3__, At
<1>2. ASSUME NEW t \in Threads, SendMessage(t) \/ DiscardMessage(t)
      PROVE  /\ process = "running" /\ todo[t] # <<>>
             /\ DiscardMessage(t) => messages' = messages
  BY <1>2 DEF SendMessage, DiscardMessage, At
<1>3. ASSUME NEW t \in Threads, Execute(t)  PROVE messages' = messages
  BY <1>3 DEF Execute
<1>4. ASSUME NEW f \in {"v", "module"}, NEW l \in Levels, SetVLOGLevel(f, l)
      PROVE  UNCHANGED <<messages, todo, process, occurrences, mod_n, vlocal, evaluated>>
  BY <1>4 DEF SetVLOGLevel
<1>5. CASE UNCHANGED vars
  BY <1>5 DEF vars
<1> QED  BY <1>1, <1>2, <1>3, <1>4, <1>5 DEF Next

LEMMA BuildStays == [Next]_vars => program' = program
<1>1. CASE Next
  BY <1>1, ZenonT(60) DEF Next, Execute, Skip, EvaluateVal, Condition, CountingStep, VerboseStep,
         SendMessage, KeepMessage, DiscardMessage, SetVLOGLevel, LoadOccurrences,
         StoreOccurrences, LoadMod, StoreMod, WrapMod, TestMod, StoreModulo, LoadFirst,
         TestFirst, TestFlag, TestSite, TestSiteUninitialized, InitVLOG3__, rest
<1>2. CASE UNCHANGED vars
  BY <1>2 DEF vars, rest
<1> QED  BY <1>1, <1>2

(* No build shows a message below its strip level.                         *)
THEOREM HiddenStay == Spec => []StrippedStaysHidden
<1>1. Init => StrippedStaysHidden
  BY DEF Init, StrippedStaysHidden
<1>2. SafeInv /\ StrippedStaysHidden /\ [Next]_vars => StrippedStaysHidden'
  <2> SUFFICES ASSUME SafeInv, StrippedStaysHidden, [Next]_vars PROVE StrippedStaysHidden'
    OBVIOUS
  <2>1. program' = program
    BY BuildStays
  <2>2. CASE messages' = messages
    BY <2>1, <2>2 DEF StrippedStaysHidden
  <2>3. ASSUME NEW t \in Threads, SendMessage(t)  PROVE StrippedStaysHidden'
    <3>1. program \in Programs /\ Sends(Expansion)
      BY <2>3 DEF SendMessage, Sends, SafeInv, TypeOK
    <3>2. program.macro \in Strippable => Expansion.severity >= program.strip
      BY <3>1, ExpansionFacts DEF Sound
    <3>3. \A m \in messages' : m \in messages \/ m.severity = Expansion.severity
      BY <2>3 DEF SendMessage
    <3> QED  BY <2>1, <3>2, <3>3 DEF StrippedStaysHidden
  <2> QED  BY <2>2, <2>3, Writers
<1> QED  BY <1>1, <1>2, SafeInvInit, SafeInvStep, PTL DEF Spec

(* In a release build a thread at a debug macro has not come further than  *)
(* the guard the macro begins with, or than the value of DCHECK_NOTNULL.   *)
Guarding(s) == s # <<>> => s[1] \in Guards \/ (s[1] = "val" /\ program.macro = "CHECK_NOTNULL")
TraceInv    == Vanishing => DebugLeavesNoTrace /\ \A t \in Threads : Guarding(todo[t])

(* The step of such a thread.                                              *)
LEMMA GuardedStep ==
  ASSUME SafeInv, TraceInv, Vanishing, Next
  PROVE  /\ UNCHANGED <<messages, occurrences, mod_n, vlocal, process>>
         /\ evaluated' => evaluated \/ program.macro = "CHECK_NOTNULL"
         /\ \/ todo' = todo
            \/ \E t \in Threads : todo' = [todo EXCEPT ![t] = <<>>] \/ Execute(t)
<1>1. /\ program \in Programs /\ todo \in [Threads -> Seq(Steps)]
      /\ \A t \in Threads : Guarding(todo[t])
  BY DEF SafeInv, TypeOK, TraceInv
<1>2. ASSUME NEW t \in Threads, NEW step, At(t, step)
      PROVE  step \in Guards \/ (step = "val" /\ program.macro = "CHECK_NOTNULL")
  BY <1>1, <1>2 DEF At, Guarding
<1> USE DEF rest, site, threads, output, history
<1>3. ASSUME NEW t \in Threads, Skip(t) \/ EvaluateVal(t)
      PROVE  /\ UNCHANGED <<messages, occurrences, mod_n, vlocal, process>>
             /\ evaluated' => evaluated \/ program.macro = "CHECK_NOTNULL"
             /\ todo' = [todo EXCEPT ![t] = <<>>]
  <2>1. CASE Skip(t)
    BY <2>1 DEF Skip, Continue
  <2>2. CASE EvaluateVal(t)
    <3>1. program.macro = "CHECK_NOTNULL"
      BY <1>2, <2>2 DEF EvaluateVal, Guards
    <3> QED  BY <2>2, <3>1 DEF EvaluateVal, Continue
  <2> QED  BY <1>3, <2>1, <2>2
<1>4. ASSUME NEW t \in Threads, Execute(t)
      PROVE  UNCHANGED <<messages, occurrences, mod_n, vlocal, process, evaluated>>
  BY <1>4 DEF Execute
<1>5. ASSUME NEW f \in {"v", "module"}, NEW l \in Levels, SetVLOGLevel(f, l)
      PROVE  UNCHANGED <<messages, occurrences, mod_n, vlocal, process, evaluated, todo>>
  BY <1>5 DEF SetVLOGLevel
<1>6. ASSUME NEW t \in Threads,
             \/ CountingStep(t) \/ VerboseStep(t) \/ Condition(t)
             \/ SendMessage(t) \/ KeepMessage(t) \/ DiscardMessage(t)
      PROVE  FALSE
  <2>1. \E step : At(t, step) /\ step \notin Guards /\ step # "val"
    BY <1>6 DEF CountingStep, VerboseStep, Condition, SendMessage, KeepMessage, DiscardMessage,
              LoadOccurrences, StoreOccurrences, LoadMod, StoreMod, WrapMod, TestMod,
              StoreModulo, LoadFirst, TestFirst, TestFlag, TestSite, TestSiteUninitialized,
              InitVLOG3__, Guards
  <2> QED  BY <1>2, <2>1
<1> QED  BY <1>3, <1>4, <1>5, <1>6 DEF Next

(* Each of NDEBUG's own expansions of a debug macro leaves no trace.       *)
THEOREM NoTrace == Spec => []DebugLeavesNoTrace
<1>1. Init => TraceInv
  BY DEF Init, TraceInv, DebugLeavesNoTrace, Guarding
<1>2. SafeInv /\ TraceInv /\ [Next]_vars => TraceInv'
  <2> SUFFICES ASSUME SafeInv, TraceInv, [Next]_vars, Vanishing' PROVE TraceInv'
    BY DEF TraceInv
  <2>1. program' = program /\ Vanishing
    BY BuildStays DEF Vanishing
  <2>2. /\ DebugLeavesNoTrace /\ \A t \in Threads : Guarding(todo[t])
        /\ todo \in [Threads -> Seq(Steps)] /\ program \in Programs
    BY <2>1 DEF TraceInv, SafeInv, TypeOK
  <2>3. CASE UNCHANGED vars
    BY <2>1, <2>2, <2>3 DEF TraceInv, DebugLeavesNoTrace, Guarding, vars, rest, site, threads,
                          history, output
  <2>4. CASE Next
    <3>1. /\ UNCHANGED <<messages, occurrences, mod_n, vlocal, process>>
          /\ evaluated' => evaluated \/ program.macro = "CHECK_NOTNULL"
      BY <2>1, <2>4, GuardedStep
    <3>2. DebugLeavesNoTrace'
      BY <2>1, <2>2, <3>1 DEF DebugLeavesNoTrace
    <3>3. ASSUME NEW t \in Threads, Execute(t), NEW u \in Threads  PROVE Guarding(todo[u])'
      <4> DEFINE all == Append(Expansion.steps, "stream")
      <4>1. all[1] \in Guards \/ (all[1] = "val" /\ program.macro = "CHECK_NOTNULL")
        BY <2>1, <2>2, VanishingFacts
      <4>2. todo' = [todo EXCEPT ![t] = all]
        BY <3>3 DEF Execute
      <4> HIDE DEF all
      <4> QED  BY <2>1, <2>2, <4>1, <4>2 DEF Guarding
    <3>4. ASSUME NEW t \in Threads, todo' = [todo EXCEPT ![t] = <<>>] \/ todo' = todo,
                 NEW u \in Threads
          PROVE  Guarding(todo[u])'
      BY <2>1, <2>2, <3>4 DEF Guarding
    <3>5. \A u \in Threads : Guarding(todo[u])'
      BY <2>1, <2>4, <3>3, <3>4, GuardedStep
    <3> QED  BY <3>2, <3>5 DEF TraceInv
  <2> QED  BY <2>3, <2>4
<1>3. TraceInv => DebugLeavesNoTrace
  BY DEF TraceInv, DebugLeavesNoTrace
<1> QED  BY <1>1, <1>2, <1>3, SafeInvInit, SafeInvStep, PTL DEF Spec

-----------------------------------------------------------------------------
(* A FATAL statement that comes to its message ends the process, unless it *)
(* is one of the two forms that take the message elsewhere.                *)
THEOREM FatalEnds == Spec => FatalNeverReturns
<1> DEFINE Step == \A t \in Threads :
              At(t, "stream") /\ todo'[t] = <<>> /\ Expansion.severity = FATAL /\ ~Returns =>
                process' # "running"
<1>1. SafeInv /\ [Next]_vars => [Step]_vars
  <2> SUFFICES ASSUME SafeInv, Next, NEW t \in Threads, At(t, "stream"), todo'[t] = <<>>,
                      Expansion.severity = FATAL, ~Returns
               PROVE  process' # "running"
    OBVIOUS
  <2>1. /\ program \in Programs /\ todo \in [Threads -> Seq(Steps)]
        /\ todo[t] # <<>> /\ todo'[t] # todo[t]
    BY DEF SafeInv, TypeOK, At
  <2>2. Expansion.stream \in {"message", "null_fatal", "none"}
    BY <2>1, ExpansionFacts DEF Sound, Expanded
  <2>4. CASE SendMessage(t)
    BY <2>2, <2>4 DEF SendMessage
  <2>5. CASE KeepMessage(t) \/ DiscardMessage(t)
    BY <2>2, <2>5 DEF KeepMessage, DiscardMessage
  <2>6. ASSUME NEW u \in Threads,
               \/ CountingStep(u) \/ VerboseStep(u) \/ Execute(u)
               \/ Skip(u) \/ EvaluateVal(u) \/ Condition(u)
        PROVE  FALSE
    <3>1. CASE u = t
      BY <2>6, <3>1 DEF CountingStep, VerboseStep, Skip, EvaluateVal, Condition, Execute,
              LoadOccurrences, StoreOccurrences, LoadMod, StoreMod, WrapMod, TestMod,
              StoreModulo, LoadFirst, TestFirst, TestFlag, TestSite, TestSiteUninitialized,
              InitVLOG3__, At, Guards
    <3>2. CASE u # t
      BY <2>1, <2>6, <3>2 DEF CountingStep, VerboseStep, Skip, EvaluateVal, Condition, Execute,
              LoadOccurrences, StoreOccurrences, LoadMod, StoreMod, WrapMod, TestMod,
              StoreModulo, LoadFirst, TestFirst, TestFlag, TestSite, TestSiteUninitialized,
              InitVLOG3__, At, Continue
    <3> QED  BY <3>1, <3>2
  <2>7. ASSUME NEW u \in Threads, u # t,
               SendMessage(u) \/ KeepMessage(u) \/ DiscardMessage(u)
        PROVE  FALSE
    BY <2>1, <2>7 DEF SendMessage, KeepMessage, DiscardMessage, Continue
  <2>8. CASE \E f \in {"v", "module"}, l \in Levels : SetVLOGLevel(f, l)
    BY <2>1, <2>8 DEF SetVLOGLevel, threads
  <2> QED  BY <2>4, <2>5, <2>6, <2>7, <2>8 DEF Next
<1>2. SafeInv /\ [Next]_vars => [\A t \in Threads :
              At(t, "stream") /\ todo'[t] = <<>> /\ Expansion.severity = FATAL /\ ~Returns =>
                process' # "running"]_vars
  BY <1>1
<1> QED  BY <1>2, SafeInvInit, SafeInvStep, PTL DEF Spec, FatalNeverReturns

-----------------------------------------------------------------------------
(* A VLOG follows its flag.  The inductive part: while no two threads have *)
(* been in the statement at once, a thread that comes to the pointer of an *)
(* initialised site has found that flag high enough since it started.      *)
Alone ==
  /\ \A t, u \in Threads : todo[t] # <<>> /\ todo[u] # <<>> => t = u
  /\ \A t \in Threads : todo[t] # <<>> =>
       /\ flags \in seen[t]
       /\ todo[t][1] = "InitVLOG3__" => vlocal = "uninitialized"
       /\ todo[t][1] = "pointer" /\ vlocal # "uninitialized" =>
            \E f \in seen[t] : f[vlocal] >= program.level
AloneInv == ~overlapped => Alone

(* A step of a thread inside its statement, by the step it is at.          *)
Advances(t) ==
  /\ todo[t] # <<>> /\ UNCHANGED <<flags, seen, overlapped>>
  /\ \A u \in Threads : u # t => todo'[u] = todo[u]
  /\ todo[t][1] # "InitVLOG3__" => vlocal' = vlocal
  /\ todo[t][1] = "FLAGS_v" =>
       todo'[t] = IF flags.v >= program.level THEN Tail(todo[t]) ELSE <<>>
  /\ todo[t][1] = "flag" =>
       todo'[t] = IF Flag(vlocal) >= program.level THEN Tail(todo[t]) ELSE <<>>
  /\ todo[t][1] = "pointer" =>
       todo'[t] = IF vlocal # "uninitialized" THEN Tail(todo[t])
                  ELSE <<"InitVLOG3__">> \o Tail(todo[t])
  /\ todo[t][1] = "InitVLOG3__" =>
       todo'[t] = IF flags[Controlling(flags)] >= program.level THEN Tail(todo[t]) ELSE <<>>
  /\ todo[t][1] \notin {"FLAGS_v", "flag", "pointer", "InitVLOG3__"} =>
       \/ todo'[t] \in {<<>>, Tail(todo[t])}
       \/ todo[t][1] = "load_first" /\ todo'[t] = Tail(Tail(todo[t]))

LEMMA StepsOfThreads ==
  ASSUME SafeInv, Next
  PROVE  \/ \E t \in Threads : Execute(t) \/ Advances(t)
         \/ \E f \in {"v", "module"}, l \in Levels : SetVLOGLevel(f, l)
         \/ UNCHANGED <<todo, flags, seen, vlocal, overlapped>>
<1>t. todo \in [Threads -> Seq(Steps)]
  BY DEF SafeInv, TypeOK
<1>h. \A t \in Threads : todo[t] # <<>> => Head(todo[t]) = todo[t][1]
  BY <1>t
<1> USE DEF rest, site, threads, output, history
<1>1. ASSUME NEW t \in Threads, CountingStep(t), ~LoadFirst(t)  PROVE Advances(t)
  <2>1. /\ todo[t] # <<>> /\ UNCHANGED <<flags, seen, overlapped, vlocal>>
        /\ todo[t][1] \notin {"FLAGS_v", "flag", "pointer", "InitVLOG3__"}
    BY <1>h, <1>1 DEF CountingStep, LoadOccurrences, StoreOccurrences, LoadMod, StoreMod,
              WrapMod, TestMod, StoreModulo, TestFirst, At
  <2>2. \E x : todo' = [todo EXCEPT ![t] = x] /\ x \in {<<>>, Tail(todo[t])}
    BY <1>1 DEF CountingStep, LoadOccurrences, StoreOccurrences, LoadMod, StoreMod,
                WrapMod, TestMod, StoreModulo, TestFirst, Continue
  <2> QED  BY <1>t, <2>1, <2>2 DEF Advances
<1>2. ASSUME NEW t \in Threads, LoadFirst(t)  PROVE Advances(t)
  <2>1. /\ todo[t] # <<>> /\ UNCHANGED <<flags, seen, overlapped, vlocal>>
        /\ todo[t][1] = "load_first"
    BY <1>h, <1>2 DEF LoadFirst, At
  <2>2. \E x : todo' = [todo EXCEPT ![t] = x] /\ x \in {Tail(todo[t]), Tail(Tail(todo[t]))}
    BY <1>2 DEF LoadFirst
  <2> QED  BY <1>t, <2>1, <2>2 DEF Advances
<1>3. ASSUME NEW t \in Threads,
             \/ Skip(t) \/ EvaluateVal(t) \/ Condition(t)
             \/ SendMessage(t) \/ KeepMessage(t) \/ DiscardMessage(t)
      PROVE  Advances(t)
  <2>1. /\ todo[t] # <<>> /\ UNCHANGED <<flags, seen, overlapped, vlocal>>
        /\ todo[t][1] \in {"condition", "stream", "val"} \cup Guards
    BY <1>h, <1>3 DEF Skip, EvaluateVal, Condition, SendMessage, KeepMessage, DiscardMessage, At
  <2>2. \E x : todo' = [todo EXCEPT ![t] = x] /\ x \in {<<>>, Tail(todo[t])}
    BY <1>3 DEF Skip, EvaluateVal, Condition, SendMessage, KeepMessage, DiscardMessage, Continue
  <2>3. todo[t][1] \notin {"FLAGS_v", "flag", "pointer", "InitVLOG3__", "load_first"}
    BY <2>1 DEF Guards
  <2> QED  BY <1>t, <2>1, <2>2, <2>3 DEF Advances
<1>4. ASSUME NEW t \in Threads, TestFlag(t)  PROVE Advances(t)
  <2>1. /\ todo[t] # <<>> /\ UNCHANGED <<flags, seen, overlapped, vlocal>>
        /\ todo[t][1] = "FLAGS_v"
    BY <1>h, <1>4 DEF TestFlag, At
  <2>2. todo' = [todo EXCEPT ![t] = IF flags.v >= program.level THEN Tail(todo[t]) ELSE <<>>]
    BY <1>4, Zenon DEF TestFlag, Continue
  <2> QED  BY <1>t, <2>1, <2>2 DEF Advances
<1>5. ASSUME NEW t \in Threads, TestSite(t)  PROVE Advances(t)
  <2>1. /\ todo[t] # <<>> /\ UNCHANGED <<flags, seen, overlapped, vlocal>>
        /\ todo[t][1] = "flag"
    BY <1>h, <1>5 DEF TestSite, At
  <2>2. todo' = [todo EXCEPT ![t] = IF Flag(vlocal) >= program.level THEN Tail(todo[t])
                                    ELSE <<>>]
    BY <1>5, Zenon DEF TestSite, Continue
  <2> QED  BY <1>t, <2>1, <2>2 DEF Advances
<1>6. ASSUME NEW t \in Threads, TestSiteUninitialized(t)  PROVE Advances(t)
  <2>1. /\ todo[t] # <<>> /\ UNCHANGED <<flags, seen, overlapped, vlocal>>
        /\ todo[t][1] = "pointer"
    BY <1>h, <1>6 DEF TestSiteUninitialized, At
  <2>2. todo' = [todo EXCEPT ![t] = IF vlocal # "uninitialized" THEN Tail(todo[t])
                                    ELSE <<"InitVLOG3__">> \o Tail(todo[t])]
    BY <1>6, Zenon DEF TestSiteUninitialized
  <2> QED  BY <1>t, <2>1, <2>2 DEF Advances
<1>7. ASSUME NEW t \in Threads, InitVLOG3__(t)  PROVE Advances(t)
  <2>1. /\ todo[t] # <<>> /\ UNCHANGED <<flags, seen, overlapped>>
        /\ todo[t][1] = "InitVLOG3__"
    BY <1>h, <1>7 DEF InitVLOG3__, At
  <2>2. todo' = [todo EXCEPT ![t] = IF flags[Controlling(flags)] >= program.level
                                    THEN Tail(todo[t]) ELSE <<>>]
    BY <1>7, Zenon DEF InitVLOG3__, Continue
  <2> QED  BY <1>t, <2>1, <2>2 DEF Advances
<1> QED  BY <1>1, <1>2, <1>3, <1>4, <1>5, <1>6, <1>7 DEF Next, VerboseStep

LEMMA AloneInvStep == SafeInv /\ AloneInv /\ [Next]_vars => AloneInv'
<1> SUFFICES ASSUME SafeInv, AloneInv, [Next]_vars, ~overlapped'  PROVE Alone'
  BY DEF AloneInv
<1>t. /\ program \in Programs /\ todo \in [Threads -> Seq(Steps)]
      /\ flags \in [v : Levels, module : Levels \cup {NoPattern}]
      /\ vlocal \in {"uninitialized", "v", "module"}
      /\ seen \in [Threads -> SUBSET [v : Levels, module : Levels \cup {NoPattern}]]
  BY DEF SafeInv, TypeOK
<1>p. program' = program
  BY BuildStays
<1>a. ~overlapped => Alone
  BY DEF AloneInv
<1>1. ASSUME NEW e \in Threads, Execute(e)  PROVE Alone'
  <2>1. /\ ~overlapped /\ \A u \in Threads : todo[u] = <<>>
        /\ seen' = [seen EXCEPT ![e] = {flags}] /\ flags' = flags
        /\ todo' = [todo EXCEPT ![e] = Append(Expansion.steps, "stream")]
    BY <1>1 DEF Execute
  <2>2. Append(Expansion.steps, "stream")[1] \notin {"pointer", "InitVLOG3__"}
    BY <1>t, ExpansionFacts DEF Sound, Expanded, Leads
  <2>3. \A u \in Threads : u # e => todo'[u] = <<>>
    BY <1>t, <2>1
  <2>4. todo'[e] # <<>> => todo'[e][1] \notin {"pointer", "InitVLOG3__"}
    BY <1>t, <2>1, <2>2
  <2>5. flags' \in seen'[e]
    BY <1>t, <2>1
  <2> QED  BY <2>3, <2>4, <2>5 DEF Alone
<1>2. ASSUME NEW e \in Threads, Advances(e)  PROVE Alone'
  <2>1. /\ ~overlapped /\ todo[e] # <<>> /\ UNCHANGED <<flags, seen>>
        /\ \A u \in Threads : u # e => todo'[u] = todo[u]
    BY <1>2 DEF Advances
  <2>2. /\ \A u \in Threads : u # e => todo'[u] = <<>>
        /\ flags \in seen[e]
    BY <1>a, <2>1 DEF Alone
  <2>3. todo[e] \in Seq(BuildSteps) /\ Shape(todo[e])
    BY DEF SafeInv, StepInv
  <2> DEFINE r == Tail(todo[e])
  <2>4. /\ r \in Seq(BuildSteps) /\ Shape(r)
        /\ r # <<>> => r[1] # "InitVLOG3__"
        /\ r # <<>> /\ r[1] = "pointer" => todo[e][1] = "flag"
        /\ todo[e][1] = "load_first" => r # <<>> /\ r[1] = "store_occ"
    BY <2>1, <2>3, ShapeTail
  <2>5. todo[e][1] = "load_first" =>
          (Tail(r) # <<>> => Tail(r)[1] \notin {"pointer", "InitVLOG3__"})
    BY <2>4, ShapeTail
  <2>6. CASE todo[e][1] = "flag"
    <3>1. vlocal' = vlocal /\ todo'[e] = IF Flag(vlocal) >= program.level THEN r ELSE <<>>
      BY <1>2, <2>6 DEF Advances
    <3>2. ASSUME todo'[e] # <<>>, vlocal # "uninitialized"
          PROVE  \E f \in seen[e] : f[vlocal] >= program.level
      BY <2>2, <3>1, <3>2 DEF Flag
    <3>3. todo'[e] # <<>> => todo'[e][1] # "InitVLOG3__"
      BY <2>4, <3>1
    <3> HIDE DEF r
    <3> QED  BY <1>p, <2>1, <2>2, <3>1, <3>2, <3>3 DEF Alone
  <2>7. CASE todo[e][1] = "pointer"
    <3>1. /\ vlocal' = vlocal
          /\ vlocal # "uninitialized" => todo'[e] = r
      BY <1>2, <2>7 DEF Advances
    <3>2. vlocal # "uninitialized" /\ todo'[e] # <<>> =>
            todo'[e][1] \notin {"pointer", "InitVLOG3__"}
      BY <2>4, <2>7, <3>1
    <3> QED  BY <2>1, <2>2, <3>1, <3>2 DEF Alone
  <2>8. CASE todo[e][1] \notin {"flag", "pointer"}
    <3>1. todo'[e] \in {<<>>, r} \/ (todo[e][1] = "load_first" /\ todo'[e] = Tail(r))
      BY <1>2, <2>8 DEF Advances
    <3>2. todo'[e] # <<>> => todo'[e][1] \notin {"pointer", "InitVLOG3__"}
      <4>1. r # <<>> => r[1] \notin {"pointer", "InitVLOG3__"}
        BY <2>4, <2>8
      <4>2. todo[e][1] = "load_first" /\ todo'[e] = Tail(r) /\ todo'[e] # <<>> =>
              todo'[e][1] \notin {"pointer", "InitVLOG3__"}
        BY <2>5
      <4> HIDE DEF r
      <4> QED  BY <3>1, <4>1, <4>2
    <3> QED  BY <2>1, <2>2, <3>2 DEF Alone
  <2> QED  BY <2>6, <2>7, <2>8
<1>3. ASSUME NEW f \in {"v", "module"}, NEW l \in Levels, SetVLOGLevel(f, l)  PROVE Alone'
  <2>1. /\ todo' = todo /\ vlocal' = vlocal /\ overlapped' = overlapped
        /\ seen' = [t \in Threads |-> IF todo[t] = <<>> THEN seen[t]
                                      ELSE seen[t] \cup {flags'}]
    BY <1>3 DEF SetVLOGLevel, threads, site, history
  <2>2. ASSUME NEW t \in Threads, todo[t] # <<>>  PROVE seen'[t] = seen[t] \cup {flags'}
    BY <2>1, <2>2
  <2> QED  BY <1>a, <1>p, <2>1, <2>2 DEF Alone
<1>4. CASE UNCHANGED <<todo, flags, seen, vlocal, overlapped>>
  BY <1>a, <1>p, <1>4 DEF Alone
<1>5. CASE UNCHANGED vars
  BY <1>4, <1>5 DEF vars, rest, threads, site, history
<1>6. ASSUME Next  PROVE Alone'
  <2>1. \/ \E t \in Threads : Execute(t) \/ Advances(t)
        \/ \E f \in {"v", "module"}, l \in Levels : SetVLOGLevel(f, l)
        \/ UNCHANGED <<todo, flags, seen, vlocal, overlapped>>
    BY <1>6, StepsOfThreads
  <2> QED  BY <1>1, <1>2, <1>3, <1>4, <2>1, Zenon
<1> QED  BY <1>5, <1>6

(* The flag that decides, in one of the states the flags were in.          *)
Control(f) ==
  IF ~program.gnu THEN f.v
  ELSE IF vlocal = "uninitialized" THEN f[Controlling(f)] ELSE f[vlocal]

LEMMA DecidingStep ==
  ASSUME SafeInv, AloneInv, Next, NEW t \in Threads, Deciding(t), ~overlapped',
         todo'[t] # todo[t]
  PROVE  /\ todo'[t] = <<>> => \E f \in seen[t] : Control(f) < program.level
         /\ todo'[t] # <<>> /\ todo'[t][1] \in {"stream", "load_mod"} =>
              \E f \in seen[t] : Control(f) >= program.level
<1>t. /\ program \in Programs /\ todo \in [Threads -> Seq(Steps)]
      /\ flags \in [v : Levels, module : Levels \cup {NoPattern}]
      /\ vlocal \in {"uninitialized", "v", "module"}
      /\ program.level \in Int /\ program.level <= Uninitialized
      /\ Uninitialized \in Int /\ Levels \subseteq Int
  BY LogAssumption DEF SafeInv, TypeOK, Program
<1>h. /\ todo[t] # <<>> /\ Head(todo[t]) = todo[t][1]
      /\ todo[t][1] \in {"FLAGS_v", "flag", "pointer", "InitVLOG3__"}
  BY <1>t DEF Deciding, At
<1>1. Advances(t)
  <2>1. ASSUME NEW u \in Threads, Execute(u)  PROVE FALSE
    BY <1>t, <1>h, <2>1 DEF Execute
  <2>2. ASSUME NEW f \in {"v", "module"}, NEW l \in Levels, SetVLOGLevel(f, l)  PROVE FALSE
    BY <2>2 DEF SetVLOGLevel, threads
  <2>3. ASSUME NEW u \in Threads, Advances(u)  PROVE u = t
    BY <2>3 DEF Advances
  <2> QED  BY <2>1, <2>2, <2>3, StepsOfThreads
<1>2. /\ Alone /\ flags \in seen[t]
  BY <1>1, <1>h DEF AloneInv, Alone, Advances
<1>3. todo[t] \in Seq(BuildSteps) /\ Shape(todo[t])
  BY DEF SafeInv, StepInv
<1> DEFINE r == Tail(todo[t])
<1>4. /\ r # <<>> /\ r[1] # "InitVLOG3__"
      /\ todo[t][1] = "flag" => r[1] = "pointer"
  BY <1>h, <1>3, ShapeTail
<1>5. todo[t][1] \in BuildSteps
  BY <1>3, <1>h
<1> HIDE DEF r
<1>6. CASE todo[t][1] = "FLAGS_v"
  <2>1. ~program.gnu
    BY <1>5, <1>6 DEF BuildSteps
  <2>2. Control(flags) = flags.v /\ flags.v \in Int
    BY <1>t, <2>1 DEF Control
  <2>3. todo'[t] = IF flags.v >= program.level THEN r ELSE <<>>
    BY <1>1, <1>6 DEF Advances, r
  <2> QED  BY <1>t, <1>2, <1>4, <2>2, <2>3
<1>7. CASE todo[t][1] = "flag"
  <2>1. program.gnu
    BY <1>5, <1>7 DEF BuildSteps
  <2>2. todo'[t] = IF Flag(vlocal) >= program.level THEN r ELSE <<>>
    BY <1>1, <1>7 DEF Advances, r
  <2>3. ASSUME todo'[t] = <<>>  PROVE Control(flags) < program.level
    <3>1. ~(Flag(vlocal) >= program.level)
      BY <1>4, <2>2, <2>3
    <3>2. vlocal # "uninitialized" /\ Flag(vlocal) = flags[vlocal]
      BY <1>t, <3>1 DEF Flag
    <3>3. Control(flags) = flags[vlocal] /\ flags[vlocal] \in Int
      <4>1. vlocal \in {"v", "module"} /\ NoPattern \in Int
        BY <1>t, <3>2 DEF NoPattern
      <4>2. Control(flags) = flags[vlocal]
        BY <2>1, <3>2 DEF Control
      <4> QED  BY <1>t, <4>1, <4>2
    <3> QED  BY <1>t, <3>1, <3>2, <3>3
  <2> QED  BY <1>2, <1>4, <1>7, <2>2, <2>3
<1>8. CASE todo[t][1] = "pointer"
  <2>1. program.gnu
    BY <1>5, <1>8 DEF BuildSteps
  <2>2. todo'[t] = IF vlocal # "uninitialized" THEN r ELSE <<"InitVLOG3__">> \o r
    BY <1>1, <1>8 DEF Advances, r
  <2>3. CASE vlocal # "uninitialized"
    <3>1. \E f \in seen[t] : f[vlocal] >= program.level
      BY <1>2, <1>h, <1>8, <2>3 DEF Alone
    <3> QED  BY <1>4, <2>1, <2>2, <2>3, <3>1 DEF Control
  <2>4. CASE vlocal = "uninitialized"
    <3>1. todo'[t] # <<>> /\ todo'[t][1] = "InitVLOG3__"
      <4>1. "InitVLOG3__" \in BuildSteps
        BY <2>1 DEF BuildSteps, Steps
      <4> QED  BY <1>h, <1>3, <1>8, <2>2, <2>4, <4>1, ShapeInit DEF r
    <3> QED  BY <3>1
  <2> QED  BY <2>3, <2>4
<1>9. CASE todo[t][1] = "InitVLOG3__"
  <2>1. program.gnu /\ vlocal = "uninitialized"
    BY <1>2, <1>5, <1>h, <1>9 DEF BuildSteps, Alone
  <2>2. todo'[t] = IF flags[Controlling(flags)] >= program.level THEN r ELSE <<>>
    BY <1>1, <1>9 DEF Advances, r
  <2>3. Control(flags) = flags[Controlling(flags)] /\ flags[Controlling(flags)] \in Int
    BY <1>t, <2>1 DEF Control, Controlling, NoPattern
  <2> QED  BY <1>t, <1>2, <1>4, <2>2, <2>3
<1> QED  BY <1>h, <1>6, <1>7, <1>8, <1>9

(* Unless two threads have been in the statement at once, a VLOG says what *)
(* its flag said at some time since it began: the controlling flag of a    *)
(* site that is not initialised yet, and the flag it points to afterwards. *)
THEOREM FlagFollowed == Spec => VerboseFollowsFlag
<1>1. Init => AloneInv
  BY ZenonT(60) DEF Init, AloneInv, Alone
<1>2. SafeInv /\ AloneInv /\ [Next]_vars =>
        [\A t \in Threads :
           Deciding(t) /\ ~overlapped' /\ todo'[t] # todo[t] =>
             LET control(f) == IF ~program.gnu THEN f.v
                               ELSE IF vlocal = "uninitialized" THEN f[Controlling(f)]
                               ELSE f[vlocal]
             IN  /\ todo'[t] = <<>> => \E f \in seen[t] : control(f) < program.level
                 /\ todo'[t] # <<>> /\ Head(todo'[t]) \in {"stream", "load_mod"} =>
                      \E f \in seen[t] : control(f) >= program.level]_vars
  <2> SUFFICES ASSUME SafeInv, AloneInv, Next, NEW t \in Threads, Deciding(t), ~overlapped',
                      todo'[t] # todo[t]
               PROVE  /\ todo'[t] = <<>> => \E f \in seen[t] : Control(f) < program.level
                      /\ todo'[t] # <<>> /\ Head(todo'[t]) \in {"stream", "load_mod"} =>
                           \E f \in seen[t] : Control(f) >= program.level
    BY DEF Control
  <2>1. todo' \in [Threads -> Seq(Steps)]
    BY SafeInvStep DEF SafeInv, TypeOK
  <2>2. todo'[t] # <<>> => Head(todo'[t]) = todo'[t][1]
    BY <2>1
  <2>3. /\ todo'[t] = <<>> => \E f \in seen[t] : Control(f) < program.level
        /\ todo'[t] # <<>> /\ todo'[t][1] \in {"stream", "load_mod"} =>
             \E f \in seen[t] : Control(f) >= program.level
    BY DecidingStep
  <2> QED  BY <2>2, <2>3, Zenon
<1> QED  BY <1>1, <1>2, AloneInvStep, SafeInvInit, SafeInvStep, PTL
         DEF Spec, VerboseFollowsFlag

-----------------------------------------------------------------------------
(* What a container looks like in the text.                                *)

(* The loop of PrintSequence, one round at a time: its function is unique  *)
(* up to every round, so there is one.                                     *)
Round(s, out, k) == IF k = 0 THEN <<>> ELSE out[k - 1] \o Piece(s, k)

LEMMA PrintedRounds ==
  ASSUME NEW s, NEW limit, Least(Len(s), limit) \in Nat
  PROVE  \E out : /\ out = [k \in 0 .. Least(Len(s), limit) |-> Round(s, out, k)]
                  /\ Printed(s, limit) = out[Least(Len(s), limit)] \o
                       IF Len(s) > limit THEN <<" ", ".", ".", ".">> ELSE <<>>
<1> DEFINE N == Least(Len(s), limit)
           Loop(m) == \E f : f = [k \in 0 .. m |-> Round(s, f, k)]
           A == {m \in Nat : Loop(m)}
<1>1. 0 \in A
  <2>1. [k \in 0 .. 0 |-> <<>>] = [k \in 0 .. 0 |-> Round(s, [i \in 0 .. 0 |-> <<>>], k)]
    BY DEF Round
  <2> QED  BY <2>1
<1>2. ASSUME NEW m \in Nat, m \in A  PROVE m + 1 \in A
  <2>1. PICK f : f = [k \in 0 .. m |-> Round(s, f, k)]
    BY <1>2
  <2> DEFINE g == [k \in 0 .. m + 1 |-> IF k <= m THEN f[k] ELSE Round(s, f, k)]
  <2>2. ASSUME NEW k \in 0 .. m + 1  PROVE g[k] = Round(s, g, k)
    <3>1. k # 0 => k - 1 \in 0 .. m /\ g[k - 1] = f[k - 1]
      OBVIOUS
    <3>2. Round(s, g, k) = Round(s, f, k)
      BY <3>1 DEF Round
    <3>3. k <= m => f[k] = Round(s, f, k)
      BY <2>1
    <3> QED  BY <3>2, <3>3
  <2>3. g = [k \in 0 .. m + 1 |-> Round(s, g, k)]
    BY <2>2
  <2> HIDE DEF g
  <2>4. Loop(m + 1)
    BY <2>3
  <2> QED  BY <2>4
<1>3. Nat \subseteq A
  <2> HIDE DEF A
  <2> QED  BY <1>1, <1>2, SetInduction
<1>4. PICK f : f = [k \in 0 .. N |-> Round(s, f, k)]
  BY <1>3
<1> DEFINE out == CHOOSE h : h = [k \in 0 .. N |-> Round(s, h, k)]
<1>5. out = [k \in 0 .. N |-> Round(s, out, k)]
  BY <1>4
<1>6. Printed(s, limit) = out[N] \o IF Len(s) > limit THEN <<" ", ".", ".", ".">> ELSE <<>>
  BY DEF Printed, Round
<1> QED  BY <1>5, <1>6

(* How many of the first k entries of a text are in a set.                 *)
Rank(t, E, k) == Cardinality({j \in 1 .. k : t[j] \in E})
One(yes) == IF yes THEN 1 ELSE 0

LEMMA RankFacts ==
  ASSUME NEW t, NEW E, NEW k \in Nat
  PROVE  /\ Rank(t, E, k) \in Nat /\ Rank(t, E, 0) = 0
         /\ Rank(t, E, k + 1) = Rank(t, E, k) + One(t[k + 1] \in E)
<1> DEFINE D(i) == {j \in 1 .. i : t[j] \in E}
<1>1. IsFiniteSet(D(k)) /\ Cardinality(D(k)) \in Nat
  <2>1. IsFiniteSet(1 .. k) /\ D(k) \subseteq 1 .. k
    BY FS_Interval
  <2> QED  BY <2>1, FS_Subset, FS_CardinalityType
<1>2. D(0) = {} /\ Cardinality({}) = 0
  BY FS_EmptySet
<1>3. D(k + 1) = IF t[k + 1] \in E THEN D(k) \cup {k + 1} ELSE D(k)
  OBVIOUS
<1>4. k + 1 \notin D(k)
  OBVIOUS
<1> HIDE DEF D
<1>5. Cardinality(D(k) \cup {k + 1}) = Cardinality(D(k)) + 1
  BY <1>1, <1>4, FS_AddElement
<1>6. Cardinality(D(k + 1)) = Cardinality(D(k)) + IF t[k + 1] \in E THEN 1 ELSE 0
  BY <1>1, <1>3, <1>5
<1> QED  BY <1>1, <1>2, <1>6 DEF Rank, One, D

(* Entries that are not in the set do not count, and those behind do not   *)
(* matter.                                                                 *)
LEMMA RankStays ==
  ASSUME NEW t, NEW u, NEW E, NEW a \in Nat, NEW b \in Nat, a <= b,
         \A j \in 1 .. a : t[j] = u[j], \A j \in a + 1 .. b : u[j] \notin E
  PROVE  Rank(u, E, b) = Rank(t, E, a)
<1>1. {j \in 1 .. b : u[j] \in E} = {j \in 1 .. a : t[j] \in E}
  OBVIOUS
<1> QED  BY <1>1 DEF Rank

Containers == Seq([first : STRING, second : STRING])
Elements(data) == {data[i].first : i \in DOMAIN data}

(* The provers do not know that a literal is in STRING, and lose the types *)
(* of the other strings where one is compared with a literal.              *)
Strings == STRING \cup {"(", ",", " ", ")", "."}
Dot     == "."
Space   == " "

(* One round prints one element and no dot.                                *)
OneElement(data, p, i) ==
  /\ p \in Seq(Strings) /\ \A k \in 1 .. Len(p) : p[k] # Dot
  /\ \E j \in 1 .. Len(p) :
       p[j] = data[i].first /\ \A k \in 1 .. Len(p) : p[k] \in Elements(data) => k = j

LEMMA PrintsOne ==
  ASSUME NEW data \in Containers, TellApart(data), NEW i \in 1 .. Len(data)
  PROVE  OneElement(data, PrintElement(data[i]), i) /\ Space \notin Elements(data)
<1> DEFINE a == data[i].first
           b == data[i].second
           p == PrintElement(data[i])
           E == Elements(data)
           S == Strings
           d == Dot
           open == "("
           comma == ","
           close == ")"
<1>1. data[i] \in [first : STRING, second : STRING] /\ i \in DOMAIN data
  BY ElementOfSeq, LenProperties DEF Containers
<1>2. /\ open \in S /\ a \in S /\ comma \in S /\ Space \in S /\ b \in S /\ close \in S
      /\ d \notin {open, a, comma, Space, b, close}
  BY <1>1 DEF TellApart, Punctuation, Strings, Dot, Space
<1>3. open \notin E /\ comma \notin E /\ Space \notin E /\ b \notin E /\ close \notin E
  <2> SUFFICES ASSUME NEW k \in DOMAIN data
               PROVE  data[k].first \notin {open, comma, Space, b, close}
    BY DEF Elements
  <2> QED  BY <1>1 DEF TellApart, Punctuation, Space
<1>4. p = IF b = "" THEN <<a>> ELSE <<open, a, comma, Space, b, close>>
  BY DEF PrintElement, Space
<1> HIDE DEF p, a, b, E, S, d, open, comma, close
<1>5. CASE b = ""
  <2>1. p = <<a>> /\ <<>> \in Seq(S)
    BY <1>4, <1>5, EmptySeq
  <2>2. p \in Seq(S) /\ Len(p) = 1 /\ p[1] = a
    BY <1>2, <2>1, Singles
  <2>3. 1 \in 1 .. Len(p) /\ \A k \in 1 .. Len(p) : k = 1
    BY <2>2
  <2>4. a # d
    BY <1>2
  <2>5. /\ \A k \in 1 .. Len(p) : p[k] # d
        /\ \A k \in 1 .. Len(p) : p[k] \in E => k = 1
    BY <2>2, <2>3, <2>4
  <2> QED  BY <1>3, <2>2, <2>3, <2>5 DEF OneElement, p, a, E, S, d
<1>6. CASE b # ""
  <2>1. p = <<open, a, comma, Space, b, close>>
    BY <1>4, <1>6
  <2>2. p \in Seq(S)
    BY <1>2, <2>1
  <2>3. Len(p) = 6 /\ p[2] = a
    BY <2>1
  <2>4. \A k \in 1 .. 6 : p[k] # d
    BY <1>2, <2>1
  <2>5. \A k \in 1 .. 6 : p[k] \in E => k = 2
    BY <1>3, <2>1
  <2>6. 2 \in 1 .. Len(p)
    BY <2>3
  <2> QED  BY <1>3, <2>2, <2>3, <2>4, <2>5, <2>6 DEF OneElement, p, a, E, S, d
<1> QED  BY <1>5, <1>6

LEMMA PieceFacts ==
  ASSUME NEW data \in Containers, TellApart(data), NEW i \in 1 .. Len(data)
  PROVE  OneElement(data, Piece(data, i), i)
<1> DEFINE q == PrintElement(data[i])
           p == <<Space>> \o q
           a == data[i].first
           E == Elements(data)
           S == Strings
<1>1. OneElement(data, q, i) /\ Space \notin E
  BY PrintsOne
<1>2. Space \in S /\ Space # Dot
  BY DEF Strings, Space, Dot
<1>3. Piece(data, i) = IF i > 1 THEN p ELSE q
  BY DEF Piece, Space
<1> HIDE DEF q, a, E, S
<1>4. q \in Seq(S) /\ \A k \in 1 .. Len(q) : q[k] # Dot
  BY <1>1 DEF OneElement, S
<1>5. PICK j \in 1 .. Len(q) : q[j] = a /\ \A k \in 1 .. Len(q) : q[k] \in E => k = j
  BY <1>1 DEF OneElement, a, E
<1>6. Len(q) \in Nat
  BY <1>4, LenProperties
<1>7. /\ p \in Seq(S) /\ Len(p) = Len(q) + 1 /\ p[1] = Space
      /\ \A k \in 2 .. Len(q) + 1 : p[k] = q[k - 1]
  BY <1>2, <1>4, Singles
<1> HIDE DEF p
<1>8. \A k \in 1 .. Len(p) : k = 1 \/ (k \in 2 .. Len(q) + 1 /\ k - 1 \in 1 .. Len(q))
  BY <1>6, <1>7
<1>9. ASSUME NEW k \in 1 .. Len(p)  PROVE p[k] # Dot /\ (p[k] \in E => k = j + 1)
  BY <1>1, <1>2, <1>4, <1>5, <1>6, <1>7, <1>8
<1>10. j + 1 \in 1 .. Len(p) /\ p[j + 1] = a
  BY <1>5, <1>6, <1>7
<1>11. OneElement(data, p, i)
  BY <1>7, <1>9, <1>10 DEF OneElement, a, E, S
<1> QED  BY <1>1, <1>3, <1>11 DEF q

(* A text that shows the first m elements, in order.                       *)
Ordered(data, t, m) ==
  \A k \in 1 .. Len(t) : t[k] \in Elements(data) =>
    /\ Rank(t, Elements(data), k) \in 1 .. m
    /\ t[k] = data[Rank(t, Elements(data), k)].first

ShowsFirst(data, t, m) ==
  /\ t \in Seq(Strings) /\ \A k \in 1 .. Len(t) : t[k] # Dot
  /\ Rank(t, Elements(data), Len(t)) = m /\ Ordered(data, t, m)

LEMMA ShowsNext ==
  ASSUME NEW data \in Containers, NEW m \in Nat, m < Len(data), NEW t, NEW p,
         ShowsFirst(data, t, m), OneElement(data, p, m + 1)
  PROVE  ShowsFirst(data, t \o p, m + 1)
<1> DEFINE E == Elements(data)
           u == t \o p
           n == Len(t)
<1>1. /\ t \in Seq(Strings) /\ n \in Nat /\ \A k \in 1 .. n : t[k] # Dot
      /\ Rank(t, E, n) = m
      /\ \A k \in 1 .. n : t[k] \in E => /\ Rank(t, E, k) \in 1 .. m
                                         /\ t[k] = data[Rank(t, E, k)].first
  BY LenProperties DEF ShowsFirst, Ordered
<1>2. PICK j \in 1 .. Len(p) :
        p[j] = data[m + 1].first /\ \A k \in 1 .. Len(p) : p[k] \in E => k = j
  BY DEF OneElement
<1>3. /\ p \in Seq(Strings) /\ Len(p) \in Nat /\ \A k \in 1 .. Len(p) : p[k] # Dot
  BY LenProperties DEF OneElement
<1>4. /\ u \in Seq(Strings) /\ Len(u) = n + Len(p) /\ \A k \in 1 .. n : u[k] = t[k]
      /\ \A k \in 1 .. Len(p) : u[n + k] = p[k]
  BY <1>1, <1>3, ConcatProperties
<1>5. data[m + 1].first \in E
  BY LenProperties DEF Containers, Elements
<1> HIDE DEF E, u, n
<1>6. ASSUME NEW k \in 1 .. n  PROVE Rank(u, E, k) = Rank(t, E, k)
  <2>1. k \in Nat /\ \A i \in 1 .. k : t[i] = u[i]
    BY <1>1, <1>4
  <2> QED  BY <2>1, RankStays
<1> DEFINE b == n + j - 1
<1>b. b \in Nat /\ n <= b /\ b + 1 = n + j
  BY <1>1, <1>2
<1>7. Rank(u, E, b) = m
  <2>1. \A k \in n + 1 .. b : k - n \in 1 .. Len(p) /\ k - n # j /\ k = n + (k - n)
    BY <1>1, <1>2, <1>3
  <2>2. \A k \in n + 1 .. b : u[k] \notin E
    BY <1>2, <1>4, <2>1
  <2>3. \A k \in 1 .. n : t[k] = u[k]
    BY <1>4
  <2> HIDE DEF b
  <2>4. Rank(u, E, b) = Rank(t, E, n)
    BY <1>1, <1>b, <2>2, <2>3, RankStays
  <2> QED  BY <1>1, <2>4
<1>8. Rank(u, E, n + j) = m + 1
  <2>1. u[n + j] \in E
    BY <1>2, <1>4, <1>5
  <2> HIDE DEF b
  <2>2. Rank(u, E, b) \in Nat /\ Rank(u, E, b + 1) = Rank(u, E, b) + One(u[b + 1] \in E)
    BY <1>b, RankFacts
  <2> QED  BY <1>b, <1>7, <2>1, <2>2 DEF One
<1> HIDE DEF b
<1>9. Rank(u, E, n + Len(p)) = m + 1
  <2>1. \A k \in n + j + 1 .. n + Len(p) : k - n \in 1 .. Len(p) /\ k - n # j /\ k = n + (k - n)
    BY <1>1, <1>2, <1>3
  <2>2. \A k \in (n + j) + 1 .. n + Len(p) : u[k] \notin E
    BY <1>2, <1>4, <2>1
  <2>3. n + j \in Nat /\ n + Len(p) \in Nat /\ n + j <= n + Len(p)
    BY <1>1, <1>2, <1>3
  <2>4. Rank(u, E, n + Len(p)) = Rank(u, E, n + j)
    BY <2>2, <2>3, RankStays
  <2> QED  BY <1>8, <2>4
<1>10. \A k \in 1 .. Len(u) :
         k \in 1 .. n \/ (k - n \in 1 .. Len(p) /\ k = n + (k - n))
  BY <1>1, <1>3, <1>4
<1>11. ASSUME NEW k \in 1 .. Len(u)  PROVE u[k] # Dot
  <2>1. CASE k \in 1 .. n
    BY <1>1, <1>4, <2>1
  <2>2. CASE k - n \in 1 .. Len(p) /\ k = n + (k - n)
    <3>1. u[k] = p[k - n]
      BY <1>4, <2>2
    <3> QED  BY <1>3, <2>2, <3>1
  <2> QED  BY <1>10, <2>1, <2>2
<1>12. ASSUME NEW k \in 1 .. Len(u), u[k] \in E
       PROVE  Rank(u, E, k) \in 1 .. m + 1 /\ u[k] = data[Rank(u, E, k)].first
  <2>1. CASE k \in 1 .. n
    <3>1. u[k] = t[k] /\ Rank(u, E, k) = Rank(t, E, k)
      BY <1>4, <1>6, <2>1
    <3>2. Rank(t, E, k) \in 1 .. m /\ t[k] = data[Rank(t, E, k)].first
      BY <1>1, <1>12, <2>1, <3>1
    <3> QED  BY <3>1, <3>2
  <2>2. CASE k - n \in 1 .. Len(p) /\ k = n + (k - n)
    <3>1. u[k] = p[k - n]
      BY <1>4, <2>2
    <3>2. k - n = j
      BY <1>2, <1>12, <2>2, <3>1
    <3>3. k = n + j
      BY <2>2, <3>2
    <3> QED  BY <1>2, <1>8, <3>1, <3>2, <3>3
  <2> QED  BY <1>10, <2>1, <2>2
<1> QED  BY <1>4, <1>9, <1>11, <1>12 DEF ShowsFirst, Ordered, E, u

(* What PrintSequence writes: the first elements, and dots iff there are   *)
(* more.                                                                   *)
LEMMA PrintedShows ==
  ASSUME NEW data \in Containers, TellApart(data), NEW limit \in Nat
  PROVE  LET t == Printed(data, limit)
             m == Least(Len(data), limit)
         IN  /\ t \in Seq(Strings) /\ Ordered(data, t, m)
             /\ Rank(t, Elements(data), Len(t)) = m
             /\ Len(data) > limit <=> \E k \in 1 .. Len(t) : t[k] = Dot
<1> DEFINE E == Elements(data)
           N == Len(data)
           m == Least(N, limit)
           dots == IF N > limit THEN <<" ", ".", ".", ".">> ELSE <<>>
<1>1. N \in Nat /\ m \in Nat /\ m <= N
  BY LenProperties DEF Containers, Least
<1>2. PICK out : /\ out = [k \in 0 .. m |-> Round(data, out, k)]
                 /\ Printed(data, limit) = out[m] \o dots
  BY <1>1, PrintedRounds
<1> DEFINE A == {k \in Nat : k <= m => ShowsFirst(data, out[k], k)}
<1>3. 0 \in A
  <2>1. out[0] = Round(data, out, 0)
    <3>1. 0 \in 0 .. m
      BY <1>1
    <3> HIDE DEF m
    <3> QED  BY <1>2, <3>1
  <2>2. Rank(<<>>, E, 0) = 0
    BY RankFacts
  <2>3. ShowsFirst(data, <<>>, 0)
    BY <2>2, EmptySeq DEF ShowsFirst, Ordered
  <2> QED  BY <2>1, <2>3 DEF Round
<1>4. ASSUME NEW k \in Nat, k \in A  PROVE k + 1 \in A
  <2> SUFFICES ASSUME k + 1 <= m  PROVE ShowsFirst(data, out[k + 1], k + 1)
    OBVIOUS
  <2>1. ShowsFirst(data, out[k], k) /\ k < N /\ k + 1 \in 1 .. N
    BY <1>1, <1>4
  <2>2. out[k + 1] = out[k] \o Piece(data, k + 1)
    <3>1. k + 1 \in 0 .. m /\ k + 1 # 0 /\ (k + 1) - 1 = k
      BY <1>1
    <3>2. out[k + 1] = Round(data, out, k + 1)
      BY <1>2, <3>1
    <3> QED  BY <3>1, <3>2 DEF Round
  <2>3. OneElement(data, Piece(data, k + 1), k + 1)
    BY <2>1, PieceFacts
  <2> QED  BY <2>1, <2>2, <2>3, ShowsNext
<1>5. Nat \subseteq A
  <2> HIDE DEF A
  <2> QED  BY <1>3, <1>4, SetInduction
<1> DEFINE t == out[m]
           u == t \o dots
<1>6. ShowsFirst(data, t, m)
  BY <1>1, <1>5
<1>7. t \in Seq(Strings) /\ Len(t) \in Nat
  BY <1>6, LenProperties DEF ShowsFirst
<1>8. /\ dots \in Seq(Strings) /\ Len(dots) = (IF N > limit THEN 4 ELSE 0)
      /\ \A k \in 1 .. Len(dots) : dots[k] \notin E
      /\ Len(dots) = 4 => dots[2] = Dot
  <2>1. " " \notin E /\ "." \notin E
    BY DEF TellApart, Punctuation, Elements
  <2> DEFINE space == " "
             dot == "."
             S == Strings
  <2>2. space \in S /\ dot \in S
    BY DEF Strings
  <2> HIDE DEF space, dot, S, E
  <2>3. <<space, dot, dot, dot>> \in Seq(S)
    BY <2>2
  <2>4. \A k \in 1 .. 4 : <<space, dot, dot, dot>>[k] \in {space, dot}
    OBVIOUS
  <2>5. /\ <<>> \in Seq(S) /\ Len(<<>>) = 0 /\ Len(<<space, dot, dot, dot>>) = 4
        /\ <<space, dot, dot, dot>>[2] = dot
    BY EmptySeq
  <2>6. dots = IF N > limit THEN <<space, dot, dot, dot>> ELSE <<>>
    BY DEF space, dot
  <2>7. dots \in Seq(S) /\ Len(dots) = (IF N > limit THEN 4 ELSE 0)
    <3> HIDE DEF dots
    <3> QED  BY <2>3, <2>5, <2>6
  <2>8. \A k \in 1 .. Len(dots) : dots[k] \in {space, dot}
    <3> HIDE DEF dots
    <3> QED  BY <2>4, <2>5, <2>6
  <2>9. Len(dots) = 4 => dots[2] = dot
    <3> HIDE DEF dots
    <3> QED  BY <2>5, <2>6
  <2> HIDE DEF dots
  <2> QED  BY <2>1, <2>7, <2>8, <2>9 DEF S, space, dot, Dot
<1> HIDE DEF dots, t, E
<1>9. /\ u \in Seq(Strings) /\ Len(u) = Len(t) + Len(dots)
      /\ \A k \in 1 .. Len(t) : t[k] = u[k]
      /\ \A k \in 1 .. Len(dots) : u[Len(t) + k] = dots[k]
  <2>1. dots \in Seq(Strings) /\ Len(dots) \in Nat
    BY <1>8
  <2> QED  BY <1>7, <2>1, ConcatProperties
<1> HIDE DEF u
<1>10. Len(dots) \in Nat
  BY <1>8
<1>11. \A k \in Len(t) + 1 .. Len(u) : k - Len(t) \in 1 .. Len(dots) /\ u[k] = dots[k - Len(t)]
  <2>1. \A k \in Len(t) + 1 .. Len(u) : k - Len(t) \in 1 .. Len(dots) /\ k = Len(t) + (k - Len(t))
    BY <1>7, <1>9, <1>10
  <2> QED  BY <1>9, <2>1
<1>12. Rank(u, E, Len(u)) = m
  <2>1. \A k \in Len(t) + 1 .. Len(u) : u[k] \notin E
    BY <1>8, <1>11
  <2>2. Len(u) \in Nat /\ Len(t) <= Len(u)
    BY <1>7, <1>9, <1>10
  <2>3. \A k \in 1 .. Len(t) : t[k] = u[k]
    BY <1>9
  <2>4. Rank(u, E, Len(u)) = Rank(t, E, Len(t))
    BY <1>7, <2>1, <2>2, <2>3, RankStays
  <2> QED  BY <1>6, <2>4 DEF ShowsFirst, E
<1>13. Ordered(data, u, m)
  <2> SUFFICES ASSUME NEW k \in 1 .. Len(u), u[k] \in E
               PROVE  Rank(u, E, k) \in 1 .. m /\ u[k] = data[Rank(u, E, k)].first
    BY DEF Ordered, E
  <2>1. k \in 1 .. Len(t)
    <3>1. k \in 1 .. Len(t) \/ k \in Len(t) + 1 .. Len(u)
      BY <1>7, <1>9, <1>10
    <3> QED  BY <1>8, <1>11, <3>1
  <2>2. k \in Nat /\ \A j \in 1 .. k : t[j] = u[j]
    BY <1>7, <1>9, <2>1
  <2>3. Rank(u, E, k) = Rank(t, E, k)
    BY <2>2, RankStays
  <2> QED  BY <1>6, <1>9, <2>1, <2>3 DEF ShowsFirst, Ordered, E
<1>14. N > limit <=> \E k \in 1 .. Len(u) : u[k] = Dot
  <2>1. ASSUME N > limit  PROVE \E k \in 1 .. Len(u) : u[k] = Dot
    <3>1. 2 \in 1 .. Len(dots) /\ dots[2] = Dot
      BY <1>8, <2>1
    <3>2. Len(t) + 2 \in 1 .. Len(u) /\ u[Len(t) + 2] = Dot
      BY <1>7, <1>9, <1>10, <3>1
    <3> QED  BY <3>2
  <2>2. ASSUME ~(N > limit), NEW k \in 1 .. Len(u)  PROVE u[k] # Dot
    <3>1. k \in 1 .. Len(t)
      BY <1>7, <1>8, <1>9, <2>2
    <3> QED  BY <1>6, <1>9, <3>1 DEF ShowsFirst
  <2> QED  BY <2>1, <2>2
<1> QED  BY <1>2, <1>9, <1>12, <1>13, <1>14 DEF u, t, E

(* The buffer, one text at a time: its function is unique up to every      *)
(* text, so there is one.                                                  *)
Filled(chars, buf, k) ==
  IF k = 0 THEN [says |-> <<>>, pcount |-> 0]
  ELSE LET pptr == buf[k - 1].pcount + Size(chars[k])
       IN  [says   |-> IF pptr <= MaxText - 2 THEN Append(buf[k - 1].says, chars[k])
                       ELSE buf[k - 1].says,
            pcount |-> Least(pptr, MaxText - 2)]

LEMMA BufferedTexts ==
  ASSUME NEW chars, Len(chars) \in Nat
  PROVE  \E buf : /\ buf = [k \in 0 .. Len(chars) |-> Filled(chars, buf, k)]
                  /\ Buffered(chars) = buf[Len(chars)]
<1> DEFINE Fill(m) == \E f : f = [k \in 0 .. m |-> Filled(chars, f, k)]
           A == {m \in Nat : Fill(m)}
<1>1. 0 \in A
  <2> DEFINE g == [k \in 0 .. 0 |-> [says |-> <<>>, pcount |-> 0]]
  <2>1. g = [k \in 0 .. 0 |-> Filled(chars, g, k)]
    BY DEF Filled
  <2> HIDE DEF g
  <2>2. Fill(0)
    BY <2>1
  <2> QED  BY <2>2
<1>2. ASSUME NEW m \in Nat, m \in A  PROVE m + 1 \in A
  <2>1. PICK f : f = [k \in 0 .. m |-> Filled(chars, f, k)]
    BY <1>2
  <2> DEFINE g == [k \in 0 .. m + 1 |-> IF k <= m THEN f[k] ELSE Filled(chars, f, k)]
  <2>2. ASSUME NEW k \in 0 .. m + 1  PROVE g[k] = Filled(chars, g, k)
    <3>1. k # 0 => k - 1 \in 0 .. m /\ g[k - 1] = f[k - 1]
      BY SMTT(30)
    <3>2. Filled(chars, g, k) = Filled(chars, f, k)
      BY <3>1 DEF Filled
    <3>3. k <= m => f[k] = Filled(chars, f, k)
      BY <2>1
    <3> QED  BY <3>2, <3>3
  <2>3. g = [k \in 0 .. m + 1 |-> Filled(chars, g, k)]
    BY <2>2
  <2> HIDE DEF g
  <2>4. Fill(m + 1)
    BY <2>3
  <2> QED  BY <2>4
<1>3. Nat \subseteq A
  <2> HIDE DEF A
  <2> QED  BY <1>1, <1>2, SetInduction
<1>4. PICK f : f = [k \in 0 .. Len(chars) |-> Filled(chars, f, k)]
  BY <1>3
<1> DEFINE buf == CHOOSE h : h = [k \in 0 .. Len(chars) |-> Filled(chars, h, k)]
<1>5. buf = [k \in 0 .. Len(chars) |-> Filled(chars, buf, k)]
  BY <1>4
<1>6. Buffered(chars) = buf[Len(chars)]
  BY DEF Buffered, Filled
<1> QED  BY <1>5, <1>6

(* It holds a first part of the texts, and all of them if it is not full.  *)
Prefix(chars, b, i) ==
  /\ b.pcount \in 0 .. MaxText - 2
  /\ b.says \in Seq(Strings) /\ Len(b.says) \in 0 .. i
  /\ \A k \in 1 .. Len(b.says) : b.says[k] = chars[k]
  /\ b.pcount < MaxText - 2 => Len(b.says) = i

LEMMA BufferedPrefix ==
  ASSUME NEW chars \in Seq(Strings)
  PROVE  Prefix(chars, Buffered(chars), Len(chars))
<1> DEFINE N == Len(chars)
<1>1. /\ N \in Nat /\ MaxText \in Nat /\ MaxText >= 2
      /\ \A x : Size(x) \in Nat \ {0}
  BY LenProperties, LogAssumption DEF Size
<1>2. PICK buf : /\ buf = [k \in 0 .. N |-> Filled(chars, buf, k)]
                 /\ Buffered(chars) = buf[N]
  BY <1>1, BufferedTexts
<1> DEFINE A == {i \in Nat : i <= N => Prefix(chars, buf[i], i)}
<1>3. 0 \in A
  <2>1. buf[0] = Filled(chars, buf, 0)
    BY <1>1, <1>2
  <2>2. buf[0].says = <<>> /\ buf[0].pcount = 0
    BY <2>1 DEF Filled
  <2> DEFINE e == buf[0]
  <2>3. e.says \in Seq(Strings) /\ Len(e.says) = 0 /\ e.pcount = 0
    BY <2>2, EmptySeq
  <2> HIDE DEF e
  <2>4. Prefix(chars, e, 0)
    BY <1>1, <2>3 DEF Prefix
  <2> QED  BY <2>4 DEF e
<1>4. ASSUME NEW i \in Nat, i \in A  PROVE i + 1 \in A
  <2> SUFFICES ASSUME i + 1 <= N  PROVE Prefix(chars, buf[i + 1], i + 1)
    OBVIOUS
  <2> DEFINE a == buf[i]
             b == buf[i + 1]
             x == chars[i + 1]
             pptr == a.pcount + Size(x)
  <2>1. b = [says   |-> IF pptr <= MaxText - 2 THEN Append(a.says, x) ELSE a.says,
             pcount |-> Least(pptr, MaxText - 2)]
    <3>1. i + 1 \in 0 .. N /\ i + 1 # 0 /\ (i + 1) - 1 = i
      BY <1>1
    <3>2. b = Filled(chars, buf, i + 1)
      BY <1>2, <3>1
    <3> QED  BY <3>1, <3>2 DEF Filled
  <2>2. Prefix(chars, a, i) /\ x \in Strings
    BY <1>1, <1>4, ElementOfSeq
  <2> DEFINE j == Len(a.says)
  <2>3. /\ a.says \in Seq(Strings) /\ j \in 0 .. i
        /\ \A k \in 1 .. j : a.says[k] = chars[k]
        /\ a.pcount < MaxText - 2 => j = i
    BY <2>2 DEF Prefix
  <2>4. a.pcount \in 0 .. MaxText - 2 /\ Size(x) \in Nat \ {0}
    BY <1>1, <2>2 DEF Prefix
  <2> HIDE DEF a, b, x
  <2>5. /\ b.pcount = Least(pptr, MaxText - 2)
        /\ b.says = IF pptr <= MaxText - 2 THEN Append(a.says, x) ELSE a.says
    BY <2>1
  <2>6. b.pcount \in 0 .. MaxText - 2
    BY <1>1, <2>4, <2>5 DEF Least
  <2>7. ASSUME pptr <= MaxText - 2  PROVE Prefix(chars, b, i + 1)
    <3>1. j = i
      BY <1>1, <2>3, <2>4, <2>7
    <3>2. /\ b.says \in Seq(Strings) /\ Len(b.says) = i + 1 /\ b.says[i + 1] = x
          /\ \A k \in 1 .. i : b.says[k] = a.says[k]
      BY <2>2, <2>3, <2>5, <2>7, <3>1, AppendProperties
    <3>3. \A k \in 1 .. i + 1 : b.says[k] = chars[k]
      <4>1. \A k \in 1 .. i + 1 : k \in 1 .. i \/ k = i + 1
        OBVIOUS
      <4> QED  BY <2>3, <3>1, <3>2, <4>1 DEF x
    <3>4. i + 1 \in 0 .. i + 1
      OBVIOUS
    <3> QED  BY <2>6, <3>2, <3>3, <3>4 DEF Prefix
  <2>8. ASSUME ~(pptr <= MaxText - 2)  PROVE Prefix(chars, b, i + 1)
    <3>1. b.pcount = MaxText - 2 /\ b.says = a.says
      BY <1>1, <2>4, <2>5, <2>8 DEF Least
    <3>2. j \in 0 .. i + 1 /\ ~(b.pcount < MaxText - 2)
      BY <1>1, <2>3, <3>1
    <3>3. /\ b.says \in Seq(Strings) /\ Len(b.says) \in 0 .. i + 1
          /\ \A k \in 1 .. Len(b.says) : b.says[k] = chars[k]
      BY <2>3, <3>1, <3>2
    <3> QED  BY <2>6, <3>2, <3>3 DEF Prefix
  <2>9. Prefix(chars, b, i + 1)
    BY <2>7, <2>8
  <2> QED  BY <2>9 DEF b
<1>5. Nat \subseteq A
  <2> HIDE DEF A
  <2> QED  BY <1>3, <1>4, SetInduction
<1>6. Prefix(chars, buf[N], N)
  BY <1>1, <1>5
<1> QED  BY <1>2, <1>6

(* So the buffer's part of it is readable.                                 *)
LEMMA BufferedReads ==
  ASSUME program.data \in Containers, text = Buffered(PrintSequence(program.data))
  PROVE  TextReadable
<1> DEFINE data == program.data
           E == Elements(data)
           t == PrintSequence(data)
           m == Least(Len(data), MaxElements)
           says == text.says
<1> SUFFICES ASSUME TellApart(data)
             PROVE  /\ text.pcount + 2 <= MaxText
                    /\ \A k \in 1 .. Len(says) : says[k] \in E =>
                         Rank(says, E, k) <= m /\ says[k] = data[Rank(says, E, k)].first
                    /\ text.pcount + 2 < MaxText =>
                         /\ Rank(says, E, Len(says)) = m
                         /\ Len(data) > MaxElements <=> "." \in ToSet(says)
  BY Zenon DEF TextReadable, Rank, Elements
<1>0. MaxElements \in Nat /\ MaxText \in Nat /\ MaxText >= 2
  BY LogAssumption
<1>1. /\ t \in Seq(Strings) /\ Ordered(data, t, m) /\ Rank(t, E, Len(t)) = m
      /\ Len(data) > MaxElements <=> \E k \in 1 .. Len(t) : t[k] = Dot
  BY <1>0, PrintedShows DEF PrintSequence
<1> HIDE DEF t, E, m, data
<1>2. Prefix(t, text, Len(t))
  BY <1>1, BufferedPrefix DEF t, data
<1> DEFINE n == Len(says)
<1>3. /\ says \in Seq(Strings) /\ n \in 0 .. Len(t)
      /\ \A k \in 1 .. n : says[k] = t[k]
      /\ text.pcount < MaxText - 2 => n = Len(t)
  BY <1>2 DEF Prefix
<1>4. /\ text.pcount + 2 <= MaxText /\ Len(t) \in Nat /\ n \in Nat /\ n <= Len(t)
      /\ text.pcount + 2 < MaxText => n = Len(t)
  BY <1>0, <1>1, <1>2, <1>3, LenProperties DEF Prefix
<1> HIDE DEF says
<1>5. ASSUME NEW k \in 0 .. n  PROVE Rank(says, E, k) = Rank(t, E, k)
  <2>1. k \in Nat /\ \A j \in 1 .. k : t[j] = says[j]
    BY <1>3, <1>4
  <2> QED  BY <2>1, RankStays
<1>6. ASSUME NEW k \in 1 .. n, says[k] \in E
      PROVE  Rank(says, E, k) <= m /\ says[k] = data[Rank(says, E, k)].first
  <2>1. k \in 1 .. Len(t) /\ k \in 0 .. n /\ t[k] = says[k]
    BY <1>3, <1>4
  <2>2. Rank(t, E, k) \in 1 .. m /\ t[k] = data[Rank(t, E, k)].first
    BY <1>1, <1>6, <2>1 DEF Ordered, E
  <2>3. m \in Int
    BY <1>1, <1>4, RankFacts
  <2> QED  BY <1>5, <2>1, <2>2, <2>3
<1>7. ASSUME text.pcount + 2 < MaxText
      PROVE  /\ Rank(says, E, n) = m
             /\ Len(data) > MaxElements <=> "." \in ToSet(says)
  <2>1. n = Len(t) /\ n \in 0 .. n
    BY <1>4, <1>7
  <2>2. DOMAIN says = 1 .. n
    BY <1>3, LenProperties
  <2>3. "." \in ToSet(says) <=> \E k \in 1 .. n : t[k] = Dot
    BY <1>3, <2>2 DEF ToSet, Dot
  <2> QED  BY <1>1, <1>5, <2>1, <2>3
<1> QED  BY <1>3, <1>4, <1>6, <1>7 DEF m, data

(* The last message says what the container of the build prints as.        *)
TextInv == messages # {} => text = Buffered(PrintSequence(program.data))

(* For containers of any length, texts of any length and any limits, the   *)
(* message shows the first elements in order, and where it does not fill   *)
(* the buffer, all that may be shown and dots exactly when there are more. *)
THEOREM TextIsReadable == Spec => []TextReadable
<1>1. Init => TextInv
  BY DEF Init, TextInv
<1>2. TextInv /\ [Next]_vars => TextInv'
  <2> SUFFICES ASSUME TextInv, [Next]_vars PROVE TextInv'
    OBVIOUS
  <2>1. program' = program
    BY BuildStays
  <2>2. CASE UNCHANGED output
    BY <2>1, <2>2 DEF TextInv, output
  <2>3. ASSUME NEW t \in Threads, SendMessage(t)  PROVE TextInv'
    BY <2>1, <2>3 DEF TextInv, SendMessage
  <2>4. UNCHANGED output \/ \E t \in Threads : SendMessage(t)
    BY DEF Next, vars, rest, CountingStep, VerboseStep, Execute, Skip, EvaluateVal, Condition,
           LoadOccurrences, StoreOccurrences, LoadMod, StoreMod, WrapMod, TestMod, StoreModulo,
           LoadFirst, TestFirst, TestFlag, TestSite, TestSiteUninitialized, InitVLOG3__,
           KeepMessage, DiscardMessage, SetVLOGLevel
  <2> QED  BY <2>2, <2>3, <2>4
<1>3. SafeInv /\ TextInv => TextReadable
  <2> SUFFICES ASSUME SafeInv, TextInv PROVE TextReadable
    OBVIOUS
  <2>1. program.data \in Containers
    BY LogAssumption DEF SafeInv, TypeOK, Program, Containers
  <2>3. CASE messages = {}
    BY <2>3 DEF TextReadable
  <2>4. CASE messages # {}
    BY <2>1, <2>4, BufferedReads DEF TextInv
  <2> QED  BY <2>3, <2>4
<1> QED  BY <1>1, <1>2, <1>3, SafeInvInit, SafeInvStep, PTL DEF Spec
=============================================================================
