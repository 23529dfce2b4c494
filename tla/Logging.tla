------------------------------ MODULE Logging ------------------------------
(***************************************************************************)
(* The part of the log library that is compiled into the program: the      *)
(* macros and inline classes of src/log/glog.  What libglog.dll does       *)
(* behind them (writing files, the log mutex, Fail, InitVLOG3__) is        *)
(* modelled from how the headers use it.                                   *)
(*                                                                         *)
(* A behaviour is one build of a program in which several threads execute  *)
(* one logging statement, the call site, again and again.  A macro is the  *)
(* sequence of steps its expansion makes; the statics of a call site are   *)
(* plain ints and pointers, so each load and each store is a step.         *)
(***************************************************************************)
EXTENDS Integers, Sequences, FiniteSets, SequencesExt

CONSTANTS
  Threads,
  Programs,      \* builds of a program with one logging statement, see Program
  Levels,        \* the verbosity levels the program gives to --v and --vmodule
  Uninitialized, \* kLogSiteUninitialized, "a large value"
  IntMax,        \* the largest int
  MaxElements,   \* 100 in PrintSequence
  Bytes,         \* how many bytes each text takes that an element prints as
  MaxText,       \* LogMessage::kMaxLogMessageLen
  MaxChanges     \* bound: how often the verbosity flags are changed

INFO == 0
WARNING == 1
ERROR == 2
FATAL == 3
DFATAL == 4      \* not a severity: FATAL in debug builds, ERROR otherwise
NoPattern == -1  \* no --vmodule pattern applies to the statement's file

CheckMacroNames ==
  {"CHECK", "CHECK_EQ", "CHECK_NE", "CHECK_LE", "CHECK_LT", "CHECK_GE", "CHECK_GT",
   "CHECK_NOTNULL", "CHECK_STREQ", "CHECK_STRCASEEQ", "CHECK_STRNE", "CHECK_STRCASENE",
   "LOG_ASSERT"}

Macros ==
  {"LOG", "LOG_IF", "LOG_TO_STRING", "LOG_STRING", "LOG_TO_SINK",
   "LOG_TO_SINK_BUT_NOT_TO_LOGFILE", "SYSLOG", "SYSLOG_IF", "PLOG", "PLOG_IF", "PCHECK",
   "LOG_EVERY_N", "LOG_IF_EVERY_N", "LOG_FIRST_N", "VLOG", "VLOG_IF", "VLOG_EVERY_N",
   "VLOG_IF_EVERY_N", "RAW_LOG", "RAW_CHECK", "RAW_VLOG"} \cup CheckMacroNames

(* The macros M that have a debug form DM: DLOG, DCHECK_EQ, RAW_DLOG, ...  *)
DebugMacros ==
  {"LOG", "VLOG", "LOG_IF", "LOG_EVERY_N", "LOG_IF_EVERY_N", "RAW_LOG", "RAW_CHECK"}
    \cup CheckMacroNames

(* strip, raw, ndebug, gnu: GOOGLE_STRIP_LOG, STRIP_LOG, NDEBUG, __GNUC__; *)
(* debug: the D form of the macro; data: the container that is streamed,   *)
(* one record per element; times: how often the statement is executed.     *)
Program == [macro : Macros, debug : BOOLEAN, severity : INFO .. DFATAL,
            n : Nat \ {0}, level : Int, data : Seq([first : STRING, second : STRING]),
            strip : 0 .. 4, raw : 0 .. 4, ndebug : BOOLEAN, gnu : BOOLEAN, times : Nat]

Punctuation == {"(", ",", " ", ")", "."}

ASSUME LogAssumption ==
  /\ Programs \subseteq Program
  /\ IntMax \in Nat \ {0} /\ MaxElements \in Nat /\ MaxText \in Nat /\ MaxText >= 2
  /\ MaxChanges \in Nat
  /\ Bytes \in [DOMAIN Bytes -> Nat \ {0}] /\ DOMAIN Bytes \cap Punctuation = {}
  /\ Levels \subseteq Int /\ Uninitialized \in Int /\ \A l \in Levels : l < Uninitialized
  /\ \A p \in Programs : /\ p.n <= IntMax /\ p.level <= Uninitialized
                         /\ p.debug => p.macro \in DebugMacros
                         /\ p.severity = DFATAL =>
                              p.macro \in {"LOG", "LOG_IF", "SYSLOG", "SYSLOG_IF"}

VARIABLES
  program,        \* the build that is running
  process,        \* "running", or how the program ended
  occurrences,    \* the site's static LOG_OCCURRENCES
  mod_n,          \* the site's static LOG_OCCURRENCES_MOD_N
  vlocal,         \* the flag that the site's static vlocal__ points to
  flags,          \* FLAGS_v and the level of the file's --vmodule pattern
  todo,           \* the steps each thread's statement has still to make
  occ_reg, mod_reg, \* what each thread last loaded or stored
  messages,       \* the messages that reached the log
  text,           \* the whole texts in the last one's buffer, and its pcount
  runs, changes,  \* history: executions and flag changes so far
  occasions, nth, \* history: how often the count was due, and whose turn it is
  overlapped,     \* history: two threads have been inside the statement
  evaluated,      \* history: an argument of the statement was evaluated
  seen            \* history: the flags in force since the statement began

site    == <<occurrences, mod_n, vlocal>>
threads == <<todo, occ_reg, mod_reg>>
output  == <<messages, text>>
history == <<runs, occasions, nth, overlapped, evaluated>>
rest    == <<program, process, flags, output, changes, seen>>
vars    == <<rest, site, threads, history>>

-----------------------------------------------------------------------------
(* What the preprocessor makes of the statement.                           *)

(* DFATAL_LEVEL, and COMPACT_GOOGLE_LOG_DFATAL under NDEBUG.               *)
Level(s) == IF s # DFATAL THEN s ELSE IF program.ndebug THEN ERROR ELSE FATAL

(* Mutants of Compact: off by one; a stripped FATAL is a plain NullStream. *)
CompactLate(s) ==
  CASE Level(s) >= program.strip - 1 -> "message"
    [] Level(s) = FATAL -> "null_fatal"
    [] OTHER -> "null"
CompactNull(s) == IF Level(s) >= program.strip THEN "message" ELSE "null"

(* COMPACT_GOOGLE_LOG_x and LOG_TO_STRING_x: LogMessage(Fatal), NullStream *)
(* or NullStreamFatal.                                                     *)
Compact(s) ==
  CASE Level(s) >= program.strip -> "message"
    [] Level(s) = FATAL -> "null_fatal"
    [] OTHER -> "null"

(* RAW_LOG_x: RawLog__, RawLogStub__ or the stub and exit(1).              *)
RawCompact(s) ==
  CASE s >= program.raw -> "message"
    [] s = FATAL -> "null_fatal"
    [] OTHER -> "null"

Stripped(steps, s) == [steps |-> steps, stream |-> Compact(s), severity |-> Level(s)]
Sent(steps, s)     == [steps |-> steps, stream |-> "message", severity |-> Level(s)]
Raw(steps, s)      == [steps |-> steps, stream |-> RawCompact(s), severity |-> s]

VLOG_IS_ON == IF program.gnu THEN <<"flag", "pointer">> ELSE <<"FLAGS_v">>

To(stream, e)      == [e EXCEPT !.stream = IF @ = "message" THEN stream ELSE @]

(* SendToSink and SaveOrSendToLog take the message elsewhere.              *)
LogMacros(s) ==
  [LOG |-> Stripped(<<>>, s), LOG_IF |-> Stripped(<<"condition">>, s),
   LOG_TO_STRING |-> Stripped(<<>>, s), LOG_STRING |-> To("vector", Stripped(<<>>, s)),
   LOG_TO_SINK |-> Sent(<<>>, s),
   LOG_TO_SINK_BUT_NOT_TO_LOGFILE |-> To("sink", Sent(<<>>, s))]

SysLogMacros(s) == [SYSLOG |-> Sent(<<>>, s), SYSLOG_IF |-> Sent(<<"condition">>, s)]

(* CHECK_OP picks its class by strip <= 3, just as LOG(FATAL) does.        *)
CHECK_OP    == Stripped(<<"condition">>, FATAL)
CHECK_STROP == Stripped(<<"condition">>, FATAL)

(* CHECK_INDEX and CHECK_BOUND are CHECKs, CHECK_NEAR is two CHECK_OPs.    *)
CheckMacros ==
  [CHECK |-> Stripped(<<"condition">>, FATAL), LOG_ASSERT |-> Stripped(<<"condition">>, FATAL),
   CHECK_EQ |-> CHECK_OP, CHECK_NE |-> CHECK_OP, CHECK_LE |-> CHECK_OP,
   CHECK_LT |-> CHECK_OP, CHECK_GE |-> CHECK_OP, CHECK_GT |-> CHECK_OP,
   CHECK_STREQ |-> CHECK_STROP, CHECK_STRCASEEQ |-> CHECK_STROP,
   CHECK_STRNE |-> CHECK_STROP, CHECK_STRCASENE |-> CHECK_STROP,
   CHECK_NOTNULL |-> Sent(<<"condition">>, FATAL)]

PLogMacros(s) ==
  [PLOG |-> Sent(<<>>, s), PLOG_IF |-> Sent(<<"condition">>, s),
   PCHECK |-> Sent(<<"condition">>, FATAL)]

Count      == <<"load_occ", "store_occ">>
CountEvery == Count \o <<"load_mod", "store_mod", "wrap_mod", "test_mod">>
CountIf(condition) == Count \o condition \o <<"load_mod", "store_modulo">>

CountingMacros(s) ==
  [LOG_EVERY_N |-> Sent(CountEvery, s), LOG_IF_EVERY_N |-> Sent(CountIf(<<"condition">>), s),
   LOG_FIRST_N |-> Sent(<<"load_first", "store_occ", "test_first">>, s)]

VerboseMacros ==
  [VLOG |-> Stripped(VLOG_IS_ON, INFO),
   VLOG_IF |-> Stripped(<<"condition">> \o VLOG_IS_ON, INFO),
   VLOG_EVERY_N |-> Sent(CountIf(VLOG_IS_ON), INFO),
   VLOG_IF_EVERY_N |-> Sent(CountIf(<<"condition">> \o VLOG_IS_ON), INFO)]

RawMacros(s) ==
  [RAW_LOG |-> Raw(<<>>, s), RAW_CHECK |-> Raw(<<"condition">>, FATAL),
   RAW_VLOG |-> Raw(IF program.raw = 0 THEN VLOG_IS_ON ELSE <<>>, INFO)]

(* What NDEBUG puts before a statement: `true ? (void) 0 : ...' and        *)
(* `while (false) ...' skip it, `true || ...' its condition as well.       *)
Guards        == {"true_then", "true_or", "while_false"}
Guarded(g, e) == [e EXCEPT !.steps = <<g>> \o @]

(* Mutant of DVLOG: (true && !VLOG_IS_ON(verboselevel)).                   *)
DVLOGAnd == Stripped(VLOG_IS_ON, INFO)
DVLOG    == Guarded("true_or", Stripped(VLOG_IS_ON, INFO))

DLogMacros(s) ==
  [LOG |-> Guarded("true_then", Stripped(<<>>, s)), VLOG |-> DVLOG,
   LOG_IF |-> Guarded("true_or", Stripped(<<"condition">>, s)),
   LOG_EVERY_N |-> Guarded("true_then", Stripped(<<>>, s)),
   LOG_IF_EVERY_N |-> Guarded("true_or", Stripped(<<"condition">>, s))]

(* DCHECK_NOTNULL(val) is (val).                                           *)
DCheckMacros ==
  LET Skipped(macro) == Guarded("while_false", CheckMacros[macro])
  IN  [LOG_ASSERT |-> Guarded("true_then", CheckMacros.LOG_ASSERT),
       CHECK |-> Skipped("CHECK"),
       CHECK_EQ |-> Skipped("CHECK_EQ"), CHECK_NE |-> Skipped("CHECK_NE"),
       CHECK_LE |-> Skipped("CHECK_LE"), CHECK_LT |-> Skipped("CHECK_LT"),
       CHECK_GE |-> Skipped("CHECK_GE"), CHECK_GT |-> Skipped("CHECK_GT"),
       CHECK_NOTNULL |-> [steps |-> <<"val">>, stream |-> "none", severity |-> FATAL],
       CHECK_STREQ |-> Skipped("CHECK_STREQ"), CHECK_STRCASEEQ |-> Skipped("CHECK_STRCASEEQ"),
       CHECK_STRNE |-> Skipped("CHECK_STRNE"), CHECK_STRCASENE |-> Skipped("CHECK_STRCASENE")]

RawDMacros(s) ==
  [RAW_LOG |-> Guarded("while_false", RawMacros(s).RAW_LOG),
   RAW_CHECK |-> Guarded("while_false", RawMacros(s).RAW_CHECK)]

(* #ifndef NDEBUG a D macro is the macro without the D.                    *)
Vanishing == program.debug /\ program.ndebug

Expansion ==
  LET s == program.severity
      In(macros) == program.macro \in DOMAIN macros
  IN  CASE Vanishing /\ In(DLogMacros(s))   -> DLogMacros(s)[program.macro]
        [] Vanishing /\ In(DCheckMacros)    -> DCheckMacros[program.macro]
        [] Vanishing /\ In(RawDMacros(s))   -> RawDMacros(s)[program.macro]
        [] ~Vanishing /\ In(LogMacros(s))   -> LogMacros(s)[program.macro]
        [] ~Vanishing /\ In(SysLogMacros(s)) -> SysLogMacros(s)[program.macro]
        [] ~Vanishing /\ In(CheckMacros)    -> CheckMacros[program.macro]
        [] ~Vanishing /\ In(PLogMacros(s))  -> PLogMacros(s)[program.macro]
        [] ~Vanishing /\ In(CountingMacros(s)) -> CountingMacros(s)[program.macro]
        [] ~Vanishing /\ In(VerboseMacros)  -> VerboseMacros[program.macro]
        [] ~Vanishing /\ In(RawMacros(s))   -> RawMacros(s)[program.macro]

-----------------------------------------------------------------------------
Init ==
  /\ program \in Programs
  /\ process = "running"
  /\ occurrences = 0 /\ mod_n = 0 /\ vlocal = "uninitialized"
  /\ flags \in [v : Levels, module : {NoPattern}]
  /\ todo = [t \in Threads |-> <<>>]
  /\ occ_reg = [t \in Threads |-> 0] /\ mod_reg = [t \in Threads |-> 0]
  /\ messages = {} /\ text = [says |-> <<>>, pcount |-> 0]
  /\ runs = 0 /\ changes = 0 /\ occasions = 0 /\ nth = [t \in Threads |-> 0]
  /\ overlapped = FALSE /\ evaluated = FALSE
  /\ seen = [t \in Threads |-> {}]

At(t, step) == process = "running" /\ todo[t] # <<>> /\ Head(todo[t]) = step
Continue(t, yes) == todo' = [todo EXCEPT ![t] = IF yes THEN Tail(@) ELSE <<>>]

(* A thread comes to the statement.                                        *)
Execute(t) ==
  /\ process = "running" /\ todo[t] = <<>> /\ runs < program.times
  /\ runs' = runs + 1
  /\ todo' = [todo EXCEPT ![t] = Append(Expansion.steps, "stream")]
  /\ overlapped' = (overlapped \/ \E u \in Threads : todo[u] # <<>>)
  /\ seen' = [seen EXCEPT ![t] = {flags}]
  /\ UNCHANGED <<program, process, site, flags, occ_reg, mod_reg, output, occasions, nth,
                 evaluated, changes>>

(* One of NDEBUG's guards: the rest is not reached.                        *)
Skip(t) ==
  /\ \E g \in Guards : At(t, g)
  /\ Continue(t, FALSE)
  /\ UNCHANGED <<rest, site, occ_reg, mod_reg, history>>

(* The whole of DCHECK_NOTNULL(val) under NDEBUG.                          *)
EvaluateVal(t) ==
  /\ At(t, "val") /\ Continue(t, FALSE)
  /\ evaluated' = TRUE
  /\ UNCHANGED <<rest, site, occ_reg, mod_reg, runs, occasions, nth, overlapped>>

(* !(condition) ? (void) 0 : ...; for a CHECK, that it fails.              *)
Condition(t) ==
  /\ At(t, "condition")
  /\ evaluated' = TRUE
  /\ \E holds \in BOOLEAN : Continue(t, holds)
  /\ UNCHANGED <<rest, site, occ_reg, mod_reg, runs, occasions, nth, overlapped>>

-----------------------------------------------------------------------------
(* LOG_EVERY_N, LOG_IF_EVERY_N, LOG_FIRST_N.  Where the code reads a       *)
(* static it has just written, the build may load it again or not.         *)

(* Mutant of Wrapped: an int that grows without end.                       *)
Unbounded(x) == x

Wrapped(x) ==
  IF x > IntMax THEN x - 2 * (IntMax + 1)
  ELSE IF x < -IntMax - 1 THEN x + 2 * (IntMax + 1) ELSE x

Reread(reg, static) == {reg, static}

(* Loads of the thread's turn: the occasion on which a message may be due. *)
NewOccasion(t) == occasions' = occasions + 1 /\ nth' = [nth EXCEPT ![t] = occasions + 1]

(* ++LOG_OCCURRENCES                                                       *)
LoadOccurrences(t) ==
  /\ At(t, "load_occ") /\ Continue(t, TRUE)
  /\ occ_reg' = [occ_reg EXCEPT ![t] = occurrences]
  /\ UNCHANGED <<rest, site, mod_reg, history>>

StoreOccurrences(t) ==
  /\ At(t, "store_occ") /\ Continue(t, TRUE)
  /\ occurrences' = Wrapped(occ_reg[t] + 1)
  /\ occ_reg' = [occ_reg EXCEPT ![t] = occurrences']
  /\ UNCHANGED <<rest, mod_n, vlocal, mod_reg, history>>

(* ++LOG_OCCURRENCES_MOD_N > n                                             *)
LoadMod(t) ==
  /\ At(t, "load_mod") /\ Continue(t, TRUE)
  /\ mod_reg' = [mod_reg EXCEPT ![t] = mod_n]
  /\ NewOccasion(t)
  /\ UNCHANGED <<rest, site, occ_reg, runs, overlapped, evaluated>>

StoreMod(t) ==
  /\ At(t, "store_mod") /\ Continue(t, TRUE)
  /\ mod_n' = Wrapped(mod_reg[t] + 1)
  /\ mod_reg' = [mod_reg EXCEPT ![t] = mod_n']
  /\ UNCHANGED <<rest, occurrences, vlocal, occ_reg, history>>

(* LOG_OCCURRENCES_MOD_N -= n                                              *)
WrapMod(t) ==
  /\ At(t, "wrap_mod") /\ Continue(t, TRUE)
  /\ IF mod_reg[t] > program.n
     THEN /\ \E x \in Reread(mod_reg[t], mod_n) : mod_n' = Wrapped(x - program.n)
          /\ mod_reg' = [mod_reg EXCEPT ![t] = mod_n']
     ELSE UNCHANGED <<mod_n, mod_reg>>
  /\ UNCHANGED <<rest, occurrences, vlocal, occ_reg, history>>

(* Mutant of TestMod: the count itself is reduced modulo n.                *)
TestRemainder(t) ==
  /\ At(t, "test_mod")
  /\ \E x \in Reread(occ_reg[t], occurrences) : Continue(t, x % program.n = 1 % program.n)
  /\ UNCHANGED <<rest, site, occ_reg, mod_reg, history>>

(* if (LOG_OCCURRENCES_MOD_N == 1)                                         *)
TestMod(t) ==
  /\ At(t, "test_mod")
  /\ \E x \in Reread(mod_reg[t], mod_n) : Continue(t, x = 1)
  /\ UNCHANGED <<rest, site, occ_reg, mod_reg, history>>

(* (LOG_OCCURRENCES_MOD_N = (LOG_OCCURRENCES_MOD_N + 1) % n) == (1 % n)    *)
StoreModulo(t) ==
  /\ At(t, "store_modulo")
  /\ mod_n' = (mod_reg[t] + 1) % program.n
  /\ Continue(t, mod_n' = 1 % program.n)
  /\ UNCHANGED <<rest, occurrences, vlocal, occ_reg, mod_reg, history>>

(* if (LOG_OCCURRENCES <= n) ++LOG_OCCURRENCES                             *)
LoadFirst(t) ==
  /\ At(t, "load_first")
  /\ occ_reg' = [occ_reg EXCEPT ![t] = occurrences]
  /\ todo' = [todo EXCEPT ![t] = IF occurrences <= program.n THEN Tail(@) ELSE Tail(Tail(@))]
  /\ NewOccasion(t)
  /\ UNCHANGED <<rest, site, mod_reg, runs, overlapped, evaluated>>

TestFirst(t) ==
  /\ At(t, "test_first")
  /\ \E x \in Reread(occ_reg[t], occurrences) : Continue(t, x <= program.n)
  /\ UNCHANGED <<rest, site, occ_reg, mod_reg, history>>

-----------------------------------------------------------------------------
(* VLOG_IS_ON with the GNU extensions: the flag vlocal__ points to is at   *)
(* least level, and vlocal__ is not &kLogSiteUninitialized or InitVLOG3__  *)
(* says so.  Without them, FLAGS_v is at least level.                      *)

Flag(f) == IF f = "uninitialized" THEN Uninitialized ELSE flags[f]

TestFlag(t) ==
  /\ At(t, "FLAGS_v")
  /\ Continue(t, flags.v >= program.level)
  /\ UNCHANGED <<rest, site, occ_reg, mod_reg, history>>

(* Mutant of TestSite: an initialised site is taken to be on.              *)
TestUninitialized(t) ==
  /\ At(t, "flag")
  /\ Continue(t, vlocal # "uninitialized" \/ Uninitialized >= program.level)
  /\ UNCHANGED <<rest, site, occ_reg, mod_reg, history>>

TestSite(t) ==
  /\ At(t, "flag")
  /\ Continue(t, Flag(vlocal) >= program.level)
  /\ UNCHANGED <<rest, site, occ_reg, mod_reg, history>>

TestSiteUninitialized(t) ==
  /\ At(t, "pointer")
  /\ todo' = [todo EXCEPT ![t] = IF vlocal # "uninitialized" THEN Tail(@)
                                 ELSE <<"InitVLOG3__">> \o Tail(@)]
  /\ UNCHANGED <<rest, site, occ_reg, mod_reg, history>>

(* Which flag controls this file, set "if possible".                       *)
Controlling(f) == IF f.module # NoPattern THEN "module" ELSE "v"

InitVLOG3__(t) ==
  /\ At(t, "InitVLOG3__")
  /\ vlocal' \in {Controlling(flags), vlocal}
  /\ Continue(t, flags[Controlling(flags)] >= program.level)
  /\ UNCHANGED <<rest, occurrences, mod_n, occ_reg, mod_reg, history>>

(* The program sets FLAGS_v or calls SetVLOGLevel for the file's pattern.  *)
SetVLOGLevel(f, l) ==
  /\ process = "running" /\ changes < MaxChanges
  /\ ToSet(Expansion.steps) \cap {"flag", "FLAGS_v"} # {}
  /\ changes' = changes + 1
  /\ flags' = [flags EXCEPT ![f] = l]
  /\ seen' = [t \in Threads |-> IF todo[t] = <<>> THEN seen[t] ELSE seen[t] \cup {flags'}]
  /\ UNCHANGED <<program, process, site, threads, output, history>>

-----------------------------------------------------------------------------
(* The message.                                                            *)

(* operator<< of std::pair, or of an element that is not one.              *)
PrintElement(e) ==
  IF e.second = "" THEN <<e.first>> ELSE <<"(", e.first, ",", " ", e.second, ")">>

Least(a, b) == IF a < b THEN a ELSE b

(* One round of the loop of PrintSequence.                                 *)
Piece(s, i) == IF i > 1 THEN <<" ">> \o PrintElement(s[i]) ELSE PrintElement(s[i])

(* The loop, and the dots where it left elements out.                      *)
Printed(s, limit) ==
  LET out[i \in 0 .. Least(Len(s), limit)] ==
        IF i = 0 THEN <<>> ELSE out[i - 1] \o Piece(s, i)
  IN  out[Least(Len(s), limit)] \o IF Len(s) > limit THEN <<" ", ".", ".", ".">> ELSE <<>>

(* The mutant has i <= 100.                                                *)
PrintOneMore(s)  == Printed(s, MaxElements + 1)
PrintSequence(s) == Printed(s, MaxElements)

Size(x) == IF x \in DOMAIN Bytes THEN Bytes[x] ELSE 1

(* LogStreamBuf: setp(buf, buf + len - 2), and overflow is ignored.  A     *)
(* text that is cut by the end of the buffer is not among what it says.    *)
Buffered(chars) ==
  LET buf[i \in 0 .. Len(chars)] ==
        IF i = 0 THEN [says |-> <<>>, pcount |-> 0]
        ELSE LET pptr == buf[i - 1].pcount + Size(chars[i])
             IN  [says   |-> IF pptr <= MaxText - 2 THEN Append(buf[i - 1].says, chars[i])
                             ELSE buf[i - 1].says,
                  pcount |-> Least(pptr, MaxText - 2)]
  IN  buf[Len(chars)]

(* LogMessage, LogMessageFatal, ErrnoLogMessage, RawLog__: the arguments   *)
(* are streamed and the destructor sends the message.  A FATAL message     *)
(* ends the process.  LOG_STRING does so where outvec is NULL.             *)
SendMessage(t) ==
  /\ At(t, "stream") /\ Expansion.stream \in {"message", "vector"} /\ Continue(t, TRUE)
  /\ evaluated' = TRUE
  /\ text' = Buffered(PrintSequence(program.data))
  /\ \E ctr \in Reread(occ_reg[t], occurrences) :
       messages' = messages \cup
         {[nth |-> nth[t], ctr |-> ctr, severity |-> Expansion.severity]}
  /\ process' = IF Expansion.severity = FATAL THEN "aborted" ELSE process
  /\ UNCHANGED <<program, site, flags, occ_reg, mod_reg, runs, occasions, nth, overlapped,
                 changes, seen>>

(* SaveOrSendToLog with an outvec, and SendToSink: nothing is logged and,  *)
(* whatever the severity, the statement returns.                           *)
KeepMessage(t) ==
  /\ At(t, "stream") /\ Expansion.stream \in {"vector", "sink"} /\ Continue(t, TRUE)
  /\ evaluated' = TRUE
  /\ UNCHANGED <<rest, site, occ_reg, mod_reg, runs, occasions, nth, overlapped>>

(* NullStream swallows what is streamed, ~NullStreamFatal calls _exit(1).  *)
DiscardMessage(t) ==
  /\ At(t, "stream") /\ Expansion.stream \in {"null", "null_fatal"} /\ Continue(t, TRUE)
  /\ evaluated' = TRUE
  /\ process' = IF Expansion.stream = "null_fatal" THEN "exited" ELSE process
  /\ UNCHANGED <<program, site, flags, occ_reg, mod_reg, output, runs, occasions, nth,
                 overlapped, changes, seen>>

-----------------------------------------------------------------------------
CountingStep(t) ==
  \/ LoadOccurrences(t) \/ StoreOccurrences(t) \/ LoadMod(t) \/ StoreMod(t)
  \/ WrapMod(t) \/ TestMod(t) \/ StoreModulo(t) \/ LoadFirst(t) \/ TestFirst(t)

VerboseStep(t) ==
  TestFlag(t) \/ TestSite(t) \/ TestSiteUninitialized(t) \/ InitVLOG3__(t)

Next ==
  \/ \E t \in Threads : \/ Execute(t) \/ Skip(t) \/ EvaluateVal(t) \/ Condition(t)
                        \/ CountingStep(t) \/ VerboseStep(t)
                        \/ SendMessage(t) \/ KeepMessage(t) \/ DiscardMessage(t)
  \/ \E f \in {"v", "module"}, l \in Levels : SetVLOGLevel(f, l)

Spec == Init /\ [][Next]_vars

-----------------------------------------------------------------------------
Steps == {"condition", "FLAGS_v", "flag", "pointer", "InitVLOG3__", "load_occ",
          "store_occ", "load_mod", "store_mod", "wrap_mod", "test_mod",
          "store_modulo", "load_first", "test_first", "stream", "val"} \cup Guards
Ints  == -IntMax - 1 .. IntMax

(* Types of the macros' state; both statics of the site stay ints.         *)
TypeOK ==
  /\ program \in Programs /\ process \in {"running", "aborted", "exited"}
  /\ occurrences \in Ints /\ mod_n \in Ints
  /\ vlocal \in {"uninitialized", "v", "module"}
  /\ flags \in [v : Levels, module : Levels \cup {NoPattern}]
  /\ todo \in [Threads -> Seq(Steps)]
  /\ occ_reg \in [Threads -> Ints] /\ mod_reg \in [Threads -> Ints]
  /\ runs \in 0 .. program.times /\ changes \in 0 .. MaxChanges
  /\ occasions \in Nat /\ nth \in [Threads -> 0 .. occasions]
  /\ overlapped \in BOOLEAN
  /\ seen \in [Threads -> SUBSET [v : Levels, module : Levels \cup {NoPattern}]]

Resting == \A t \in Threads : todo[t] = <<>>
Counts  == /\ program.macro \in {"LOG_EVERY_N", "LOG_IF_EVERY_N", "LOG_FIRST_N",
                                 "VLOG_EVERY_N", "VLOG_IF_EVERY_N"}
           /\ ~Vanishing
Due(k)  == IF program.macro = "LOG_FIRST_N" THEN k <= program.n
           ELSE k % program.n = 1 % program.n

(* "Output on the 1st, 11th, 21st, ... times it is executed" and "for the  *)
(* first 20 times" (logging.h:182, 194): counted over the executions whose *)
(* condition held, and also past the wrap of LOG_OCCURRENCES.              *)
OccasionalLogs ==
  Counts /\ Resting => {m.nth : m \in messages} = {k \in 1 .. occasions : Due(k)}

(* An int that was counted up from 0 so often.                             *)
Turn(r) == ((r + IntMax + 1) % (2 * (IntMax + 1))) - (IntMax + 1)

(* The static that is compared with n can hold n + 1.                      *)
Countable == program.macro \in {"LOG_EVERY_N", "LOG_FIRST_N"} => program.n < IntMax

(* The same, for a statement that no two threads have executed at once and *)
(* whose n + 1 is an int (with n = INT_MAX, line 892 counts past the int); *)
(* then COUNTER "identifies which repetition is happening" (184), except   *)
(* in LOG_IF_EVERY_N, where it counts all executions.                      *)
OccasionalLogsAlone ==
  Counts /\ Countable /\ ~overlapped =>
    /\ OccasionalLogs
    /\ program.macro \in {"LOG_EVERY_N", "LOG_FIRST_N"} =>
         \A m \in messages : m.ctr = Turn(m.nth)

(* A VLOG is decided by a value its controlling flag has had since the     *)
(* statement began, whatever was changed meanwhile and however the site    *)
(* was initialised, unless two threads were inside the statement: the      *)
(* two reads of vlocal__ (vlog_is_on.h:80-81) are then of different flags. *)
Deciding(t) == \E s \in {"FLAGS_v", "flag", "pointer", "InitVLOG3__"} : At(t, s)
VerboseFollowsFlag ==
  [][\A t \in Threads :
       Deciding(t) /\ ~overlapped' /\ todo'[t] # todo[t] =>
         LET control(f) == IF ~program.gnu THEN f.v
                           ELSE IF vlocal = "uninitialized" THEN f[Controlling(f)] ELSE f[vlocal]
         IN  /\ todo'[t] = <<>> => \E f \in seen[t] : control(f) < program.level
             /\ todo'[t] # <<>> /\ Head(todo'[t]) \in {"stream", "load_mod"} =>
                  \E f \in seen[t] : control(f) >= program.level]_vars

(* LOG_STRING may save the message and LOG_TO_SINK_BUT_NOT_TO_LOGFILE only *)
(* shows it to a sink; what is not sent to the log ends no process.        *)
Returns ==
  \/ program.macro = "LOG_STRING" /\ program.strip <= FATAL
  \/ program.macro = "LOG_TO_SINK_BUT_NOT_TO_LOGFILE"

(* "Logging a message at the FATAL severity level causes the program to    *)
(* terminate" (logging.h:270) and a CHECK "will be executed regardless of  *)
(* compilation mode" (579): in no build, stripped or not, does a thread    *)
(* get past a FATAL statement whose condition held, except for the two     *)
(* forms that take their message elsewhere.                                *)
FatalNeverReturns ==
  [][\A t \in Threads :
       At(t, "stream") /\ todo'[t] = <<>> /\ Expansion.severity = FATAL /\ ~Returns =>
         process' # "running"]_vars

(* "Messages logged to LOG(XXX) with severity less than GOOGLE_STRIP_LOG   *)
(* will not be displayed" (logging.h:115), in any of the forms that expand *)
(* to LOG; the counting, P, SYSLOG and sink forms are not stripped.        *)
Strippable ==
  {"LOG", "LOG_IF", "LOG_TO_STRING", "LOG_STRING", "VLOG", "VLOG_IF"}
    \cup (CheckMacroNames \ {"CHECK_NOTNULL"})
StrippedStaysHidden ==
  program.macro \in Strippable => \A m \in messages : m.severity >= program.strip

(* "All debug mode logging is compiled away to nothing for non-debug mode  *)
(* compiles" (logging.h:213): no message, no counting, no end of the       *)
(* process, and no evaluation of an argument, but for DCHECK_NOTNULL's.    *)
DebugLeavesNoTrace ==
  Vanishing =>
    /\ messages = {} /\ occurrences = 0 /\ mod_n = 0 /\ vlocal = "uninitialized"
    /\ process = "running"
    /\ evaluated => program.macro = "CHECK_NOTNULL"

(* Elements whose texts are neither punctuation nor the second half of a   *)
(* pair, and no such half that is a dot.                                   *)
TellApart(data) ==
  \A i, j \in DOMAIN data :
    /\ data[i].first \notin Punctuation
    /\ data[i].first # data[j].second /\ data[j].second # "."

(* The text shows the first elements of the container, in order, and where *)
(* the buffer is not full it shows as many as may be shown and says        *)
(* whether there are more; a full one may end inside an element or in the  *)
(* dots.  Two bytes stay free (stl_logging.h:170, logging.h:1109).         *)
TextReadable ==
  LET data     == program.data
      says     == text.says
      last     == Least(Len(data), MaxElements)
      elements == {data[i].first : i \in DOMAIN data}
      Shown(k) == Cardinality({j \in 1 .. k : says[j] \in elements})
  IN  messages # {} /\ TellApart(data) =>
        /\ text.pcount + 2 <= MaxText
        /\ \A k \in 1 .. Len(says) : says[k] \in elements =>
             Shown(k) <= last /\ says[k] = data[Shown(k)].first
        /\ text.pcount + 2 < MaxText =>
             Shown(Len(says)) = last /\ (Len(data) > MaxElements <=> "." \in ToSet(says))
=============================================================================
