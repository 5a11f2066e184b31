-------------------------------- MODULE Build ------------------------------
(***************************************************************************)
(* The build tool src/tools/build.c: parse reads a makefile line by line,  *)
(* search_rule looks for the rule of a word, resolve_deps makes what the   *)
(* rule depends on, bind_cmd and do_exec run its command.                  *)
(*                                                                         *)
(* A word is a record of directory, name and extension; a text is a        *)
(* sequence of words.  The recursion search_rule / resolve_deps is         *)
(* `stack'.  `makefile', `goal' and `failing' are the program's input.     *)
(* A word has at most the 29 letters of bind_str, a variable's name at     *)
(* least two.  Wildcards (FindFirstFile) are left out.                     *)
(***************************************************************************)
EXTENDS Integers, Sequences, SequencesExt, FiniteSets, FiniteSetsExt, Functions

CONSTANTS
  Worlds,     \* makefile: lines; files: words on disk; goal: argv[2]; failing: words
  MaxAllocs,  \* entries behind HEAP_HEAD: 50, one of them for the makefile's text
  CmdMax,     \* words CMD_P has room for: 240 bytes
  FullMax,    \* words bind_full_str has room for: 100 bytes
  MaxDepth    \* calls of search_rule the program's own stack has room for

VARIABLES
  world, at,        \* the input, and the number of lines read
  ctx, junk,        \* CONTEXT_...; p1 is left over from an earlier line
  cur,              \* fields of *a_rule and the name of *a_var, not yet counted
  rules, vars,      \* RULES_P, VARS_P
  allocs,           \* HEAP_CUR - HEAP_HEAD
  bind_str,         \* what % stands for
  stack,            \* frames [rule, goal, rest, stem]: dependencies to look at
  files, ran,       \* words on disk; commands given to do_exec, in order
  phase

parseVars == <<at, ctx, junk, cur, vars, allocs>>
allVars == <<world, parseVars, rules, bind_str, stack, files, ran, phase>>

Word(d, b, e) == [dir |-> d, base |-> b, ext |-> e]
Null == Word("", "", "")          \* no string at all
Garbled == Word("?", "", "")      \* text of several lines
Out == Word("$", "@", "")
In == Word("$", "<", "")
Ref(v) == Word("$(", v, "")       \* $(v), and its index once retrieve has seen it
NewLine == "\n"
BrokenRef == Ref("")              \* $(v without the bracket: the index is a letter

\* Lines: head (target : deps), var (name := value), text, blank.
Line(kind, w, text) == [kind |-> kind, word |-> w, text |-> text]

IsRef(w) == w.dir = "$("

Words == [dir : STRING, base : STRING, ext : STRING]
Lines == [kind : {"head", "var", "text", "blank"}, word : Words, text : Seq(Words)]

ASSUME WorldsAssumption ==
  \A w \in Worlds : w.makefile \in Seq(Lines) /\ w.goal \in Words
ASSUME LimitsAssumption ==
  /\ MaxAllocs \in Nat /\ MaxDepth \in Nat \ {0}
  /\ CmdMax \in Nat \ {0} /\ FullMax \in Nat \ {0}

Init ==
  /\ world \in Worlds
  /\ at = 0 /\ ctx = {} /\ junk = FALSE
  /\ cur = [target |-> Null, deps |-> <<>>, name |-> ""]
  /\ rules = <<>> /\ vars = <<>>
  /\ allocs = 1
  /\ bind_str = "" /\ stack = <<>>
  /\ files = world.files /\ ran = <<>>
  /\ phase = "parse"

----------------------------------------------------------------------------
(* parse                                                                   *)

lookup_vars(v) == SelectInSeq(vars, LAMBDA x : x.name = v)

\* check_var: a variable that is not defined yet cuts the text behind its name.
\* Behind one that is the next letter is stored unseen, at the end of the text
\* the letter that ended it.
retrieve(text, end) ==
  LET unknown == {i \in DOMAIN text : IsRef(text[i]) /\ lookup_vars(text[i].base) = 0}
  IN  CASE unknown # {} -> Append(SubSeq(text, 1, Min(unknown) - 1), BrokenRef)
        [] unknown = {} /\ text # <<>> /\ IsRef(Last(text)) ->
             Append(Front(text), [Last(text) EXCEPT !.ext = end])
        [] OTHER -> text

\* Everything up to the newline: ":" and ":=" set a target, or a variable's name.
Opened(l) == ctx \cup (IF l.kind = "head" THEN {"TARGET"} ELSE {})
                 \cup (IF l.kind = "var" THEN {"VARIABLE"} ELSE {})
Started(l) ==
  [target |-> IF l.kind # "head" THEN cur.target ELSE IF junk THEN Garbled
             ELSE Head(retrieve(<<l.word>>, ":")),
   deps |-> cur.deps,
   name |-> IF l.kind # "var" THEN cur.name ELSE IF junk THEN "?" ELSE l.word.base]

\* With the blocks retrieve takes for the line: its name or target, and the rest.
Stored(l) == allocs + (IF l.kind = "text" THEN 0 ELSE 1) + (IF Opened(l) = {} THEN 0 ELSE 1)

EndCommand_CmdKept(l) ==
  /\ "CMD" \in Opened(l)
  /\ rules' = Append(rules, [target |-> Started(l).target, deps |-> cur.deps,
                             cmd |-> retrieve(l.text, NewLine)])
  /\ cur' = [target |-> Null, deps |-> <<>>, name |-> Started(l).name]
  /\ ctx' = Opened(l)
  /\ junk' = FALSE /\ UNCHANGED vars

\* The newline: a command before dependencies before a variable's value.
EndCommand(l) ==
  /\ "CMD" \in Opened(l)
  /\ rules' = Append(rules, [target |-> Started(l).target, deps |-> cur.deps,
                             cmd |-> retrieve(l.text, NewLine)])
  /\ cur' = [target |-> Null, deps |-> <<>>, name |-> Started(l).name]
  /\ ctx' = Opened(l) \ {"CMD"}
  /\ junk' = FALSE /\ UNCHANGED vars

EndDeps(l) ==
  /\ "TARGET" \in Opened(l) /\ "CMD" \notin Opened(l)
  /\ cur' = [Started(l) EXCEPT !.deps = retrieve(l.text, NewLine)]
  /\ ctx' = (Opened(l) \ {"TARGET"}) \cup {"CMD"}
  /\ junk' = FALSE /\ UNCHANGED <<rules, vars>>

EndVariable(l) ==
  /\ Opened(l) = {"VARIABLE"}
  /\ vars' = Append(vars, [name |-> Started(l).name, value |-> retrieve(l.text, NewLine)])
  /\ cur' = Started(l) /\ ctx' = {}
  /\ junk' = FALSE /\ UNCHANGED rules

\* A line that is nothing of this leaves p1 at its first letter.
EndStray(l) ==
  /\ Opened(l) = {}
  /\ junk' = TRUE /\ UNCHANGED <<cur, ctx, rules, vars>>

parse ==
  /\ phase = "parse" /\ at < Len(world.makefile)
  /\ LET l == world.makefile[at + 1] IN
     IF l.kind = "blank"
       THEN UNCHANGED <<ctx, junk, cur, rules, vars, allocs, phase>>
       ELSE /\ EndCommand(l) \/ EndDeps(l) \/ EndVariable(l) \/ EndStray(l)
            /\ allocs' = Stored(l)
            /\ phase' = IF Stored(l) > MaxAllocs THEN "stuck" ELSE phase
  /\ at' = at + 1
  /\ UNCHANGED <<world, bind_str, stack, files, ran>>

parsed ==
  /\ phase = "parse" /\ at = Len(world.makefile)
  /\ phase' = "goal"
  /\ UNCHANGED <<world, parseVars, rules, bind_str, stack, files, ran>>

----------------------------------------------------------------------------
(* Rules for words                                                         *)

\* has_suffix of a target: % as the first letter counts as no %.
HasStem(t) == t.base = "%" /\ t.dir # ""

\* bind_suffix compares what follows the %, never what is in front of it.
Matches(r, w) == r.target = w \/ (HasStem(r.target) /\ r.target.ext = w.ext)

\* The stem is what remains behind as many letters as the pattern's directory
\* has: directories have one length, and a word without one is shorter.
StemOf(w) == IF w.dir = "" THEN "" ELSE w.base

\* resolve_var_suffix
Stemmed(w, stem) == IF w.base = "%" THEN [w EXCEPT !.base = stem] ELSE w

\* check_assign_var copies the value as it is, variables in it unexpanded; what
\* retrieve stored behind the reference stays behind it.
Value(w) ==
  IF IsRef(w) /\ w # BrokenRef
    THEN vars[lookup_vars(w.base)].value \o (IF w.ext = "" THEN <<>> ELSE <<Word("", "", w.ext)>>)
    ELSE <<w>>

bound(r, w) ==
  CASE w = Out -> Value(Stemmed(r.target, bind_str))
    [] w = In  -> IF r.deps = <<>> THEN <<>> ELSE Value(Stemmed(Head(r.deps), bind_str))
    [] OTHER   -> Value(w)
bind_cmd(r) == FlattenSeq([i \in DOMAIN r.cmd |-> bound(r, r.cmd[i])])

\* Nothing tests for the end of CMD_P, or of bind_full_str on the way to it.
Overruns(r) ==
  \/ Len(bind_cmd(r)) > CmdMax
  \/ \E w \in {Out, In} \cap Range(r.cmd) : Len(bound(r, w)) > FullMax

----------------------------------------------------------------------------
(* search_rule and resolve_deps                                            *)

Top == Last(stack)

\* The word search_rule is called for: the goal, or a dependency not on disk.
Dependency == Stemmed(Head(Top.rest), bind_str)
InDeps == phase = "build" /\ stack # <<>> /\ Top.rest # <<>>
Asked == IF phase = "goal" THEN world.goal ELSE Dependency
Asking_Anyway == phase = "goal" \/ InDeps
Asking == phase = "goal" \/ (InDeps /\ Dependency \notin files)
Caller_SameWord == IF phase = "goal" THEN <<>> ELSE stack
Caller == IF phase = "goal" THEN <<>> ELSE [stack EXCEPT ![Len(stack)].rest = Tail(@)]

\* The first rule that matches, or before it one with no target to compare.
Hit == SelectInSeq(rules, LAMBDA r : r.target = Null \/ Matches(r, Asked))

\* Down to resolve_deps, whose first _strtok ends the text of the dependencies
\* behind the first one, for good.
EnterRule ==
  LET r == rules[Hit] IN
  /\ Asking /\ Hit # 0 /\ r.target # Null /\ Len(stack) < MaxDepth
  /\ stack' = Append(Caller, [rule |-> Hit, goal |-> Asked, rest |-> r.deps,
                              stem |-> r.target # Asked])
  /\ rules' = [rules EXCEPT ![Hit].deps = SubSeq(@, 1, Min({1, Len(@)}))]
  /\ bind_str' = IF r.target # Asked THEN StemOf(Asked) ELSE bind_str
  /\ phase' = "build"
  /\ UNCHANGED <<world, parseVars, files, ran>>

NoRule ==
  /\ Asking /\ Hit = 0
  /\ stack' = Caller
  /\ phase' = IF phase = "goal" THEN "done" ELSE phase
  /\ UNCHANGED <<world, parseVars, rules, bind_str, files, ran>>

\* strcmp with no string, or rules that need each other.
SearchFails ==
  /\ Asking /\ Hit # 0
  /\ rules[Hit].target = Null \/ Len(stack) = MaxDepth
  /\ phase' = "stuck"
  /\ UNCHANGED <<world, parseVars, rules, bind_str, stack, files, ran>>

OnDisk ==
  /\ InDeps /\ Dependency \in files
  /\ stack' = Caller
  /\ UNCHANGED <<world, parseVars, rules, bind_str, files, ran, phase>>

\* What the command does: it writes $@ if it names it and has its $<.
Creates(r) ==
  IF /\ Out \in Range(r.cmd)
     /\ (In \in Range(r.cmd) /\ r.deps # <<>>) => Stemmed(Head(r.deps), bind_str) \in files
     /\ Top.goal \notin world.failing
    THEN {Stemmed(r.target, bind_str)} ELSE {}

AfterExec == IF Len(stack) = 1 THEN "done" ELSE phase

do_exec_AlwaysUnbound ==
  LET cmd == bind_cmd(rules[Top.rule]) IN
  /\ phase = "build" /\ stack # <<>> /\ Top.rest = <<>>
  /\ IF BrokenRef \in Range(cmd) \/ Overruns(rules[Top.rule])
       THEN phase' = "stuck" /\ UNCHANGED <<ran, files, bind_str, stack>>
       ELSE /\ ran' = Append(ran, [goal |-> Top.goal, cmd |-> cmd])
            /\ files' = files \cup Creates(rules[Top.rule])
            /\ bind_str' = ""
            /\ stack' = Front(stack)
            /\ phase' = AfterExec
  /\ UNCHANGED <<world, parseVars, rules>>

\* A broken reference is an index behind the variables; what it or an overrun
\* does to the heap is not followed.  The result of the command is not looked at.
\* A pattern rule clears bind_str, which may be the stem of the rule that waits
\* for it.
do_exec ==
  LET cmd == bind_cmd(rules[Top.rule]) IN
  /\ phase = "build" /\ stack # <<>> /\ Top.rest = <<>>
  /\ IF BrokenRef \in Range(cmd) \/ Overruns(rules[Top.rule])
       THEN phase' = "stuck" /\ UNCHANGED <<ran, files, bind_str, stack>>
       ELSE /\ ran' = Append(ran, [goal |-> Top.goal, cmd |-> cmd])
            /\ files' = files \cup Creates(rules[Top.rule])
            /\ bind_str' = IF Top.stem THEN "" ELSE bind_str
            /\ stack' = Front(stack)
            /\ phase' = AfterExec
  /\ UNCHANGED <<world, parseVars, rules>>

Next == parse \/ parsed \/ EnterRule \/ NoRule \/ SearchFails \/ OnDisk \/ do_exec

Spec == Init /\ [][Next]_allVars /\ WF_allVars(Next)

----------------------------------------------------------------------------
(* What the makefile says                                                  *)

\* The numbers of the lines of these kinds, of the first n lines.
LinesOf(kinds, s, n) ==
  LET f[i \in 0 .. Len(s)] ==
        IF i = 0 THEN <<>> ELSE IF s[i].kind \in kinds THEN Append(f[i - 1], i) ELSE f[i - 1]
  IN  f[n]
Numbers(kind, s) == LinesOf({kind}, s, Len(s))
Solid(m) ==
  LET solid == LinesOf({"head", "var", "text"}, m, Len(m)) IN [i \in DOMAIN solid |-> m[solid[i]]]

\* Each head has a target and one command behind it, and variables have a name
\* and are defined once, before use.  A reference is not a target and not the
\* last word of a line: it would take the letter behind it along.
WellFormed(s) ==
  /\ \A i \in DOMAIN s :
       /\ s[i].kind = "head" =>
            s[i].word # Null /\ ~ IsRef(s[i].word) /\ i < Len(s) /\ s[i + 1].kind = "text"
       /\ s[i].kind = "var" => s[i].word.base # ""
       /\ s[i].kind = "text" => i > 1 /\ s[i - 1].kind = "head"
       /\ s[i].text # <<>> => ~ IsRef(Last(s[i].text))
       /\ \A w \in Range(s[i].text) : IsRef(w) =>
            w = Ref(w.base) /\ \E j \in 1 .. i - 1 : s[j].kind = "var" /\ s[j].word.base = w.base
  /\ \A i, j \in DOMAIN s :
       s[i].kind = "var" /\ s[j].kind = "var" /\ s[i].word.base = s[j].word.base => i = j

RulesIn(s) ==
  LET heads == Numbers("head", s)
  IN  [i \in DOMAIN heads |->
         [target |-> s[heads[i]].word, deps |-> s[heads[i]].text, cmd |-> s[heads[i] + 1].text]]
VarsIn(s) ==
  LET defs == Numbers("var", s)
  IN  [i \in DOMAIN defs |-> [name |-> s[defs[i]].word.base, value |-> s[defs[i]].text]]

\* The readable makefiles, each with its rules and variables.
Readable ==
  {m \in {w.makefile : w \in Worlds} :
     /\ WellFormed(Solid(m))
     /\ 1 + 3 * Len(RulesIn(Solid(m))) + 2 * Len(VarsIn(Solid(m))) <= MaxAllocs}
Reading == [m \in Readable |-> [rules |-> RulesIn(Solid(m)), vars |-> VarsIn(Solid(m))]]

\* The rule of a word, as a reader of the makefile sees it.
Makes(r, w) ==
  \/ r.target = w
  \/ r.target.base = "%" /\ r.target.dir = w.dir /\ r.target.ext = w.ext
RulesFor(m, w) == {r \in Range(Reading[m].rules) : Makes(r, w)}
DepsFor(m, w) ==
  UNION {{Stemmed(d, IF r.target = w THEN "%" ELSE w.base) : d \in Range(r.deps)} :
           r \in RulesFor(m, w)}
NeedsAfter(m, w) ==
  LET n[i \in 0 .. MaxDepth] ==
        IF i = 0 THEN DepsFor(m, w)
        ELSE LET s == n[i - 1] IN s \cup UNION {DepsFor(m, d) : d \in s}
  IN  n
Needs(m, w) == NeedsAfter(m, w)[MaxDepth]
ByPattern(m, w) == \E r \in RulesFor(m, w) : r.target # w

\* Rules that do not need each other, one for each word, and names without a %.
Buildable ==
  {w \in Worlds :
     /\ w.makefile \in Readable
     /\ \A v \in {w.goal} \cup Needs(w.makefile, w.goal) :
          LET m == w.makefile IN
          /\ v \notin Needs(m, v)
          /\ Cardinality(RulesFor(m, v)) <= 1
          /\ RulesFor(m, v) = {r \in Range(Reading[m].rules) : Matches(r, v)}
          /\ ~ IsRef(v) /\ v.base # "%"}

\* The command of a rule for a word.
Spelled(m, w, r) ==
  LET spell(tok) ==
        CASE tok = Out  -> <<w>>
          [] tok = In   -> IF r.deps = <<>> THEN <<>> ELSE <<Stemmed(Head(r.deps), w.base)>>
          [] IsRef(tok) -> (CHOOSE v \in Range(Reading[m].vars) : v.name = tok.base).value
          [] OTHER      -> <<tok>>
  IN  FlattenSeq([i \in DOMAIN r.cmd |-> spell(r.cmd[i])])

\* A pattern rule needs its stem until its end, and names it in its first
\* dependency only: the text of the others is gone at its second use.  Commands
\* fit CMD_P.
Supported ==
  {w \in Buildable :
     \A v \in {w.goal} \cup Needs(w.makefile, w.goal) :
       LET m == w.makefile IN
       /\ ByPattern(m, v) =>
            /\ \A d \in Needs(m, v) : ~ ByPattern(m, d)
            /\ \A r \in RulesFor(m, v) : \A i \in DOMAIN r.deps : r.deps[i].base = "%" => i = 1
       /\ \A r \in RulesFor(m, v) : Len(Spelled(m, v, r)) <= CmdMax}

\* Supported, with every source on disk and no command that fails.
Complete ==
  {w \in Supported :
     /\ w.failing = {} /\ RulesFor(w.makefile, w.goal) # {}
     /\ \A v \in Needs(w.makefile, w.goal) : RulesFor(w.makefile, v) = {} => v \in w.files}

RanAsWritten ==
  \A n \in DOMAIN ran : \E r \in RulesFor(world.makefile, ran[n].goal) :
    ran[n].cmd = Spelled(world.makefile, ran[n].goal, r)

----------------------------------------------------------------------------
(* Properties                                                              *)

\* parse reads every makefile whose heads each have a command and whose lines do
\* not end in a reference, blank lines and variables wherever they stand, as it
\* is written, up to the last entry behind HEAP_HEAD.
ReadAsWritten ==
  (at = Len(world.makefile) /\ phase \in {"parse", "goal", "stuck"} /\ ran = <<>> /\ stack = <<>>
   /\ world.makefile \in Readable) =>
    [rules |-> rules, vars |-> vars] = Reading[world.makefile] /\ phase # "stuck"

\* Every command is that of its target's rule, with the target for $@, the first
\* dependency for $< and the values of the variables, although _strtok cuts the
\* rules' text and all rules share one bind_str.
CommandsAsWritten == world \in Supported => RanAsWritten

\* A command runs only when each dependency is on disk, has no rule, or has had
\* its own command run, failing or not; a target that gets written is made once.
PrerequisitesFirst ==
  world \in Supported =>
    /\ \A n \in DOMAIN ran : \A d \in DepsFor(world.makefile, ran[n].goal) :
         \/ d \in world.files \/ RulesFor(world.makefile, d) = {}
         \/ \E m \in 1 .. n - 1 : ran[m].goal = d
    /\ \A n, m \in DOMAIN ran :
         (ran[n].goal = ran[m].goal /\ ran[n].goal \in files \ world.files) => n = m

\* With every source on disk and no failing command the goal is made and the tool
\* ends, whatever the order of the rules and whatever was on disk before.
GoalIsMade ==
  world \in Complete ~> (phase = "done" /\ \E n \in DOMAIN ran : ran[n].goal = world.goal)
=============================================================================
