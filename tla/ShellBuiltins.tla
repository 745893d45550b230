----------------------------- MODULE ShellBuiltins -----------------------------
(* The tables of one shell (runtime/shell_state.cpp) as operators on a record: *)
(* variables with their attributes, positional parameters, options, functions  *)
(* and aliases, and the kernel's idea of the working directory; and the        *)
(* builtins that change them (runtime/builtins.cpp).  A value is a sequence of *)
(* characters or of path components; a path is absolute when its first element *)
(* is "/".  A builtin's operator answers the shell after the call and the      *)
(* status; a failure is always failure_kind::usage here, which a special       *)
(* builtin dies of.                                                            *)
EXTENDS Integers, Sequences, SequencesExt

CONSTANTS
    Names,      \* the names of variables, as strings
    Dirs,       \* the directories there are, by their physical path
    Links       \* a function from the path of a symbolic link to a directory

ASSUME ShellNames == {"OPTIND", "OPTARG", "PWD", "OLDPWD", "HOME", "IFS"} \subseteq Names
ASSUME ShellDirs == <<>> \in Dirs /\ \A l \in DOMAIN Links : Links[l] \in Dirs

Absent == [value |-> <<>>, assigned |-> FALSE, exported |-> FALSE, readonly |-> FALSE]
Assigned(value, exported) ==
    [value |-> value, assigned |-> TRUE, exported |-> exported, readonly |-> FALSE]

(* Decimal values, as far as OPTIND counts here. *)
Digits == <<"0", "1", "2", "3", "4", "5", "6", "7", "8", "9">>
Numeral(n) == <<Digits[n + 1]>>
Number(value) ==
    IF Len(value) = 1 /\ \E n \in 0..9 : Digits[n + 1] = value[1]
    THEN CHOOSE n \in 0..9 : Digits[n + 1] = value[1]
    ELSE 0

-------------------------------------------------------------------------------
(* Variables. *)

is_readonly(sh, name) == sh.vars[name].readonly
is_set(sh, name) == sh.vars[name].assigned
lookup(sh, name) == sh.vars[name].value

(* The one place every assignment goes through.  A refused one changes nothing,
   the getopts position included. *)
set(sh, name, value) ==
    IF is_readonly(sh, name) THEN sh
    ELSE [sh EXCEPT !.vars[name] = Assigned(value, @.exported \/ "allexport" \in sh.options),
                    !.offset = IF name = "OPTIND" THEN 0 ELSE @]

set_exported(sh, name, value) ==
    IF is_readonly(sh, name) THEN sh
    ELSE [set(sh, name, value) EXCEPT !.vars[name].exported = TRUE]

mark_exported(sh, name) == [sh EXCEPT !.vars[name].exported = TRUE]
mark_readonly(sh, name) == [sh EXCEPT !.vars[name].readonly = TRUE]

unset(sh, name) ==
    IF is_readonly(sh, name) THEN sh
    ELSE [sh EXCEPT !.vars[name] = Absent,
                    !.offset = IF name = "OPTIND" THEN 0 ELSE @]

(* set() clears the offset, so it is written back after the index. *)
set_optind(sh, index, offset) ==
    IF is_readonly(sh, "OPTIND") THEN sh
    ELSE [set(sh, "OPTIND", Numeral(index)) EXCEPT !.offset = offset]

environment_block(sh) ==
    {[name |-> n, value |-> lookup(sh, n)] :
        n \in {m \in Names : sh.vars[m].exported /\ sh.vars[m].assigned}}

-------------------------------------------------------------------------------
(* Positional parameters, functions and aliases, options. *)

set_positional(sh, values) == [sh EXCEPT !.positional = values]
CanShift(sh, n) == n <= Len(sh.positional)
shift_positional(sh, n) == [sh EXCEPT !.positional = SubSeq(@, n + 1, Len(@))]

define_function(sh, name) == [sh EXCEPT !.functions = @ \union {name}]
set_alias(sh, name) == [sh EXCEPT !.aliases = @ \union {name}]
unset_alias(sh, name) == [sh EXCEPT !.aliases = @ \ {name}]

apply_option_name(sh, option, enable) ==
    [sh EXCEPT !.options = IF enable THEN @ \union {option} ELSE @ \ {option}]

-------------------------------------------------------------------------------
(* Where the shell is.  sh.cwd is the kernel's physical path, and sh.dirs the   *)
(* directories that still exist.                                               *)

Nowhere == <<"nowhere">>
Parent(path) == IF path = <<>> THEN path ELSE SubSeq(path, 1, Len(path) - 1)

Walk(sh, start, names) ==
    LET to[i \in 0..Len(names)] ==
            IF i = 0 THEN start
            ELSE LET at == to[i - 1]
                     next == Append(at, names[i])
                 IN CASE at = Nowhere -> Nowhere
                      [] names[i] = "." -> at
                      [] names[i] = ".." -> Parent(at)
                      [] next \in DOMAIN Links -> IF Links[next] \in sh.dirs THEN Links[next] ELSE Nowhere
                      [] next \in sh.dirs -> next
                      [] OTHER -> Nowhere
    IN to[Len(names)]

IsAbsolute(path) == path # <<>> /\ path[1] = "/"
Resolve(sh, path) == Walk(sh, <<>>, Tail(path))
Path(physical) == <<"/">> \o physical

(* No dot, no dot-dot, and it names the directory the shell is in. *)
names_current_directory(sh, path) ==
    /\ IsAbsolute(path)
    /\ \A i \in DOMAIN path : path[i] \notin {".", ".."}
    /\ Resolve(sh, path) = sh.cwd

(* getcwd has no answer for a directory that was removed. *)
physical_working_directory(sh) == IF sh.cwd \in sh.dirs THEN Path(sh.cwd) ELSE <<>>

logical_working_directory(sh) ==
    IF is_set(sh, "PWD") /\ names_current_directory(sh, lookup(sh, "PWD"))
    THEN lookup(sh, "PWD")
    ELSE physical_working_directory(sh)

(* The shell as it starts in directory cwd: OPTIND, IFS and a PWD that is true. *)
Started(cwd, inherited) ==
    LET sh == [vars |-> [n \in Names |->
                            CASE n = "OPTIND" -> Assigned(Numeral(1), FALSE)
                              [] n = "IFS" -> Assigned(<<" ">>, FALSE)
                              [] n \in DOMAIN inherited -> Assigned(inherited[n], TRUE)
                              [] OTHER -> Absent],
               offset |-> 0, positional |-> <<>>, functions |-> {}, aliases |-> {},
               options |-> {}, cwd |-> cwd, dirs |-> Dirs, status |-> 0]
    IN IF is_set(sh, "PWD") /\ names_current_directory(sh, lookup(sh, "PWD")) THEN sh
       ELSE [sh EXCEPT !.vars["PWD"] = Assigned(Path(cwd), TRUE)]
-------------------------------------------------------------------------------
(* The builtins. *)

Done(sh, status) == [sh |-> sh, status |-> status]

Special == {":", "exit", "export", "readonly", "return", "set", "shift", "unset", "eval", "exec"}
Regular == {"alias", "unalias", "cd", "echo", "getopts", "pwd", "read", "true", "wait"}

(* A list of writes, done in order, each refused for itself. *)
Wrote(before, w) ==
    [refused |-> before.refused \/ is_readonly(before.sh, w.name),
     sh |-> CASE w.do = "set" -> set(before.sh, w.name, w.value)
              [] w.do = "unset" -> unset(before.sh, w.name)
              [] w.do = "optind" -> set_optind(before.sh, w.value, w.offset)]
Written(sh, writes) ==
    LET after[i \in 0..Len(writes)] ==
            IF i = 0 THEN [sh |-> sh, refused |-> FALSE] ELSE Wrote(after[i - 1], writes[i])
    IN after[Len(writes)]
Put(name, value) == [do |-> "set", name |-> name, value |-> value]
Erase(name) == [do |-> "unset", name |-> name]
Index(value, offset) == [do |-> "optind", name |-> "OPTIND", value |-> value, offset |-> offset]

-------------------------------------------------------------------------------
(* export and readonly: operands are [name, value] or [name] alone, taken in
   order up to the first that is refused.  `export name` is not an assignment. *)
Declared(sh, operand, make_readonly) ==
    LET given == IF ~operand.assigns THEN IF make_readonly THEN sh ELSE mark_exported(sh, operand.name)
                 ELSE IF make_readonly THEN set(sh, operand.name, operand.value)
                 ELSE set_exported(sh, operand.name, operand.value)
    IN IF make_readonly THEN mark_readonly(given, operand.name) ELSE given

DeclaredNext(before, o, make_readonly) ==
    IF before.status # 0 THEN before
    ELSE IF o.assigns /\ is_readonly(before.sh, o.name) THEN Done(before.sh, 2)
    ELSE Done(Declared(before.sh, o, make_readonly), 0)
run_declaration(sh, operands, make_readonly) ==
    LET after[i \in 0..Len(operands)] ==
            IF i = 0 THEN Done(sh, 0) ELSE DeclaredNext(after[i - 1], operands[i], make_readonly)
    IN after[Len(operands)]

(* unset goes on after a refusal and answers 2 for it. *)
unset_names(sh, names) ==
    LET all == Written(sh, [i \in DOMAIN names |-> Erase(names[i])])
    IN Done(all.sh, IF all.refused THEN 2 ELSE 0)

(* set: the options in order, an unknown name stopping it half way, and then
   the positional parameters if any operand or the separator was given. *)
OptionNext(before, option) ==
    IF before.status # 0 \/ option.name = "bogus" THEN Done(before.sh, 2)
    ELSE Done(apply_option_name(before.sh, option.name, option.on), 0)
OptionsApplied(sh, options) ==
    LET after[i \in 0..Len(options)] == IF i = 0 THEN Done(sh, 0) ELSE OptionNext(after[i - 1], options[i])
    IN after[Len(options)]
set_options(sh, options, operands, replaces) ==
    LET applied == OptionsApplied(sh, options)
    IN IF applied.status # 0 \/ ~replaces THEN applied
       ELSE Done(set_positional(applied.sh, operands), 0)

shift_by(sh, n) == IF CanShift(sh, n) THEN Done(shift_positional(sh, n), 0) ELSE Done(sh, 2)

unalias_one(sh, name) == Done(unset_alias(sh, name), IF name \in sh.aliases THEN 0 ELSE 1)

-------------------------------------------------------------------------------
(* cd.  The previous logical directory becomes OLDPWD and is what a relative    *)
(* operand extends; `..` is cancelled lexically after a look at what it follows.*)

canonicalize_logical(sh, path) ==
    LET names == Tail(path)
        to[i \in 0..Len(names)] ==
            IF i = 0 THEN <<>>
            ELSE LET kept == to[i - 1]
                 IN CASE kept = Nowhere -> Nowhere
                      [] names[i] = "." -> kept
                      [] names[i] = ".." ->
                            IF kept = <<>> THEN kept
                            ELSE IF Walk(sh, <<>>, kept) = Nowhere THEN Nowhere ELSE Parent(kept)
                      [] OTHER -> Append(kept, names[i])
    IN to[Len(names)]

(* mutant: OLDPWD is read after PWD has been written *)
RecordedLate(sh, previous, next) ==
    LET moved == set_exported(sh, "PWD", next)
    IN Done(set_exported(moved, "OLDPWD", lookup(moved, "PWD")), 0)
Recorded(sh, previous, next) ==
    LET left == IF previous = <<>> THEN sh ELSE set_exported(sh, "OLDPWD", previous)
        refused == is_readonly(sh, "PWD") \/ (previous # <<>> /\ is_readonly(sh, "OLDPWD"))
    IN Done(set_exported(left, "PWD", next), IF refused THEN 2 ELSE 0)

cd_to(sh, operand, physical) ==
    LET previous == logical_working_directory(sh)
        curpath == IF IsAbsolute(operand) THEN operand
                   ELSE (IF previous = <<>> THEN <<"/">> ELSE previous) \o operand
        canonical == canonicalize_logical(sh, curpath)
        next == IF physical \/ canonical = Nowhere THEN curpath ELSE Path(canonical)
        there == Resolve(sh, next)
        moved == [sh EXCEPT !.cwd = there]
    IN IF there = Nowhere \/ (~physical /\ canonical = Nowhere) THEN Done(sh, 2)
       ELSE Recorded(moved, previous, IF physical THEN Path(there) ELSE next)

builtin_cd(sh, operand, physical) ==
    CASE operand = <<>> -> IF lookup(sh, "HOME") = <<>> THEN Done(sh, 2) ELSE cd_to(sh, lookup(sh, "HOME"), physical)
      [] operand = <<"-">> -> IF lookup(sh, "OLDPWD") = <<>> THEN Done(sh, 2) ELSE cd_to(sh, lookup(sh, "OLDPWD"), physical)
      [] OTHER -> cd_to(sh, operand, physical)

builtin_pwd(sh, physical) ==
    LET here == IF physical THEN physical_working_directory(sh) ELSE logical_working_directory(sh)
    IN Done(sh, IF here = <<>> THEN 1 ELSE 0)

-------------------------------------------------------------------------------
(* read: a line as a sequence of [char, escaped], split on IFS.                 *)

is_ifs(line, ifs, i) == ~line[i].escaped /\ \E k \in DOMAIN ifs : ifs[k] = line[i].char
is_ifs_space(line, ifs, i) == is_ifs(line, ifs, i) /\ line[i].char = " "

(* The first position from `at` on where P is false, one past the end if none. *)
PastSpaces(line, ifs, at) ==
    CHOOSE j \in at..(Len(line) + 1) :
        /\ \A i \in at..(j - 1) : is_ifs_space(line, ifs, i)
        /\ j > Len(line) \/ ~is_ifs_space(line, ifs, j)
PastField(line, ifs, at) ==
    CHOOSE j \in at..(Len(line) + 1) :
        /\ \A i \in at..(j - 1) : ~is_ifs(line, ifs, i)
        /\ j > Len(line) \/ is_ifs(line, ifs, j)
PastDelimiter(line, ifs, at) ==
    LET spaces == PastSpaces(line, ifs, at)
    IN IF spaces <= Len(line) /\ is_ifs(line, ifs, spaces)
       THEN PastSpaces(line, ifs, spaces + 1) ELSE spaces

(* The fields as [first, last], last one past the end. *)
split_line(line, ifs) ==
    LET from[at \in 1..(Len(line) + 1)] ==
            IF at > Len(line) THEN <<>>
            ELSE LET stop == PastField(line, ifs, at)
                     next == IF stop > Len(line) THEN stop ELSE PastDelimiter(line, ifs, stop)
                 IN <<[first |-> at, last |-> stop]>> \o from[next]
    IN from[PastSpaces(line, ifs, 1)]

Text(line, first, last) == [i \in 1..(last - first) |-> line[first + i - 1].char]

(* What the v-th of n names is given: its field, or all that remains. *)
ReadValue(line, ifs, v, n) ==
    LET fields == split_line(line, ifs)
        trimmed == CHOOSE j \in fields[v].first..(Len(line) + 1) :
                      /\ \A i \in j..Len(line) : is_ifs_space(line, ifs, i)
                      /\ j = fields[v].first \/ ~is_ifs_space(line, ifs, j - 1)
    IN CASE v > Len(fields) -> <<>>
         [] v = n /\ Len(fields) > n -> Text(line, fields[v].first, trimmed)
         [] OTHER -> Text(line, fields[v].first, fields[v].last)

(* The names up to the first that is refused; the end of the input before the
   delimiter is status 1 with the names assigned all the same. *)
builtin_read(sh, names, line, at_eof) ==
    LET ifs == IF is_set(sh, "IFS") THEN lookup(sh, "IFS") ELSE <<" ">>
        stop == CHOOSE k \in 0..Len(names) :
                   /\ \A i \in 1..k : ~is_readonly(sh, names[i])
                   /\ k < Len(names) => is_readonly(sh, names[k + 1])
        all == Written(sh, [i \in 1..stop |-> Put(names[i], ReadValue(line, ifs, i, Len(names)))])
    IN Done(all.sh, IF stop < Len(names) THEN 2 ELSE IF at_eof THEN 1 ELSE 0)

-------------------------------------------------------------------------------
(* getopts: OPTIND is the word still to be read, sh.offset how far into it.     *)

Word(args, i) == IF i \in DOMAIN args THEN args[i] ELSE <<>>
IsOption(word) == Len(word) >= 2 /\ word[1] = "-" /\ word # <<"-", "-">>

(* Where the call resumes: the index clamped, a stale offset dropped. *)
Resumed(sh, args) ==
    LET said == IF is_set(sh, "OPTIND") THEN Number(lookup(sh, "OPTIND")) ELSE 1
        index == IF said < 1 THEN 1 ELSE IF said > Len(args) + 1 THEN Len(args) + 1 ELSE said
        stale == said > Len(args) + 1 \/ index > Len(args) \/ sh.offset >= Len(Word(args, index))
    IN [index |-> index, offset |-> IF stale THEN 0 ELSE sh.offset]

TakesArgument(letters, option) ==
    \E i \in 1..(Len(letters) - 1) : letters[i] = option /\ letters[i + 1] = ":"

(* What one call writes, in its order, and the status. *)
Step(args, letters, quiet, name, at) ==
    LET word == Word(args, at.index)
        begins == IF at.offset = 0 THEN 1 ELSE at.offset
        option == word[begins + 1]
        done == begins + 1 >= Len(word)
        onward == IF done THEN Index(at.index + 1, 0) ELSE Index(at.index, begins + 1)
        known == option # ":" /\ \E i \in DOMAIN letters : letters[i] = option
        takes == known /\ TakesArgument(letters, option)
    IN CASE at.offset = 0 /\ ~IsOption(word) ->
              [writes |-> <<Index(IF word = <<"-", "-">> THEN at.index + 1 ELSE at.index, 0),
                            Put(name, <<"?">>), Erase("OPTARG")>>, status |-> 1]
         [] ~known ->
              [writes |-> <<onward, Put(name, <<"?">>),
                            IF quiet THEN Put("OPTARG", <<option>>) ELSE Erase("OPTARG")>>, status |-> 0]
         [] takes /\ ~done ->
              [writes |-> <<Put("OPTARG", SubSeq(word, begins + 2, Len(word))), Index(at.index + 1, 0),
                            Put(name, <<option>>)>>, status |-> 0]
         [] takes /\ at.index + 1 <= Len(args) ->
              [writes |-> <<Put("OPTARG", args[at.index + 1]), Index(at.index + 2, 0),
                            Put(name, <<option>>)>>, status |-> 0]
         [] takes ->
              [writes |-> <<Index(at.index + 1, 0)>> \o
                          (IF quiet THEN <<Put(name, <<":">>), Put("OPTARG", <<option>>)>>
                           ELSE <<Put(name, <<"?">>), Erase("OPTARG")>>), status |-> 0]
         [] OTHER ->
              [writes |-> <<Erase("OPTARG"), onward, Put(name, <<option>>)>>, status |-> 0]

builtin_getopts(sh, optstring, name, operands) ==
    LET quiet == optstring # <<>> /\ optstring[1] = ":"
        letters == IF quiet THEN Tail(optstring) ELSE optstring
        args == IF operands # <<>> THEN operands ELSE sh.positional
        step == Step(args, letters, quiet, name, Resumed(sh, args))
        all == Written(sh, step.writes)
    IN Done(all.sh, IF all.refused THEN 2 ELSE step.status)
===============================================================================
