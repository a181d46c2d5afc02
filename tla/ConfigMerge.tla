----------------------------- MODULE ConfigMerge -----------------------------
(***************************************************************************)
(* How an agent run gets its options: config.load_config finds the         *)
(* .agent-uplink.yaml files between the working directory and home, merges *)
(* them entry by entry into defaults, and argparse lays the command line   *)
(* over them.  The first invalid file or entry ends the run with a usage   *)
(* error.                                                                  *)
(*                                                                         *)
(* The algorithm walks one way and merges the other, and treats five kinds *)
(* of option differently; the properties compare it with what the options  *)
(* should be, read off the files directly.                                 *)
(***************************************************************************)
EXTENDS Naturals, Sequences

CONSTANTS
    Dests, Kind,      \* the options, and what kind of action each is
    Mode, Modes,      \* the option the store_const flags share; its values
    Items,            \* values of options; "true" and "false" among them
    Default,          \* the parser's defaults
    Inputs            \* the inputs of a run, see Input

(* A key is an option, a store_const flag by its own name, or neither;     *)
(* valid: the value has the type and is one of the choices the key wants.  *)
(* Where no list is wanted a value is one item: a scalar, or the list or   *)
(* mapping that an option without a type takes from the file as it is      *)
(* (config.py:91-97), an item like any other since nothing looks into it.  *)
Unknown == "unknown"
IsList(d) == Kind[d] \in {"list", "positional"}
Entry == {e \in [key : Dests \cup Modes \cup {Unknown}, value : Seq(Items), valid : BOOLEAN] :
            \/ ~e.valid
            \/ e.key \in Dests /\ IsList(e.key)
            \/ Len(e.value) = 1}

(* What is in one directory: no file, an empty one, one that is no YAML    *)
(* mapping, or its entries in order.                                       *)
File == [kind : {"absent", "empty", "broken"}, entries : {<<>>}]
        \cup [kind : {"mapping"}, entries : Seq(Entry)]

(* dirs: from the working directory up to the root.  home: which of them   *)
(* is home, 0 if the working directory is not below it.  cli: the values   *)
(* given for each option, <<>> for none.                                   *)
Input == {i \in [dirs : Seq(File), home : Nat, cli : [Dests -> Seq(Items)]] :
            i.dirs # <<>> /\ i.home <= Len(i.dirs)}

ASSUME OptionAssumption ==
    /\ Kind \in [Dests -> {"mode", "list", "positional", "flag", "value"}]
    /\ \A d \in Dests : Kind[d] = "mode" <=> d = Mode
    /\ Mode \in Dests /\ Modes \cap Dests = {} /\ Modes \subseteq Items
    /\ Unknown \notin Dests \cup Modes
    /\ Default \in [Dests -> Seq(Items)]
    /\ \A d \in Dests : IsList(d) => Default[d] = <<>>
    /\ Inputs \subseteq Input

VARIABLES
    input,
    pc,        \* walk, merge, parse, done, failed
    dir,       \* the directory the walk is in
    files,     \* files found, the one to merge next at the end
    entries,   \* entries left of the file that is being merged
    merged,    \* the defaults so far, <<>> where no file says anything
    args       \* the options of the run

vars == <<input, pc, dir, files, entries, merged, args>>

Init ==
    /\ input \in Inputs
    /\ pc = "walk" /\ dir = 1
    /\ files = <<>> /\ entries = <<>>
    /\ merged = [d \in Dests |-> <<>>]
    /\ args = Default

-----------------------------------------------------------------------------
(* discover_config_files: never above home, and not at all upwards from    *)
(* outside it.                                                             *)
LastDir == dir = input.home \/ dir > input.home

Walk ==
    /\ pc = "walk"
    /\ files' = IF input.dirs[dir].kind = "absent" THEN files
                ELSE Append(files, input.dirs[dir])
    /\ IF LastDir THEN pc' = "merge" /\ UNCHANGED dir
       ELSE dir' = dir + 1 /\ UNCHANGED pc
    /\ UNCHANGED <<input, entries, merged, args>>

(* Mutant: the files are merged in the order they were found.              *)
Mut_OpenFile ==
    /\ pc = "merge" /\ entries = <<>> /\ files # <<>>
    /\ files' = Tail(files)
    /\ entries' = Head(files).entries
    /\ pc' = IF Head(files).kind = "broken" THEN "failed" ELSE "merge"
    /\ UNCHANGED <<input, dir, merged, args>>

(* The found files are reversed, so the one found last comes first.        *)
OpenFile ==
    /\ pc = "merge" /\ entries = <<>> /\ files # <<>>
    /\ LET file == files[Len(files)]
       IN  /\ files' = SubSeq(files, 1, Len(files) - 1)
           /\ entries' = file.entries
           /\ pc' = IF file.kind = "broken" THEN "failed" ELSE "merge"
    /\ UNCHANGED <<input, dir, merged, args>>

(* Mutant: the nearer file replaces a list.                                *)
Mut_Merge(m, e) ==
    CASE e.key \in Modes ->
            IF e.value = <<"true">> THEN [m EXCEPT ![Mode] = <<e.key>>] ELSE m
      [] OTHER -> [m EXCEPT ![e.key] = e.value]

(* What one valid entry makes of the defaults: the name of a store_const   *)
(* flag sets the shared option if it is true and does nothing if it is     *)
(* false; lists grow; anything else is replaced.                           *)
Merge(m, e) ==
    CASE e.key \in Modes ->
            IF e.value = <<"true">> THEN [m EXCEPT ![Mode] = <<e.key>>] ELSE m
      [] e.key \in Dests /\ IsList(e.key) ->
            [m EXCEPT ![e.key] = @ \o e.value]
      [] OTHER -> [m EXCEPT ![e.key] = e.value]

(* _merge_file, one entry.                                                 *)
MergeEntry ==
    /\ pc = "merge" /\ entries # <<>>
    /\ LET e == Head(entries)
       IN  IF e.key = Unknown \/ ~e.valid
           THEN pc' = "failed" /\ UNCHANGED <<entries, merged>>
           ELSE /\ merged' = Merge(merged, e)
                /\ entries' = Tail(entries)
                /\ UNCHANGED pc
    /\ UNCHANGED <<input, dir, files, args>>

LoadDone ==
    /\ pc = "merge" /\ entries = <<>> /\ files = <<>>
    /\ pc' = "parse"
    /\ UNCHANGED <<input, dir, files, entries, merged, args>>

(* The parser's default, then what the files said, then the command line:  *)
(* extend adds to a list, everything else, the passthrough positional      *)
(* among it, replaces.                                                     *)
Option(d) ==
    LET default == IF merged[d] # <<>> THEN merged[d] ELSE Default[d]
    IN  IF Kind[d] = "list" THEN default \o input.cli[d]
        ELSE IF input.cli[d] # <<>> THEN input.cli[d] ELSE default

(* parse_args and ClaudeAgent.__init__: the mode flags exclude each other  *)
(* on the command line, and one mode must come from somewhere.             *)
ParseArgs ==
    /\ pc = "parse"
    /\ args' = [d \in Dests |-> Option(d)]
    /\ pc' = IF Len(input.cli[Mode]) > 1 \/ Option(Mode) = <<>>
             THEN "failed" ELSE "done"
    /\ UNCHANGED <<input, dir, files, entries, merged>>

Next == Walk \/ OpenFile \/ MergeEntry \/ LoadDone \/ ParseArgs

Spec == Init /\ [][Next]_vars

-----------------------------------------------------------------------------
(* Properties.                                                             *)

(* The files a run reads, by the documentation: up to and including home,  *)
(* or the working directory's alone.                                       *)
Limit == IF input.home = 0 THEN 1 ELSE input.home
Read == 1..Limit

(* Whether an entry gives the option a value, and which.                   *)
Gives(e, d) == e.key = d \/ (d = Mode /\ e.key \in Modes /\ e.value = <<"true">>)
Value(e, d) == IF e.key = d THEN e.value ELSE <<e.key>>
Silent(k, d) == \A i \in DOMAIN input.dirs[k].entries : ~Gives(input.dirs[k].entries[i], d)

(* An option that is not a list has the command line's value, else that of *)
(* the nearest file that gives one (the last, if it gives two), else the   *)
(* parser's default (config.py's "precedence low->high").  A mode flag     *)
(* that is false in a file gives none.                                     *)
NearestWins ==
    pc = "done" =>
        \A d \in Dests : ~IsList(d) =>
            IF input.cli[d] # <<>> THEN args[d] = input.cli[d]
            ELSE \/ (\A k \in Read : Silent(k, d)) /\ args[d] = Default[d]
                 \/ \E k \in Read : \E n \in DOMAIN input.dirs[k].entries :
                        LET E == input.dirs[k].entries
                        IN  /\ Gives(E[n], d) /\ args[d] = Value(E[n], d)
                            /\ \A i \in DOMAIN E : i > n => ~Gives(E[i], d)
                            /\ \A j \in Read : j < k => Silent(j, d)

(* A sequence of sequences as one.                                         *)
Joined(parts) ==
    LET upto[n \in 0..Len(parts)] == IF n = 0 THEN <<>> ELSE upto[n - 1] \o parts[n]
    IN  upto[Len(parts)]

(* What the entries of a file add to a list.                               *)
Adds(e, d) == IF e.key = d THEN e.value ELSE <<>>
Said(E, d) == Joined([n \in DOMAIN E |-> Adds(E[n], d)])

(* A list holds the values of every file from home down to the working     *)
(* directory and then the command line's, each once and none from above    *)
(* home; the passthrough arguments are the files' unless the command line  *)
(* has its own (load_config, argparse's extend).                           *)
ListsAccumulate ==
    pc = "done" =>
        \A d \in Dests : IsList(d) =>
            LET all == Joined([i \in Read |-> Said(input.dirs[Limit + 1 - i].entries, d)])
            IN  args[d] = IF Kind[d] = "list" THEN all \o input.cli[d]
                          ELSE IF input.cli[d] # <<>> THEN input.cli[d] ELSE all
=============================================================================
