----------------------------- MODULE ConfigFile -----------------------------
(***************************************************************************)
(* The config file between those who write it: `nyet import datagrip --write`  *)
(* (src/datagrip.rs, main.rs append_to_config), `nyet settings`, and the owner *)
(* in the editor that settings starts. Imports run side by side; nothing locks *)
(* the file.                                                                   *)
(*                                                                             *)
(* A name is a sequence of words, with "-" for each run of characters an alias *)
(* does not keep. A section is its alias and whether the config with it loads. *)
(***************************************************************************)
EXTENDS Naturals, Sequences, FiniteSets, SequencesExt

CONSTANTS
    Imports,            \* import commands
    Found(_),           \* the data sources each finds: a sequence per readable file
    Settings,           \* settings commands
    Saved,              \* what an owner may save
    Start,              \* the files there may be at first
    NoFile

VARIABLES
    file,       \* a sequence of sections, or NoFile
    pc,         \* of every command
    mapped,     \* what an import makes of its sources
    taken,      \* the aliases an import saw in the file
    existed     \* whether settings found a file

vars == <<file, pc, mapped, taken, existed>>

Contents == IF file = NoFile THEN << >> ELSE file

Aliases(sections) == {sections[i].alias : i \in DOMAIN sections}

Distinct(sections) == Cardinality(Aliases(sections)) = Len(sections)

(***************************************************************************)
(* datagrip.rs: one decision per data source.                                  *)
(***************************************************************************)
IsDash(word) == word = "-"

\* alias_for: no dash first or last, and never nothing.
AliasFor(name) ==
    LET kept == {i \in DOMAIN name : ~IsDash(name[i])}
    IN  IF kept = {} THEN <<"connection">> ELSE SubSeq(name, Min(kept), Max(kept))

Kept(source) == source.driver # "unknown" /\ source.url # "unreadable"

\* unique_alias counts each base by itself, over the whole import.
UniqueAlias(sources, i) ==
    LET base  == AliasFor(sources[i].name)
        count == Cardinality({j \in 1 .. i : Kept(sources[j]) /\ AliasFor(sources[j].name) = base})
    IN  IF count = 1 THEN base ELSE base \o <<"-", ToString(count)>>

\* A tunnel's far end is the url's address, with its port if the url has one:
\* a config whose remote has no port does not load.
Section(sources, i) ==
    [alias |-> UniqueAlias(sources, i),
     loads |-> sources[i].driver = "sqlite" \/ ~sources[i].tunnel \/ sources[i].url = "host:port"]

MapSources(sources) ==
    LET ready == SelectSeq([i \in DOMAIN sources |-> i], LAMBDA i : Kept(sources[i]))
    IN  [n \in DOMAIN ready |-> Section(sources, ready[n])]

(***************************************************************************)
(* import: discover and map; read the file; append.                            *)
(***************************************************************************)
Goto(p, next) == pc' = [pc EXCEPT ![p] = next]

Collect(p) ==
    /\ p \in Imports /\ pc[p] = "start"
    /\ LET all == FlattenSeq(Found(p))
       IN  mapped' = [mapped EXCEPT ![p] = MapSources(all)] /\
           Goto(p, IF all = << >> THEN "failed" ELSE "look")
    /\ UNCHANGED <<file, taken, existed>>

\* A file that is not there, not text or not TOML takes no alias.
Look(p) ==
    /\ p \in Imports /\ pc[p] = "look"
    /\ taken' = [taken EXCEPT ![p] = IF Distinct(Contents) THEN Aliases(Contents) ELSE {}]
    /\ Goto(p, "append")
    /\ UNCHANGED <<file, mapped, existed>>

\* The config that is there wins.
New(p) == SelectSeq(mapped[p], LAMBDA s : s.alias \notin taken[p])

AppendSections(p) ==
    /\ p \in Imports /\ pc[p] = "append"
    /\ file' = IF New(p) = << >> THEN file ELSE Contents \o New(p)
    /\ Goto(p, "done")
    /\ UNCHANGED <<mapped, taken, existed>>

\* The file does not open, or takes a part of the text and keeps it.
WriteFails(p) ==
    /\ p \in Imports /\ pc[p] = "append" /\ New(p) # << >>
    /\ \/ UNCHANGED file
       \/ \E n \in DOMAIN New(p) :
              LET cut == [New(p)[n] EXCEPT !.loads = FALSE]
              IN  file' = Contents \o Append(SubSeq(New(p), 1, n - 1), cut)
    /\ Goto(p, "failed")
    /\ UNCHANGED <<mapped, taken, existed>>

(***************************************************************************)
(* settings: the file is made, the owner edits it, an empty new one goes.      *)
(***************************************************************************)
OpenSettings(p) ==
    /\ p \in Settings /\ pc[p] = "start"
    /\ existed' = [existed EXCEPT ![p] = file # NoFile]
    /\ file' = Contents
    /\ Goto(p, "editor")
    /\ UNCHANGED <<mapped, taken>>

NoEditor(p) ==
    /\ p \in Settings /\ pc[p] = "editor" /\ Goto(p, "failed")
    /\ UNCHANGED <<file, mapped, taken, existed>>

Edit(p) ==
    /\ p \in Settings /\ pc[p] = "editor"
    /\ file' = file \/ \E text \in Saved : file' = text
    /\ Goto(p, "tidy")
    /\ UNCHANGED <<mapped, taken, existed>>

Tidy(p) ==
    /\ p \in Settings /\ pc[p] = "tidy"
    /\ Goto(p, IF ~existed[p] /\ file = << >> THEN "remove" ELSE "done")
    /\ UNCHANGED <<file, mapped, taken, existed>>

RemoveEmpty(p) ==
    /\ p \in Settings /\ pc[p] = "remove"
    /\ file' = NoFile /\ Goto(p, "done")
    /\ UNCHANGED <<mapped, taken, existed>>

Init ==
    /\ file \in Start
    /\ pc = [p \in Imports \cup Settings |-> "start"]
    /\ mapped = [p \in Imports |-> << >>] /\ taken = [p \in Imports |-> {}]
    /\ existed = [p \in Settings |-> FALSE]

Next ==
    \E p \in Imports \cup Settings :
        \/ Collect(p) \/ Look(p) \/ AppendSections(p) \/ WriteFails(p)
        \/ OpenSettings(p) \/ NoEditor(p) \/ Edit(p) \/ Tidy(p) \/ RemoveEmpty(p)

Spec == Init /\ [][Next]_vars

(***************************************************************************)
(* Properties.                                                                 *)
(***************************************************************************)

\* A config loads if no two sections have one alias (such a file is no TOML)
\* and each section is sound.
Loads(sections) == Distinct(sections) /\ \A i \in DOMAIN sections : sections[i].loads

\* No import takes a config that loads to one that does not, which every later
\* command would refuse (map_sources, append_to_config).
ImportKeepsItLoading ==
    [][\A p \in Imports : AppendSections(p) /\ Loads(Contents) => Loads(Contents')]_vars

\* A file that settings made and nobody wrote to is gone once settings is:
\* an empty config would say "no connections" for "no config" (settings).
NoEmptyFileIsLeft ==
    \A p \in Settings : pc[p] \in {"done", "failed"} /\ ~existed[p] => file # << >>
=============================================================================
