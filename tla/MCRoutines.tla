----------------------------- MODULE MCRoutines -----------------------------
(***************************************************************************)
(* Instances for TLC of DataSets, DsFile, HashText, Sha256Stream and Defs. *)
(* The parts do not interact: a behaviour runs one of them, the others     *)
(* rest.  Defs has a specification of its own: its documentation is not    *)
(* kept.                                                                   *)
(***************************************************************************)
EXTENDS DataSets, DsFile, HashText, MCSha256, Defs

CONSTANTS h1, h2, h3

Page(n, h) == [pgno |-> n, hash |-> h]

\* Empty, of one page, and two contents of different length that share a page.
MCFiles == {<<>>, <<Page(2, h1)>>, <<Page(2, h1), Page(3, h2)>>, <<Page(3, h3), Page(5, h2), Page(6, h1)>>}

\* -1 is a data_block_num for which there is no memory.
MCSizes == {-1, 0, 2}
\* No generated set has bytes of length -1: there the program dies.
MCLengths == {-1, 0, 3}

\* Arguments of -1 and 0 are complained of and used.
MCBlockNums == {-1, 0, 1, 3}
MCStringLens == {-1, 0, 2}

\* What the file held before: the bytes of a number and two of a string.
MCOld == <<[index |-> 7, at |-> 1], [index |-> 7, at |-> 2],
           [payload |-> "s0", at |-> 1], [payload |-> "s0", at |-> 2]>>

MCDigest(s) == "sha" \o s

VARIABLE part   \* which runs

SetsRest == DsInit /\ file = <<>>
FileRests ==
  /\ wpc = "done" /\ hashed = FALSE /\ data_block_num = 0 /\ string_len = 0
  /\ wi = 0 /\ fd = -1 /\ written = Old /\ drawn = <<>> /\ whole = 0
TextRests ==
  /\ tpc = "returned" /\ absent = {} /\ hash = <<>> /\ out_string_len = 0
  /\ i = 0 /\ tmp_string = <<>> /\ out_string = <<>>
ShaRests == StreamInit
HelpersRest == DefsInit

RoutinesInit ==
  /\ HelpersRest
  /\ \/ part = "sets" /\ DsInit /\ FileRests /\ TextRests /\ ShaRests
     \/ part = "file" /\ FileInit /\ SetsRest /\ TextRests /\ ShaRests
     \/ part = "text" /\ TextInit /\ SetsRest /\ FileRests /\ ShaRests
     \/ part = "sha" /\ StreamInit /\ SetsRest /\ FileRests /\ TextRests

SetsStep == part = "sets" /\ DsNext /\ UNCHANGED <<part, fileVars, textVars, streamVars, defsVars>>
FileStep == part = "file" /\ FileNext /\ UNCHANGED <<part, dsVars, textVars, streamVars, defsVars>>
TextStep == part = "text" /\ TextNext /\ UNCHANGED <<part, dsVars, fileVars, streamVars, defsVars>>
ShaStep == part = "sha" /\ StreamNext /\ UNCHANGED <<part, dsVars, fileVars, textVars, defsVars>>

RoutinesNext == SetsStep \/ FileStep \/ TextStep \/ ShaStep

routinesVars == <<part, dsVars, fileVars, textVars, streamVars, defsVars>>

RoutinesSpec == RoutinesInit /\ [][RoutinesNext]_routinesVars

HelpersInit == part = "helpers" /\ DefsInit /\ SetsRest /\ FileRests /\ TextRests /\ ShaRests

HelpersStep == CallHelpers /\ UNCHANGED <<part, dsVars, fileVars, textVars, streamVars>>

HelpersSpec == HelpersInit /\ [][HelpersStep]_routinesVars

=============================================================================
