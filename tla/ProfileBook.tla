------------------------------ MODULE ProfileBook ------------------------------
(***************************************************************************)
(* What a profile store promises, whatever file it keeps the list in: one  *)
(* durable list and one list in the hands of the running program.  The     *)
(* durable list is only ever replaced, in one step, by the whole list the  *)
(* program holds; a program that falls loses its own list and no more.     *)
(***************************************************************************)
EXTENDS Sequences

CONSTANT Reload(_)   \* what a durable list becomes when a program reads it

VARIABLES
  book,      \* the durable list
  view,      \* the running program's list
  open       \* a program is running

bookVars == <<book, view, open>>

BookInit == book = << >> /\ view = << >> /\ open = FALSE

(* The person changes the list; nothing is durable yet. *)
Change == open /\ UNCHANGED <<book, open>>

(* The list as it stands becomes durable, whole. *)
Commit == open /\ book' = view /\ UNCHANGED <<view, open>>

(* The program ends, by request or not. *)
Fall == open /\ open' = FALSE /\ view' = << >> /\ UNCHANGED book

(* A program starts with the durable list, or without it when the file     *)
(* cannot be read.                                                         *)
Rise == ~open /\ open' = TRUE /\ view' \in {Reload(book), << >>} /\ UNCHANGED book

BookNext == Change \/ Commit \/ Fall \/ Rise

BookSpec == BookInit /\ [][BookNext]_bookVars
================================================================================
