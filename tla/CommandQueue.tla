---------------------------- MODULE CommandQueue ----------------------------
(***************************************************************************)
(* What StarDictClient promises to the windows that share it, with no      *)
(* connection, thread or stream in sight.  Commands are taken in order and *)
(* answered in that order, each at most once, or all that are waiting are  *)
(* dropped together and nobody is told.  An answer is an answer to the     *)
(* command it is given for; one that is given at once, under the number 0, *)
(* repeats an answer that was given for the same command before and has    *)
(* not been outdated since.                                                *)
(***************************************************************************)
EXTENDS Naturals, Sequences, Subsequences

CONSTANTS Offers,     \* batches of command texts a window may submit
          AnswersTo(_),  \* everything an answer to a command may say
          Seqs        \* the numbers commands may have; a finite set in a model

VARIABLES waiting,    \* commands taken and not yet answered: [seq, text]
          number,     \* the next number a command is given
          kept,       \* answers that may be repeated: [key, data]
          emitted     \* the signals of the last step: [seq, text, data]

queueVars == <<waiting, number, kept, emitted>>

Waiting(n, text) == [seq |-> n, text |-> text]
Emission(n, text, data) == [seq |-> n, text |-> text, data |-> data]

QueueInit == waiting = <<>> /\ number = 1 /\ kept = {} /\ emitted = <<>>

(* Numbers also go to commands the client makes for itself. *)
Numbers(used) == number' \in Seqs /\ number' >= number + used

(* A batch is taken: the commands at the positions H are answered from what
   is kept, the others wait.                                              *)
Take(batch) ==
  \E H \in SUBSET (1 .. Len(batch)) :
    /\ \E miss \in Ascending((1 .. Len(batch)) \ H, Len(batch)) :
         waiting' = waiting \o [i \in 1 .. Len(miss) |->
                                  Waiting(number + miss[i] - 1, batch[miss[i]])]
    /\ \E hit \in Ascending(H, Len(batch)), repeated \in [H -> kept] :
         /\ \A i \in H : repeated[i].key = batch[i]
         /\ emitted' = [i \in 1 .. Len(hit) |->
                          Emission(0, batch[hit[i]], repeated[hit[i]].data)]
    /\ Numbers(Len(batch))
    /\ kept' \in SUBSET kept

(* The oldest command is done with: answered, and its answer kept, or
   turned down.  The connection may end with it, and what waits is dropped. *)
Answer ==
  /\ waiting # <<>>
  /\ LET c == Head(waiting) IN
     \/ emitted' = <<>> /\ kept' \in SUBSET kept
     \/ \E d \in AnswersTo(c.text) :
          /\ emitted' = <<Emission(c.seq, c.text, d)>>
          /\ kept' \in SUBSET (kept \cup {[key |-> c.text, data |-> d]})
  /\ waiting' \in {Tail(waiting), <<>>}
  /\ Numbers(0)

(* Everything that waits is dropped. *)
Drop ==
  /\ waiting # <<>> /\ waiting' = <<>>
  /\ emitted' = <<>> /\ UNCHANGED kept
  /\ Numbers(0)

(* What is kept may be forgotten at any time. *)
Outdate ==
  /\ kept' \in SUBSET kept
  /\ emitted' = <<>> /\ UNCHANGED waiting
  /\ Numbers(0)

QueueNext == (\E batch \in Offers : Take(batch)) \/ Answer \/ Drop \/ Outdate

QueueSpec == QueueInit /\ [][QueueNext]_queueVars
==============================================================================
