----------------------------- MODULE MCSettings -----------------------------
(* Two sessions with the editor (or a clearing of the settings), and two mishaps:
   flash operations that fail, stops, starts of the inverter and emergencies.
   That is enough to save, to have a second save fail or be cut off, and to boot
   on what is left. *)
EXTENDS Settings

MCDefault == [k \in Key |-> CASE k \in {Active, Hour, TimeSet} -> 0 [] k = Cutoff -> 1
                              [] k \in {Type, OutFreq, Limit, Freq} -> 2]
=============================================================================
