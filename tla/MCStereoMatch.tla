---------------------------- MODULE MCStereoMatch ----------------------------
(* Small images with many different windows, and images of which one is the *)
(* other moved sideways.                                                     *)
EXTENDS StereoMatch

Texture(k) ==
  [i \in 1 .. 5 |-> [j \in 1 .. 7 |->
     (k * i + 3 * j * j + (k \div 3) * i * j) % 4]]

\* What enters at the border differs from what it covers.
Shifted(t, s) ==
  [i \in 1 .. 5 |-> [j \in 1 .. 7 |-> IF j > s THEN t[i][j - s] ELSE i % 4]]

SomeScenes ==
  {[left |-> Texture(a), right |-> Texture(b)] : a \in 0 .. 6, b \in 3 .. 11}
  \cup {[left |-> Shifted(Texture(b), s), right |-> Texture(b)] :
          b \in 0 .. 11, s \in 0 .. 3}
=============================================================================
