---------------------------- MODULE StereoMatch ----------------------------
(***************************************************************************)
(* The window search of stereomatch.m: for every pixel of the left image,  *)
(* the disparity at which a window around it differs least from the right  *)
(* image.  A call is four steps, one for each section of the function; a   *)
(* matrix is a function of row, column and disparity number.               *)
(*                                                                         *)
(* The sums over windows come from an integral image kept in single        *)
(* precision, and the disparity numbers are kept in bytes.                 *)
(***************************************************************************)
EXTENDS Integers, FiniteSetsExt

CONSTANTS
  Height, Width,  \* of both images
  Scenes,         \* pairs of images [left, right]
  WindowSizes,    \* windowsize: uneven, at least 3
  Disparities,    \* disparity: the greatest one searched
  Mantissa,       \* bits of the mantissa of a single: 24
  MaxByte         \* 255

Rows == 1 .. Height
Columns == 1 .. Width
Image == [Rows -> [Columns -> 0 .. MaxByte]]

\* The arguments the function is written for: an image of one row would be
\* summed along the wrong dimension, a window of one pixel has a single
\* corner, and the last column must have every candidate.
ASSUME MatchAssumption ==
  /\ Height \in Nat \ {0, 1}
  /\ Width \in Nat
  /\ Mantissa \in Nat \ {0}
  /\ MaxByte \in Nat \ {0}
  /\ \A s \in Scenes : s.left \in Image /\ s.right \in Image
  /\ WindowSizes \subseteq {n \in 3 .. 2 * Height + 1 : n % 2 = 1}
  /\ Disparities \subseteq Nat
  /\ \A n \in WindowSizes, d \in Disparities : d + 1 + n \div 2 <= Width

VARIABLES
  scene, WS, D,   \* the arguments; D counts the disparities
  pc,             \* the section that is next
  pcost, wcost,   \* cost of a pixel, cost of the window around it
  dmap, dcost,    \* number of the best disparity, 0 for none, and its cost
  fit             \* where spdmap is interpolated: three costs, else <<>>

vars == <<scene, WS, D, pc, pcost, wcost, dmap, dcost, fit>>

WS2 == (WS - 1) \div 2
Disps == 1 .. D

Abs(x) == IF x < 0 THEN -x ELSE x

\* An integer of class uint8.
Byte(x) == IF x > MaxByte THEN MaxByte ELSE IF x < 0 THEN 0 ELSE x

\* An integer of class single: Mantissa bits, rounded to the nearest, ties to
\* even.
Single(x) ==
  LET k == CHOOSE n \in 0 .. Abs(x) :
             /\ Abs(x) < 2^(Mantissa + n)
             /\ n > 0 => Abs(x) >= 2^(Mantissa + n - 1)
      q == Abs(x) \div 2^k
      r == 2 * (Abs(x) % 2^k)
      y == IF r < 2^k \/ (r = 2^k /\ q % 2 = 0) THEN q ELSE q + 1
  IN  IF x < 0 THEN -(y * 2^k) ELSE y * 2^k

-----------------------------------------------------------------------------
(* Costs.                                                                  *)

\* Columns that have no partner in the right image cost nothing.
PixelCost(i, j, c) ==
  IF c <= j THEN Abs(scene.right[i][j - c + 1] - scene.left[i][j]) ELSE 0

\* cumsum(cumsum(icost), 2): down the columns, then along the rows.
IntegralCost(c) ==
  LET down[i \in 0 .. Height, j \in Columns] ==
        IF i = 0 THEN 0 ELSE Single(down[i - 1, j] + pcost[i, j, c])
      sum[i \in Rows, j \in 0 .. Width] ==
        IF j = 0 THEN 0 ELSE Single(sum[i, j - 1] + down[i, j])
  IN  [i \in Rows, j \in Columns |-> sum[i, j]]

\* Mutant: beyond the border the image is repeated, not mirrored.
Mirror_Repeats(k, n) == IF k < 1 THEN k + n ELSE IF k > n THEN k - n ELSE k

\* 'symmetric': beyond its border the image is mirrored.
Mirror(k, n) == IF k < 1 THEN 1 - k ELSE IF k > n THEN 2 * n + 1 - k ELSE k

\* imfilter(icost, h): the difference of the four corners of the window.
WindowCost(icost, i, j) ==
  LET top    == Mirror(i - WS2, Height)
      bottom == Mirror(i + WS2, Height)
      left   == Mirror(j - WS2, Width)
      right  == Mirror(j + WS2, Width)
  IN  Single(icost[top, left] - icost[top, right]
             - icost[bottom, left] + icost[bottom, right])

-----------------------------------------------------------------------------
(* Search.                                                                 *)

\* Mutants: one candidate too many near the border, or one too few elsewhere.
Candidates_Wide(j) == 1 .. (IF j >= D + WS2 THEN D ELSE j - WS2 + 1)
Candidates_Short(j) ==
  1 .. (IF j >= D + WS2 THEN Max({1, D - 1}) ELSE j - WS2)

\* Near the left border only the disparities whose window is in the image.
Candidates(j) == 1 .. (IF j >= D + WS2 THEN D ELSE j - WS2)

\* min(.., [], 3): the first of the smallest.
Best(i, j) ==
  CHOOSE c \in Candidates(j) :
    \A e \in Candidates(j) :
      wcost[i, j, c] < wcost[i, j, e]
        \/ (wcost[i, j, c] = wcost[i, j, e] /\ c <= e)

\* The disparity that is reported where nothing is interpolated.
Disparity(i, j) == Byte(dmap[i, j] - 1)

\* The columns and disparities a parabola is laid through.
Interpolated(i, j) == j > D /\ dmap[i, j] > 1 /\ dmap[i, j] < D

\* The number after the greatest byte is itself: polyfit2 gets three abscissas
\* for two costs and raises an error.
Fails == \E i \in Rows, j \in Columns :
           Interpolated(i, j) /\ Byte(dmap[i, j] + 1) = dmap[i, j]

-----------------------------------------------------------------------------
(* The four sections of a call.                                            *)

None3 == [i \in Rows, j \in Columns, c \in Disps |-> 0]
None2 == [i \in Rows, j \in Columns |-> 0]

Init ==
  /\ scene \in Scenes
  /\ WS \in WindowSizes
  /\ \E d \in Disparities : D = d + 1
  /\ pc = "pixels"
  /\ pcost = None3
  /\ wcost = None3
  /\ dmap = None2
  /\ dcost = None2
  /\ fit = [i \in Rows, j \in Columns |-> <<>>]

CalculatePixelCost ==
  /\ pc = "pixels"
  /\ pc' = "windows"
  /\ pcost' = [i \in Rows, j \in Columns, c \in Disps |-> PixelCost(i, j, c)]
  /\ UNCHANGED <<scene, WS, D, wcost, dmap, dcost, fit>>

CalculateWindowCost ==
  /\ pc = "windows"
  /\ pc' = "search"
  /\ LET icost == [c \in Disps |-> IntegralCost(c)]
     IN  wcost' = [i \in Rows, j \in Columns, c \in Disps |->
                     WindowCost(icost[c], i, j)]
  /\ UNCHANGED <<scene, WS, D, pcost, dmap, dcost, fit>>

\* The columns before the first whole window keep what they were made with.
SearchDisparity ==
  /\ pc = "search"
  /\ pc' = "interpolate"
  /\ dmap' = [i \in Rows, j \in Columns |->
                IF j <= WS2 THEN 0 ELSE Byte(Best(i, j))]
  /\ dcost' = [i \in Rows, j \in Columns |->
                 IF j <= WS2 THEN 0 ELSE wcost[i, j, Best(i, j)]]
  /\ UNCHANGED <<scene, WS, D, pcost, wcost, fit>>

\* spacc is not 1.
LeaveWhole ==
  /\ pc = "interpolate"
  /\ pc' = "done"
  /\ UNCHANGED <<scene, WS, D, pcost, wcost, dmap, dcost, fit>>

Interpolate ==
  /\ pc = "interpolate"
  /\ ~Fails
  /\ pc' = "done"
  /\ fit' = [i \in Rows, j \in Columns |->
               IF Interpolated(i, j)
               THEN <<wcost[i, j, dmap[i, j] - 1], wcost[i, j, dmap[i, j]],
                      wcost[i, j, dmap[i, j] + 1]>>
               ELSE <<>>]
  /\ UNCHANGED <<scene, WS, D, pcost, wcost, dmap, dcost>>

RaiseError ==
  /\ pc = "interpolate"
  /\ Fails
  /\ pc' = "error"
  /\ UNCHANGED <<scene, WS, D, pcost, wcost, dmap, dcost, fit>>

Next ==
  \/ CalculatePixelCost
  \/ CalculateWindowCost
  \/ SearchDisparity
  \/ LeaveWhole
  \/ Interpolate
  \/ RaiseError

Spec == Init /\ [][Next]_vars

-----------------------------------------------------------------------------
(* Properties.                                                             *)

\* The sum of absolute differences, term by term, over the rows and columns
\* that the window around a pixel covers: the WS - 1 after its first one, or,
\* at a border, those that remain when the window is folded back.
Covered(k, n) ==
  {x \in 1 .. n : /\ x > (IF k > WS2 THEN k - WS2 ELSE WS2 - k + 1)
                  /\ x <= (IF k + WS2 <= n THEN k + WS2
                           ELSE 2 * n - k - WS2 + 1)}

Sad(i, j, c) ==
  MapThenSumSet(
    LAMBDA x : Abs(scene.left[x[1]][x[2]] - scene.right[x[1]][x[2] - c + 1]),
    Covered(i, Height) \X Covered(j, Width))

\* The disparities whose whole window, moved by it, is in the right image.
InImage(j) == {c \in Disps : j - (c - 1) - WS2 >= 1}

\* The sums over the whole image fit a mantissa; the numbers fit a byte.
Exact ==
  \A c \in Disps :
    MapThenSumSet(LAMBDA x : PixelCost(x[1], x[2], c), Rows \X Columns)
      < 2^Mantissa
Fits == D <= MaxByte

\* The four corners of the integral image give the sum over the window, for
\* every candidate of every pixel, the mirrored borders included, as long as
\* a single holds the sum over the image ("Calculate window cost").
WindowCostIsSad ==
  pc = "search" /\ Exact =>
    \A i \in Rows, j \in Columns : \A c \in InImage(j) :
      wcost[i, j, c] = Sad(i, j, c)

\* The number found is the smallest disparity of least cost among those whose
\* window is in both images, and columns that have none get none: the zero
\* costs of missing columns never win ("Search disparity value").
BestMatch ==
  pc = "done" /\ Exact /\ Fits =>
    \A i \in Rows, j \in Columns :
      IF InImage(j) = {} THEN dmap[i, j] = 0
      ELSE /\ dmap[i, j] \in InImage(j)
           /\ dcost[i, j] = Sad(i, j, dmap[i, j])
           /\ \A c \in InImage(j) :
                Sad(i, j, c) > dcost[i, j]
                  \/ (Sad(i, j, c) = dcost[i, j] /\ dmap[i, j] <= c)

\* The parabola has its lowest point within half a disparity of the one that
\* was found, rounded sums or not.  The exceptions are the columns from D + 1
\* on in which not all disparities were searched: there the costs of one that
\* was no candidate are used ("Subpixel interpolation").
SubpixelNear ==
  Fits =>
    \A i \in Rows, j \in Columns : fit[i, j] # <<>> /\ j >= D + WS2 =>
      LET bend == fit[i, j][1] - 2 * fit[i, j][2] + fit[i, j][3]
      IN  bend > 0 /\ Abs(fit[i, j][1] - fit[i, j][3]) <= bend
=============================================================================
