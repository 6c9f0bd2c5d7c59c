--------------------------- MODULE MCInterpolation ---------------------------
EXTENDS Interpolation

\* Both sides of the wrap, the opposite of 0, and a negative angle.
Angles == {-170, 0, 10, 180, 350}
Positions == {-40, 100}
=============================================================================
