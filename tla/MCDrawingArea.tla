---------------------------- MODULE MCDrawingArea ----------------------------
EXTENDS DrawingArea

ViewSizes == {0, 1, 2}
=============================================================================
