------------------------ MODULE MCGripperController -------------------------
EXTENDS GripperController
=============================================================================
