-------------------------- MODULE MCVirtualMemory --------------------------
EXTENDS VirtualMemory

OneCore == {0}
ThreePages == 1..3
FourPages == 1..4
Runs == {1, 2}
=============================================================================
