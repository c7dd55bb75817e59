----------------------------- MODULE MCLaunches -----------------------------
EXTENDS Launches
=============================================================================
