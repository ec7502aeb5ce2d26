---------------------------- MODULE MCUpgradeResume ----------------------------
\* Instances of UpgradeResume for TLC.
EXTENDS UpgradeResume
================================================================================
