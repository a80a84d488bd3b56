--------------------------- MODULE MCAnalysisIntake ---------------------------
\* AnalysisIntake for TLC: the sets are model values given in the cfg.
EXTENDS AnalysisIntake
=============================================================================
