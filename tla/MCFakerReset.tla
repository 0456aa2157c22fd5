---------------------------- MODULE MCFakerReset ----------------------------
\* The network of MCFakerChildren in a run of its own.
EXTENDS Faker, MCFakerChildren
=============================================================================
