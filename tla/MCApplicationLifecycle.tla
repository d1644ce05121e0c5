----------------------- MODULE MCApplicationLifecycle -----------------------
EXTENDS ApplicationLifecycle

CONSTANTS a1, h1

MCRetail == [a \in App |-> "retail"]
MCAnyRequest == Kind
=============================================================================
