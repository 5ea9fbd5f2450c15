--------------------------- MODULE MCProviderCalls ---------------------------
\* The provider's calls on a small instance.
EXTENDS ProviderCalls
=============================================================================
