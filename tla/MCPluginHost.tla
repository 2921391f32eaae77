---------------------------- MODULE MCPluginHost ----------------------------
\* PluginHost for TLC: one plugin in two versions, two requests at once.  Three
\* hosts and four instances are as many as can be referred to at the same time.
EXTENDS PluginHost

MCHost == 1 .. 3
MCInstance == 1 .. 4
=============================================================================
