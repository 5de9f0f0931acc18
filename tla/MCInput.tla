------------------------------ MODULE MCInput ------------------------------
EXTENDS Input
MCOrder == <<"cross", "touchpad">>
=============================================================================
