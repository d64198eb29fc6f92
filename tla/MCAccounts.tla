---------------------------- MODULE MCAccounts ----------------------------
\* Two addresses, a phone with digits and one without, two requests that wait
\* for mail at a time.
EXTENDS Accounts, TLC

MCSymmetry ==
    Permutations(Emails) \cup Permutations(Reqs) \cup Permutations(Passwords)

=============================================================================
