-------------------------------- MODULE MCPool --------------------------------
EXTENDS ConnectionPool
===============================================================================
